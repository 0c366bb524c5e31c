----------------------------- MODULE Connections -----------------------------
(***************************************************************************)
(* ConnectionService of moneta: auth sessions, the OAuth callback, the     *)
(* discovery of accounts and the refresh of tokens, with the routes that   *)
(* call them and the bank (TrueLayer) on the other side.                   *)
(*                                                                         *)
(* A callback is one GET /auth/truelayer/callback.  Nothing excludes two   *)
(* of them, even with one state: a browser repeats requests as it likes.   *)
(* A refresh runs inside a sync, so the lock of SyncEngine lets at most one *)
(* be under way per connection; it excludes no callback, and the sync reads *)
(* the status of the connection once, when it begins.                      *)
(*                                                                         *)
(* Abstractions.  A state names the session, the code the bank issues for  *)
(* it and the grant it exchanges the code for.  The bank numbers the       *)
(* refresh tokens of a grant: it accepts the newest one and may replace it *)
(* at every use.  Whether an access token has lapsed is a choice at every  *)
(* use by a sync, and never so in the discovery that follows the exchange  *)
(* at once, which would take an expires_in below the headroom of 60        *)
(* seconds.  Of a sync only what it does to the connection is here.  The   *)
(* fields of an account and its balance are left out, and every grant      *)
(* gives access to the same accounts.                                      *)
(***************************************************************************)
EXTENDS Naturals, FiniteSets

CONSTANTS
  Connections,    \* ids available to rows of table connections
  States,         \* auth states createAuthSession may generate
  Callbacks,      \* concurrent callback requests
  BankAccounts,   \* the accounts a grant gives access to
  MaxTokens,      \* bound: refresh tokens per grant
  None

ASSUME ConnectionNoneAssumption == None \notin Connections \cup States
ASSUME TokenBoundAssumption == MaxTokens \in Nat

VARIABLES
  conn,        \* table connections
  accounts,    \* table accounts: <<connection, provider account>>
  auth,        \* table settings: the auth states, and what they asked for
  code,        \* bank: the code of each session
  newest,      \* bank: the newest refresh token of each grant, 0 if none yet
  alive,       \* bank: the grants it still honours
  pc,          \* where each callback is
  task,        \* the local variables of each callback
  sync,        \* the sync of each connection, and the refresh it is making
  passed,      \* callbacks that got through consumeState, for each state
  mislaid      \* grants of which a refresh token never reached the database

database == <<conn, accounts, auth>>
bank     == <<code, newest, alive>>
history  == <<passed, mislaid>>
vars     == <<database, bank, pc, task, sync, history>>

ConnectionStatus == {"ACTIVE", "REAUTH_REQUIRED", "DISABLED"}

\* grant and token are the contents of encrypted_credentials; discovered says
\* that discoverAccounts has written last_successful_sync.
ConnRow == [exists : BOOLEAN, status : ConnectionStatus,
            grant : States \cup {None}, token : Nat, discovered : BOOLEAN]
NoConn  == [exists |-> FALSE, status |-> "ACTIVE", grant |-> None, token |-> 0,
            discovered |-> FALSE]

\* target is AuthState.connectionId, and outlives the row here.
AuthRow == [row : {"unused", "present", "deleted"}, old : BOOLEAN,
            target : Connections \cup {None}]
NoAuth  == [row |-> "unused", old |-> FALSE, target |-> None]

Task     == [state : States \cup {None}, conn : Connections \cup {None},
             todo : SUBSET BankAccounts]
IdleTask == [state |-> None, conn |-> None, todo |-> {}]

\* "running": the sync is not refreshing; "refused": it was told to reauthorize.
Refresh      == [pc : {"idle", "running", "refresh", "persist", "refused"},
                 grant : States \cup {None}, token : Nat]
NoRefresh(p) == [pc |-> p, grant |-> None, token |-> 0]

PcValues == {"idle", "delete", "exchange", "store", "list", "upsert"}

Init ==
  /\ conn = [c \in Connections |-> NoConn]
  /\ accounts = {}
  /\ auth = [s \in States |-> NoAuth]
  /\ code = [s \in States |-> "none"]
  /\ newest = [s \in States |-> 0]
  /\ alive = {}
  /\ pc = [t \in Callbacks |-> "idle"]
  /\ task = [t \in Callbacks |-> IdleTask]
  /\ sync = [c \in Connections |-> NoRefresh("idle")]
  /\ passed = [s \in States |-> 0]
  /\ mislaid = {}

-----------------------------------------------------------------------------
(***************************************************************************)
(* The session and the user.                                               *)
(***************************************************************************)

\* POST /connections/truelayer, and POST /connections/:id/reauthorize, which
\* answers 404 for a connection that does not exist.
CreateAuthSession(s, target) ==
  /\ auth[s].row = "unused"
  /\ target # None => conn[target].exists
  /\ auth' = [auth EXCEPT ![s] = [row |-> "present", old |-> FALSE, target |-> target]]
  /\ UNCHANGED <<conn, accounts, bank, pc, task, sync, history>>

\* The user agrees at the bank, which redirects the browser to the callback.
UserAuthorizes(s) ==
  /\ auth[s].row # "unused"
  /\ code[s] = "none"
  /\ code' = [code EXCEPT ![s] = "issued"]
  /\ UNCHANGED <<database, newest, alive, pc, task, sync, history>>

\* STATE_TTL_MS pass.
SessionAges(s) ==
  /\ auth[s].row = "present"
  /\ ~auth[s].old
  /\ auth' = [auth EXCEPT ![s].old = TRUE]
  /\ UNCHANGED <<conn, accounts, bank, pc, task, sync, history>>

-----------------------------------------------------------------------------
(***************************************************************************)
(* handleCallback.                                                         *)
(***************************************************************************)
Return(t) ==
  /\ pc' = [pc EXCEPT ![t] = "idle"]
  /\ task' = [task EXCEPT ![t] = IdleTask]

\* consumeState finds the row.  A callback whose state has no row is refused
\* and changes nothing.
FindState(t, s) ==
  /\ pc[t] = "idle"
  /\ code[s] # "none"
  /\ auth[s].row = "present"
  /\ task' = [task EXCEPT ![t].state = s]
  /\ pc' = [pc EXCEPT ![t] = "delete"]
  /\ UNCHANGED <<database, bank, sync, history>>

\* Mutant: deleteMany, which does not mind a missing row.
DeleteState_Lenient(t) ==
  /\ pc[t] = "delete"
  /\ auth' = [auth EXCEPT ![task[t].state].row = "deleted"]
  /\ IF auth[task[t].state].old
     THEN Return(t) /\ UNCHANGED passed
     ELSE /\ pc' = [pc EXCEPT ![t] = "exchange"]
          /\ passed' = [passed EXCEPT ![task[t].state] = @ + 1]
          /\ UNCHANGED task
  /\ UNCHANGED <<conn, accounts, bank, sync, mislaid>>

\* consumeState deletes the row it has found; a state that is too old is
\* refused, but used up.
DeleteState(t) ==
  /\ pc[t] = "delete"
  /\ auth[task[t].state].row = "present"
  /\ auth' = [auth EXCEPT ![task[t].state].row = "deleted"]
  /\ IF auth[task[t].state].old
     THEN Return(t) /\ UNCHANGED passed
     ELSE /\ pc' = [pc EXCEPT ![t] = "exchange"]
          /\ passed' = [passed EXCEPT ![task[t].state] = @ + 1]
          /\ UNCHANGED task
  /\ UNCHANGED <<conn, accounts, bank, sync, mislaid>>

\* Another callback has deleted the row in the meantime: delete throws.
DeleteLoses(t) ==
  /\ pc[t] = "delete"
  /\ auth[task[t].state].row = "deleted"
  /\ Return(t)
  /\ UNCHANGED <<database, bank, sync, history>>

Redeem(s) ==
  /\ code[s] = "issued"
  /\ code' = [code EXCEPT ![s] = "redeemed"]
  /\ newest' = [newest EXCEPT ![s] = 1]
  /\ alive' = alive \cup {s}

ExchangeCode(t) ==
  /\ pc[t] = "exchange"
  /\ Redeem(task[t].state)
  /\ pc' = [pc EXCEPT ![t] = "store"]
  /\ UNCHANGED <<database, task, sync, history>>

\* The answer gets lost; the request is retried with the code now redeemed.
ExchangeLost(t) ==
  /\ pc[t] = "exchange"
  /\ Redeem(task[t].state)
  /\ UNCHANGED <<database, pc, task, sync, history>>

\* Mutant: every callback makes a connection.
StoreReauth_NewRow(t, c) ==
  /\ pc[t] = "store"
  /\ auth[task[t].state].target # None
  /\ ~conn[c].exists
  /\ conn' = [conn EXCEPT ![c] = [NoConn EXCEPT !.exists = TRUE, !.token = 1,
                                                !.grant = task[t].state]]
  /\ task' = [task EXCEPT ![t].conn = c]
  /\ pc' = [pc EXCEPT ![t] = "list"]
  /\ UNCHANGED <<accounts, auth, bank, sync, history>>

\* A session for a connection: one update stores the credentials and ACTIVE.
StoreReauth(t, c) ==
  /\ pc[t] = "store"
  /\ auth[task[t].state].target = c
  /\ conn' = [conn EXCEPT ![c].status = "ACTIVE", ![c].token = 1,
                          ![c].grant = task[t].state]
  /\ task' = [task EXCEPT ![t].conn = c]
  /\ pc' = [pc EXCEPT ![t] = "list"]
  /\ UNCHANGED <<accounts, auth, bank, sync, history>>

\* A session for no connection: a new row.
StoreNew(t, c) ==
  /\ pc[t] = "store"
  /\ auth[task[t].state].target = None
  /\ ~conn[c].exists
  /\ conn' = [conn EXCEPT ![c] = [NoConn EXCEPT !.exists = TRUE, !.token = 1,
                                                !.grant = task[t].state]]
  /\ task' = [task EXCEPT ![t].conn = c]
  /\ pc' = [pc EXCEPT ![t] = "list"]
  /\ UNCHANGED <<accounts, auth, bank, sync, history>>

-----------------------------------------------------------------------------
(***************************************************************************)
(* discoverAccounts, at the end of handleCallback.                         *)
(***************************************************************************)

\* The token is read from the row, which a refresh may have overwritten.
ListAccounts(t) ==
  /\ pc[t] = "list"
  /\ conn[task[t].conn].grant \in alive
  /\ task' = [task EXCEPT ![t].todo = BankAccounts]
  /\ pc' = [pc EXCEPT ![t] = "upsert"]
  /\ UNCHANGED <<database, bank, sync, history>>

\* The account of this connection is made, or found again.
UpsertAccount(t, a) ==
  /\ pc[t] = "upsert"
  /\ a \in task[t].todo
  /\ accounts' = accounts \cup {<<task[t].conn, a>>}
  /\ task' = [task EXCEPT ![t].todo = @ \ {a}]
  /\ UNCHANGED <<conn, auth, bank, pc, sync, history>>

\* Mutant: the time is written before the accounts.
FinishDiscovery_Early(t) ==
  /\ pc[t] = "upsert"
  /\ conn' = [conn EXCEPT ![task[t].conn].discovered = TRUE]
  /\ UNCHANGED <<accounts, auth, bank, pc, task, sync, history>>

FinishDiscovery(t) ==
  /\ pc[t] = "upsert"
  /\ task[t].todo = {}
  /\ conn' = [conn EXCEPT ![task[t].conn].discovered = TRUE]
  /\ Return(t)
  /\ UNCHANGED <<accounts, auth, bank, sync, history>>

\* A query or a request fails, among them an exchange with a used code: the
\* user reads that the bank was not connected, whatever is stored by then.
CallbackFails(t) ==
  /\ pc[t] # "idle"
  /\ Return(t)
  /\ UNCHANGED <<database, bank, sync, history>>

-----------------------------------------------------------------------------
(***************************************************************************)
(* runSync, and its calls of getValidAccessToken that find the access      *)
(* token lapsed, one account after the other.                              *)
(***************************************************************************)
BeginSync(c) ==
  /\ sync[c].pc = "idle"
  /\ conn[c].exists
  /\ conn[c].status = "ACTIVE"
  /\ sync' = [sync EXCEPT ![c] = NoRefresh("running")]
  /\ UNCHANGED <<database, bank, pc, task, history>>

\* The row is read again, its status is not looked at.
BeginRefresh(c) ==
  /\ sync[c].pc = "running"
  /\ conn[c].exists
  /\ sync' = [sync EXCEPT ![c] = [pc |-> "refresh", grant |-> conn[c].grant,
                                  token |-> conn[c].token]]
  /\ UNCHANGED <<database, bank, pc, task, history>>

Accepted(c) == sync[c].grant \in alive /\ sync[c].token = newest[sync[c].grant]

\* The bank answers with the same refresh token, or with the next one.
RefreshAnswered(c) ==
  /\ sync[c].pc = "refresh"
  /\ Accepted(c)
  /\ \E token \in {sync[c].token, sync[c].token + 1} :
       /\ token <= MaxTokens
       /\ newest' = [newest EXCEPT ![sync[c].grant] = token]
       /\ sync' = [sync EXCEPT ![c].pc = "persist", ![c].token = token]
  /\ UNCHANGED <<database, code, alive, pc, task, history>>

\* The bank has replaced the token, the answer is lost, and the request is
\* retried with the token that was replaced.
RefreshLost(c) ==
  /\ sync[c].pc = "refresh"
  /\ Accepted(c)
  /\ sync[c].token < MaxTokens
  /\ newest' = [newest EXCEPT ![sync[c].grant] = sync[c].token + 1]
  /\ mislaid' = mislaid \cup {sync[c].grant}
  /\ UNCHANGED <<database, code, alive, pc, task, sync, passed>>

\* The grant is refused: the status is set, whatever is stored by now.
RefreshRejected(c) ==
  /\ sync[c].pc = "refresh"
  /\ ~Accepted(c)
  /\ conn' = [conn EXCEPT ![c].status = "REAUTH_REQUIRED"]
  /\ sync' = [sync EXCEPT ![c] = NoRefresh("refused")]
  /\ UNCHANGED <<accounts, auth, bank, pc, task, history>>

\* Mutant: the answer's refresh token is dropped, the one in hand is kept.
PersistTokens_KeepsOld(c) ==
  /\ sync[c].pc = "persist"
  /\ conn' = [conn EXCEPT ![c].grant = sync[c].grant]
  /\ sync' = [sync EXCEPT ![c] = NoRefresh("running")]
  /\ UNCHANGED <<accounts, auth, bank, pc, task, history>>

PersistTokens(c) ==
  /\ sync[c].pc = "persist"
  /\ conn' = [conn EXCEPT ![c].grant = sync[c].grant, ![c].token = sync[c].token]
  /\ sync' = [sync EXCEPT ![c] = NoRefresh("running")]
  /\ UNCHANGED <<accounts, auth, bank, pc, task, history>>

\* The refreshes, among some, that hold tokens the database does not have.
Unsaved(some) ==
  {c \in some : /\ sync[c].pc = "persist"
                /\ <<conn[c].grant, conn[c].token>> # <<sync[c].grant, sync[c].token>>}

\* The retries run out, or the update fails and the tokens are lost: the account
\* has failed, and the next one finds what is stored.
RefreshFails(c) ==
  /\ sync[c].pc \in {"refresh", "persist"}
  /\ mislaid' = mislaid \cup {sync[d].grant : d \in Unsaved({c})}
  /\ sync' = [sync EXCEPT ![c] = NoRefresh("running")]
  /\ UNCHANGED <<database, bank, pc, task, passed>>

\* A data request is answered with 401 or 403: the consent is gone, or the token has
\* lapsed while the requests were retried.
DataRefused(c) ==
  /\ sync[c].pc = "running"
  /\ sync' = [sync EXCEPT ![c] = NoRefresh("refused")]
  /\ UNCHANGED <<database, bank, pc, task, history>>

\* Mutant: a status the enum of the table does not have.
MarkReauth_Raw(c) ==
  /\ sync[c].pc = "refused"
  /\ conn' = [conn EXCEPT ![c].status = "AUTHORIZATION_EXPIRED"]
  /\ sync' = [sync EXCEPT ![c] = NoRefresh("idle")]
  /\ UNCHANGED <<accounts, auth, bank, pc, task, history>>

\* The engine sets the status as well, whatever is stored by now, and leaves the
\* loop over the accounts.
MarkReauth(c) ==
  /\ sync[c].pc = "refused"
  /\ conn' = [conn EXCEPT ![c].status = "REAUTH_REQUIRED"]
  /\ sync' = [sync EXCEPT ![c] = NoRefresh("idle")]
  /\ UNCHANGED <<accounts, auth, bank, pc, task, history>>

\* The accounts are done, or a query of the run fails.
EndSync(c) ==
  /\ sync[c].pc \in {"running", "refused"}
  /\ sync' = [sync EXCEPT ![c] = NoRefresh("idle")]
  /\ UNCHANGED <<database, bank, pc, task, history>>

-----------------------------------------------------------------------------
\* DELETE /connections/:id.
DisableConnection(c) ==
  /\ conn[c].exists
  /\ conn' = [conn EXCEPT ![c].status = "DISABLED"]
  /\ UNCHANGED <<accounts, auth, bank, pc, task, sync, history>>

RevokeConsent(s) ==
  /\ s \in alive
  /\ alive' = alive \ {s}
  /\ UNCHANGED <<database, code, newest, pc, task, sync, history>>

\* The process dies with whatever is under way.
Crash ==
  /\ \/ \E t \in Callbacks : pc[t] # "idle"
     \/ \E c \in Connections : sync[c].pc # "idle"
  /\ pc' = [t \in Callbacks |-> "idle"]
  /\ task' = [t \in Callbacks |-> IdleTask]
  /\ sync' = [c \in Connections |-> NoRefresh("idle")]
  /\ mislaid' = mislaid \cup {sync[d].grant : d \in Unsaved(Connections)}
  /\ UNCHANGED <<database, bank, passed>>

Session(s) == \/ \E target \in Connections \cup {None} : CreateAuthSession(s, target)
              \/ UserAuthorizes(s) \/ SessionAges(s)

HandleCallback(t) ==
  \/ \E s \in States : FindState(t, s)
  \/ DeleteState(t) \/ DeleteLoses(t)
  \/ ExchangeCode(t) \/ ExchangeLost(t)
  \/ \E c \in Connections : StoreReauth(t, c) \/ StoreNew(t, c)
  \/ ListAccounts(t)
  \/ \E a \in BankAccounts : UpsertAccount(t, a)
  \/ FinishDiscovery(t)
  \/ CallbackFails(t)

RefreshTokens(c) == \/ BeginRefresh(c) \/ RefreshAnswered(c) \/ RefreshLost(c)
                    \/ RefreshRejected(c) \/ PersistTokens(c) \/ RefreshFails(c)

RunSync(c) == \/ BeginSync(c) \/ RefreshTokens(c) \/ DataRefused(c) \/ MarkReauth(c)
              \/ EndSync(c)

Next == \/ \E s \in States : Session(s) \/ RevokeConsent(s)
        \/ \E t \in Callbacks : HandleCallback(t)
        \/ \E c \in Connections :
             RunSync(c) \/ DisableConnection(c)
        \/ Crash

Spec == Init /\ [][Next]_vars

-----------------------------------------------------------------------------
(***************************************************************************)
(* What must hold.                                                         *)
(***************************************************************************)

\* The rows, the bank's records and the locals keep their types.
TypeOK ==
  /\ conn \in [Connections -> ConnRow]
  /\ accounts \subseteq Connections \X BankAccounts
  /\ auth \in [States -> AuthRow]
  /\ code \in [States -> {"none", "issued", "redeemed"}]
  /\ newest \in [States -> Nat]
  /\ alive \subseteq States
  /\ pc \in [Callbacks -> PcValues]
  /\ task \in [Callbacks -> Task]
  /\ sync \in [Connections -> Refresh]
  /\ passed \in [States -> Nat]
  /\ mislaid \subseteq States

\* routes/connections.ts:32, "protected by single-use state": of all callbacks
\* with a state, concurrent or not, one at most goes on to use its code.
StateUsedOnce == \A s \in States : passed[s] <= 1

\* The credentials of a connection come from a session for this connection, or
\* from the one session that made it: a renewed authorization never ends up in
\* another row or in a new one ("Reauth must target an existing row").
CredentialsMatch ==
  \A c \in Connections :
    conn[c].exists =>
      /\ conn[c].grant # None
      /\ auth[conn[c].grant].target \in {c, None}
      /\ \A d \in Connections \ {c} : conn[d].grant # conn[c].grant

\* A connection that shows the time of its discovery has all the accounts the
\* discovery was told of, whatever failed in a first or a later attempt.
DiscoveredIsComplete ==
  \A c \in Connections :
    conn[c].discovered => \A a \in BankAccounts : <<c, a>> \in accounts

\* spec.md, section 7.2, "persist the newest refresh token immediately after
\* every refresh": the stored refresh token is the bank's newest of its grant,
\* unless a refresh is about to store it, or an answer or a write was lost.
\* Callbacks that store another grant in between do not change this.
TokenUsable ==
  \A c \in Connections :
    LET g == conn[c].grant
    IN  conn[c].exists /\ g \notin mislaid =>
          \/ conn[c].token = newest[g]
          \/ /\ sync[c].pc = "persist"
             /\ sync[c].grant = g
             /\ sync[c].token = newest[g]
=============================================================================
