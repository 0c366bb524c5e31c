----------------------------- MODULE SyncWindow -----------------------------
(***************************************************************************)
(* The fetch window of one account: syncOneAccount asks the bank for the   *)
(* settled transactions from the cursor (lastSuccessfulSync) minus the     *)
(* overlap up to now, and moves the cursor when everything is stored.      *)
(*                                                                         *)
(* The hazard: the cursor becomes the time at which the sync ENDED, which  *)
(* is later than the `to` of the window it fetched, and the bank may post  *)
(* a transaction with a date in the past.  Both make a gap that only the   *)
(* overlap of the next window can cover.                                   *)
(*                                                                         *)
(* Time is counted in ticks.  The lock of SyncEngine leaves one sync per   *)
(* account at a time, so there is one set of local variables.  The upserts *)
(* are taken apart in Ledger; here a sync that fails has stored some part  *)
(* of what it fetched.                                                     *)
(***************************************************************************)
EXTENDS Integers

CONSTANTS
  Txns,         \* transactions the bank may post
  Overlap,      \* config.syncOverlapDays
  Initial,      \* config.initialSyncDays
  Lag,          \* environment: how late the bank may post a transaction
  MaxDuration,  \* environment: how long a sync takes from `to` to its end
  MaxClock,     \* bound on the clock
  None

ASSUME WindowAssumption ==
  /\ Overlap \in Nat /\ Initial \in Nat
  /\ Lag \in Nat /\ MaxDuration \in Nat /\ MaxClock \in Nat
  /\ None \notin Int

VARIABLES
  clock,
  posted,   \* bank: the transactions its settled endpoint knows
  date,     \* bank: their timestamps
  stored,   \* rows of table transactions
  cursor,   \* accounts.last_successful_sync
  phase,    \* what syncOneAccount waits for
  from, to, \* its window
  settled,  \* the transactions it was sent
  horizon   \* history: where the first completed sync started

vars == <<clock, posted, date, stored, cursor, phase, from, to, settled, horizon>>

\* The dates of what the bank knew before the account was connected.
History == (-1 - Initial)..0

Init ==
  /\ clock = 0
  /\ posted \in SUBSET Txns
  /\ date \in [Txns -> History]
  /\ stored = {}
  /\ cursor = None
  /\ phase = "idle"
  /\ from = 0 /\ to = 0
  /\ settled = {}
  /\ horizon = 0

\* The bank posts a transaction, dated up to Lag ticks in the past.
Post(x, d) ==
  /\ x \notin posted
  /\ posted' = posted \cup {x}
  /\ date' = [date EXCEPT ![x] = d]
  /\ UNCHANGED <<clock, stored, cursor, phase, from, to, settled, horizon>>

\* Mutant: the window starts where the last one ended.
WindowStart_NoOverlap == IF cursor = None THEN clock - Initial ELSE cursor

WindowStart == IF cursor = None THEN clock - Initial ELSE cursor - Overlap

BeginFetch ==
  /\ phase = "idle"
  /\ phase' = "fetch"
  /\ from' = WindowStart
  /\ to' = clock
  /\ settled' = {}
  /\ UNCHANGED <<clock, posted, date, stored, cursor, horizon>>

Answer ==
  /\ phase = "fetch"
  /\ phase' = "store"
  /\ settled' = {x \in posted : from <= date[x] /\ date[x] <= to}
  /\ UNCHANGED <<clock, posted, date, stored, cursor, from, to, horizon>>

\* The whole batch is in the table; the cursor becomes the time of now().
Complete ==
  /\ phase = "store"
  /\ phase' = "idle"
  /\ stored' = stored \cup settled
  /\ settled' = {}
  /\ cursor' = clock
  /\ horizon' = IF cursor = None THEN from ELSE horizon
  /\ UNCHANGED <<clock, posted, date, from, to>>

\* Mutant: the cursor is moved by a sync that failed.
Abandon_MovesCursor ==
  /\ phase # "idle"
  /\ phase' = "idle"
  /\ \E kept \in SUBSET settled : stored' = stored \cup kept
  /\ cursor' = clock
  /\ horizon' = IF cursor = None THEN from ELSE horizon
  /\ settled' = {}
  /\ UNCHANGED <<clock, posted, date, from, to>>

\* A fetch, an upsert or the process fails: part of the batch is stored.
Abandon ==
  /\ phase # "idle"
  /\ phase' = "idle"
  /\ \E kept \in SUBSET settled : stored' = stored \cup kept
  /\ settled' = {}
  /\ UNCHANGED <<clock, posted, date, cursor, from, to, horizon>>

Tick ==
  /\ clock < MaxClock
  /\ phase # "idle" => clock < to + MaxDuration
  /\ clock' = clock + 1
  /\ UNCHANGED <<posted, date, stored, cursor, phase, from, to, settled, horizon>>

Next ==
  \/ \E x \in Txns, d \in (clock - Lag)..clock : Post(x, d)
  \/ BeginFetch
  \/ Answer
  \/ Complete
  \/ Abandon
  \/ Tick

Spec == Init /\ [][Next]_vars

-----------------------------------------------------------------------------
TypeOK ==
  /\ clock \in Nat
  /\ posted \subseteq Txns
  /\ date \in [Txns -> Int]
  /\ stored \subseteq posted
  /\ cursor \in Nat \cup {None}
  /\ phase \in {"idle", "fetch", "store"}
  /\ from \in Int /\ to \in Nat /\ horizon \in Int
  /\ settled \subseteq posted

\* Nothing is lost between two windows: a transaction that the bank knows and
\* the table does not lies in the window of the next sync, unless it is older
\* than all the history the first sync asked for.  Holds if the overlap is at
\* least the bank's lag plus the duration of a sync.
NothingMissed ==
  \A x \in posted \ stored :
    cursor # None => date[x] < horizon \/ date[x] >= cursor - Overlap

\* The sync under way: it began at `to`, its window starts where NothingMissed
\* needs it, and what it was not sent was posted after the answer.
FetchInv ==
  phase # "idle" =>
    /\ to <= clock /\ clock <= to + MaxDuration
    /\ cursor # None => from = cursor - Overlap

StoreInv ==
  phase = "store" =>
    \A x \in posted \ settled : date[x] < from \/ date[x] >= to - Lag

CursorInv == cursor # None => cursor <= clock

WindowInv == TypeOK /\ NothingMissed /\ FetchInv /\ StoreInv /\ CursorInv
=============================================================================
