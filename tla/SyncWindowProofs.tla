-------------------------- MODULE SyncWindowProofs --------------------------
(***************************************************************************)
(* No transaction falls between two windows, for any set of transactions,  *)
(* any clock and any overlap that covers the bank's lag and a sync.        *)
(***************************************************************************)
EXTENDS SyncWindow, TLAPS

LEMMA InitWindow == Init => WindowInv
<1> SUFFICES ASSUME Init PROVE WindowInv
  OBVIOUS
<1>1. TypeOK
  BY WindowAssumption DEF Init, TypeOK, History
<1> QED
  BY <1>1 DEF Init, WindowInv, NothingMissed, FetchInv, StoreInv, CursorInv

\* A date within the lag is within the reach of the next window.
LEMMA PostWindow ==
  ASSUME Overlap >= Lag + MaxDuration, WindowInv,
         NEW x \in Txns, NEW d \in (clock - Lag)..clock, Post(x, d)
  PROVE  WindowInv'
<1> USE WindowAssumption DEF WindowInv, Post
<1>1. TypeOK'
  BY DEF TypeOK
<1>2. d \in Int /\ clock - Lag <= d
  BY DEF TypeOK
<1>3. NothingMissed'
  <2> SUFFICES ASSUME NEW y \in posted' \ stored', cursor' # None
               PROVE  date'[y] < horizon' \/ date'[y] >= cursor' - Overlap
    BY DEF NothingMissed
  <2>1. CASE y = x
    BY <1>2, <2>1 DEF TypeOK, CursorInv
  <2>2. CASE y # x
    BY <2>2 DEF TypeOK, NothingMissed
  <2> QED BY <2>1, <2>2
<1>4. FetchInv' /\ CursorInv'
  BY DEF FetchInv, CursorInv
<1>5. StoreInv'
  <2> SUFFICES ASSUME phase = "store", NEW y \in posted' \ settled
               PROVE  date'[y] < from \/ date'[y] >= to - Lag
    BY DEF StoreInv
  <2>1. CASE y = x
    BY <1>2, <2>1 DEF TypeOK, FetchInv
  <2>2. CASE y # x
    BY <2>2 DEF TypeOK, StoreInv
  <2> QED BY <2>1, <2>2
<1> QED BY <1>1, <1>3, <1>4, <1>5

LEMMA BeginFetchWindow == ASSUME WindowInv, BeginFetch PROVE WindowInv'
<1> USE WindowAssumption DEF WindowInv, BeginFetch, WindowStart
<1>1. TypeOK'
  BY DEF TypeOK
<1>2. NothingMissed' /\ StoreInv' /\ CursorInv'
  BY DEF NothingMissed, StoreInv, CursorInv
<1>3. FetchInv'
  BY DEF FetchInv, TypeOK
<1> QED BY <1>1, <1>2, <1>3

LEMMA AnswerWindow == ASSUME WindowInv, Answer PROVE WindowInv'
<1> USE WindowAssumption DEF WindowInv, Answer
<1>1. TypeOK'
  BY DEF TypeOK
<1>2. NothingMissed' /\ FetchInv' /\ CursorInv'
  BY DEF NothingMissed, FetchInv, CursorInv
<1>3. StoreInv'
  <2> SUFFICES ASSUME NEW x \in posted \ settled'
               PROVE  date[x] < from \/ date[x] >= to - Lag
    BY DEF StoreInv
  <2>1. date[x] \in Int /\ ~(from <= date[x] /\ date[x] <= to)
    BY DEF TypeOK
  <2> QED BY <2>1 DEF TypeOK
<1> QED BY <1>1, <1>2, <1>3

\* The heart of the argument: what the sync leaves out is older than its
\* window, or so recent that the next window reaches back to it.
LEMMA CompleteWindow ==
  ASSUME Overlap >= Lag + MaxDuration, WindowInv, Complete
  PROVE  WindowInv'
<1> USE WindowAssumption DEF WindowInv, Complete
<1>1. TypeOK'
  BY DEF TypeOK
<1>2. NothingMissed'
  <2> SUFFICES ASSUME NEW x \in posted, x \notin stored, x \notin settled
               PROVE  date[x] < horizon' \/ date[x] >= clock - Overlap
    BY DEF NothingMissed
  <2>0. date[x] \in Int
    BY DEF TypeOK
  <2>1. CASE date[x] >= to - Lag
    <3>1. clock <= to + MaxDuration
      BY DEF FetchInv
    <3> QED BY <2>0, <2>1, <3>1 DEF TypeOK
  <2>2. CASE date[x] < from /\ cursor = None
    BY <2>2
  <2>3. CASE date[x] < from /\ cursor # None
    <3>1. date[x] < cursor - Overlap
      BY <2>3 DEF FetchInv
    <3>2. date[x] < horizon
      BY <2>0, <2>3, <3>1 DEF NothingMissed, TypeOK
    <3> QED BY <2>3, <3>2
  <2> QED BY <2>1, <2>2, <2>3 DEF StoreInv
<1>3. FetchInv' /\ StoreInv' /\ CursorInv'
  BY DEF FetchInv, StoreInv, CursorInv, TypeOK
<1> QED BY <1>1, <1>2, <1>3

LEMMA AbandonWindow == ASSUME WindowInv, Abandon PROVE WindowInv'
<1> USE WindowAssumption DEF WindowInv, Abandon
<1>1. TypeOK'
  BY DEF TypeOK
<1>2. NothingMissed' /\ FetchInv' /\ StoreInv' /\ CursorInv'
  BY DEF NothingMissed, FetchInv, StoreInv, CursorInv
<1> QED BY <1>1, <1>2

LEMMA TickWindow == ASSUME WindowInv, Tick PROVE WindowInv'
<1> USE WindowAssumption DEF WindowInv, Tick
<1>1. TypeOK'
  BY DEF TypeOK
<1>2. NothingMissed' /\ StoreInv'
  BY DEF NothingMissed, StoreInv
<1>3. FetchInv' /\ CursorInv'
  BY DEF FetchInv, CursorInv, TypeOK
<1> QED BY <1>1, <1>2, <1>3

\* With an overlap of at least the bank's posting lag plus the duration of a
\* sync, the sync under way always began where the last one left a gap to cover,
\* and what it is not sent is older than its window or younger than the lag.
THEOREM WindowCorrect ==
  ASSUME Overlap >= Lag + MaxDuration
  PROVE  Spec => []WindowInv
<1>1. WindowInv /\ [Next]_vars => WindowInv'
  <2>1. WindowInv /\ UNCHANGED vars => WindowInv'
    BY DEF vars, WindowInv, TypeOK, NothingMissed, FetchInv, StoreInv, CursorInv
  <2> QED
    BY <2>1, PostWindow, BeginFetchWindow, AnswerWindow, CompleteWindow,
       AbandonWindow, TickWindow DEF Next
<1> QED BY InitWindow, <1>1, PTL DEF Spec

\* Then no transaction is ever out of reach of the next window, although the
\* cursor is set to the end of a sync and failed syncs store parts of a batch.
THEOREM NoGap ==
  ASSUME Overlap >= Lag + MaxDuration
  PROVE  Spec => []NothingMissed
<1>1. WindowInv => NothingMissed
  BY DEF WindowInv
<1> QED BY <1>1, WindowCorrect, PTL
=============================================================================
