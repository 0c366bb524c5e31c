-------------------------------- MODULE Retry --------------------------------
(***************************************************************************)
(* The requests syncOneAccount makes of the bank, on the clock: the check  *)
(* of the access token, its refresh if it has lapsed, then one request     *)
(* after the other, each repeated by RetryingBankingProvider after waits   *)
(* that grow, all with the one token that was checked at the beginning.    *)
(*                                                                         *)
(* The hazard: the check guarantees a headroom of life to the token, the   *)
(* requests and the waits between their attempts use it up.  A request the *)
(* bank refuses with 401 for a lapsed token is taken for a dead consent,   *)
(* and the connection goes to REAUTH_REQUIRED.  The headroom of 60 seconds *)
(* covers three requests of up to 15 seconds each, and the retry after 5   *)
(* seconds of one of them if they take up to 10; the wait of 30 seconds    *)
(* fits in only if they are quicker, that of 120 never does.               *)
(*                                                                         *)
(* Queries between the requests take no time, and timers fire when they    *)
(* are due.  The code sets no timeout on a request: MaxCall is what the    *)
(* network and the bank are assumed to need at most.                       *)
(***************************************************************************)
EXTENDS Integers

CONSTANTS
  Requests,   \* requests with one token: balance, settled, pending
  Retries,    \* delaysMs.length
  Due,        \* Due[k]: the sum of the first k entries of delaysMs
  MaxCall,    \* environment: how long a request stays unanswered
  Headroom,   \* EXPIRY_HEADROOM_SECONDS
  Lifetime,   \* environment: expires_in
  MaxExpiry,  \* bound: expiresAt of the token stored at the beginning
  MaxClock    \* bound: when the last account is begun

ASSUME RetryAssumption ==
  /\ Requests \in Nat \ {0} /\ Retries \in Nat /\ MaxCall \in Nat
  /\ Headroom \in Nat /\ Lifetime \in Nat
  /\ MaxExpiry \in Nat /\ MaxClock \in Nat
  /\ Due \in [0..Retries -> Nat]
  /\ Due[0] = 0
  /\ \A j, k \in 0..Retries : j <= k => Due[j] <= Due[k]

\* What one request takes at most, with all its attempts.
CallMax == Due[Retries] + (Retries + 1) * MaxCall

\* The life a token has left, at least, when it is used for the first time;
\* the bank has issued it up to MaxCall before it was stamped.
Guaranteed == (IF Headroom <= Lifetime THEN Headroom ELSE Lifetime) - MaxCall

VARIABLES
  now,        \* the clock
  expiresAt,  \* the stored tokens.expiresAt
  consent,    \* bank: the consent is alive
  death,      \* bank: when the access token really lapses
  phase,      \* check, request, wait, or how it ended
  stage,      \* the request at hand, 0 for the refresh
  attempt,    \* attempt
  stamp,      \* when this attempt or this wait began
  begun,      \* history: when the first attempt of this request began
  start,      \* history: when the first request with the token began
  lost        \* history: what failures of requests with the token may have cost

vars ==
  <<now, expiresAt, consent, death, phase, stage, attempt, stamp, begun, start, lost>>

Outcomes == {"done", "failed", "reauth"}

Init ==
  /\ now = 0
  /\ expiresAt \in 0..MaxExpiry
  /\ consent = TRUE
  /\ death \in (expiresAt + Headroom - MaxCall)..(expiresAt + Headroom)
  /\ phase = "check"
  /\ stage = 0 /\ attempt = 0
  /\ stamp = 0 /\ begun = 0 /\ start = 0 /\ lost = 0

\* Send request i for the first time.
Send(i) ==
  /\ phase' = "request"
  /\ stage' = i
  /\ attempt' = 0
  /\ stamp' = now /\ begun' = now

TokenFresh ==
  /\ phase = "check"
  /\ now <= MaxClock
  /\ expiresAt > now
  /\ Send(1)
  /\ start' = now /\ lost' = 0
  /\ UNCHANGED <<now, expiresAt, consent, death>>

TokenLapsed ==
  /\ phase = "check"
  /\ now <= MaxClock
  /\ expiresAt <= now
  /\ Send(0)
  /\ UNCHANGED <<now, expiresAt, consent, death, start, lost>>

\* Mutant: the headroom is not subtracted.
Stamped_NoHeadroom(t) == t + Lifetime

Stamped(t) == t + Lifetime - Headroom

\* The bank has issued the token some time before its answer is here.
RefreshAnswered ==
  /\ phase = "request"
  /\ stage = 0
  /\ consent
  /\ \E issued \in stamp..now : death' = issued + Lifetime
  /\ expiresAt' = Stamped(now)
  /\ Send(1)
  /\ start' = now /\ lost' = 0
  /\ UNCHANGED <<now, consent>>

\* The bank refuses the refresh: every 4xx counts, 429 included.
RefreshRejected ==
  /\ phase = "request"
  /\ stage = 0
  /\ phase' = "reauth"
  /\ UNCHANGED <<now, expiresAt, consent, death, stage, attempt, stamp, begun, start,
                 lost>>

\* Mutant: one request more than there are.
RequestAnswered_OneMore ==
  /\ phase = "request"
  /\ stage > 0
  /\ consent
  /\ IF stage <= Requests
     THEN Send(stage + 1)
     ELSE phase' = "done" /\ UNCHANGED <<stage, attempt, stamp, begun>>
  /\ UNCHANGED <<now, expiresAt, consent, death, start, lost>>

\* balance, settled and pending transactions; then the account is done.
RequestAnswered ==
  /\ phase = "request"
  /\ stage > 0
  /\ consent
  /\ IF stage < Requests
     THEN Send(stage + 1)
     ELSE phase' = "done" /\ UNCHANGED <<stage, attempt, stamp, begun>>
  /\ UNCHANGED <<now, expiresAt, consent, death, start, lost>>

\* 401 or 403: the consent is gone, or the token has lapsed.
RequestRefused ==
  /\ phase = "request"
  /\ stage > 0
  /\ ~consent \/ now > death
  /\ phase' = "reauth"
  /\ UNCHANGED <<now, expiresAt, consent, death, stage, attempt, stamp, begun, start,
                 lost>>

Delay(k) == Due[k + 1] - Due[k]

\* 429, 5xx or a network failure, with an attempt left.
TransientFailure ==
  /\ phase = "request"
  /\ attempt < Retries
  /\ phase' = "wait"
  /\ stamp' = now
  /\ lost' = IF stage > 0 THEN lost + MaxCall + Delay(attempt) ELSE lost
  /\ UNCHANGED <<now, expiresAt, consent, death, stage, attempt, begun, start>>

\* A failure that is not transient, or the last attempt.
FinalFailure ==
  /\ phase = "request"
  /\ phase' = "failed"
  /\ UNCHANGED <<now, expiresAt, consent, death, stage, attempt, stamp, begun, start,
                 lost>>

\* Mutant: the last delay is repeated without end.
Retry_Endless ==
  /\ phase = "wait"
  /\ now - stamp >= Delay(attempt)
  /\ phase' = "request"
  /\ attempt' = IF attempt + 1 < Retries THEN attempt + 1 ELSE attempt
  /\ stamp' = now
  /\ UNCHANGED <<now, expiresAt, consent, death, stage, begun, start, lost>>

\* Mutant: the timer never fires.
Retry_Strict ==
  /\ phase = "wait"
  /\ now - stamp > Delay(attempt)
  /\ phase' = "request"
  /\ attempt' = attempt + 1
  /\ stamp' = now
  /\ UNCHANGED <<now, expiresAt, consent, death, stage, begun, start, lost>>

Retry ==
  /\ phase = "wait"
  /\ now - stamp >= Delay(attempt)
  /\ phase' = "request"
  /\ attempt' = attempt + 1
  /\ stamp' = now
  /\ UNCHANGED <<now, expiresAt, consent, death, stage, begun, start, lost>>

Revoke ==
  /\ consent
  /\ consent' = FALSE
  /\ UNCHANGED <<now, expiresAt, death, phase, stage, attempt, stamp, begun, start, lost>>

\* The next account, of this run or of a later one, with the stored token.
NextAccount ==
  /\ phase \in {"done", "failed"}
  /\ phase' = "check"
  /\ stage' = 0 /\ attempt' = 0
  /\ stamp' = now /\ begun' = now /\ start' = now /\ lost' = 0
  /\ UNCHANGED <<now, expiresAt, consent, death>>

\* Time passes: between two accounts, and while an answer or a timer is
\* awaited.
Tick ==
  /\ \/ phase = "check" /\ now < MaxClock
     \/ phase = "request" /\ now - stamp < MaxCall
     \/ phase = "wait" /\ now - stamp < Delay(attempt)
  /\ now' = now + 1
  /\ UNCHANGED <<expiresAt, consent, death, phase, stage, attempt, stamp, begun, start,
                 lost>>

Next == \/ TokenFresh \/ TokenLapsed
        \/ RefreshAnswered \/ RefreshRejected
        \/ RequestAnswered \/ RequestRefused
        \/ TransientFailure \/ FinalFailure
        \/ Retry \/ NextAccount \/ Revoke \/ Tick

\* Time goes on, requests are answered and timers fire.
Spec == Init /\ [][Next]_vars /\ WF_vars(Next)

-----------------------------------------------------------------------------
(***************************************************************************)
(* What must hold.                                                         *)
(***************************************************************************)

\* The clock, the times and the counters keep their ranges.
TypeOK ==
  /\ now \in Nat /\ consent \in BOOLEAN /\ death \in Int
  /\ stamp \in Nat /\ begun \in Nat /\ start \in Nat /\ lost \in Nat
  /\ expiresAt \in Int
  /\ phase \in {"check", "request", "wait"} \cup Outcomes
  /\ stage \in 0..Requests
  /\ attempt \in 0..Retries

\* The requests made so far with the token, and the failures among them, fit into
\* the life it was sure to have.
Fits == stage * MaxCall + lost <= Guaranteed

\* A live consent is taken for a dead one only when the requests with one token
\* have lasted longer than the life it was sure to have, and the requests sent so
\* far, with an attempt and a wait for each failure, account for as much: a request
\* that fits into the headroom is not refused, whatever came before it.
RefusedOnlyIfLate ==
  phase = "reauth" /\ stage > 0 /\ consent => now - start > Guaranteed /\ ~Fits

\* truelayer-provider.ts:28, "Refresh a minute before actual expiry so
\* in-flight requests never race it": the token checked at the beginning has not
\* lapsed while an attempt made with it is under way, as long as the requests and
\* their failures so far fit into its headroom.
TokenOutlivesRequests ==
  phase = "request" /\ stage > 0 /\ Fits => now <= death

\* banking-provider.ts:60, "Authorization is gone for good": where the headroom
\* covers the requests themselves, as a minute does if they take up to 15 seconds,
\* a live consent is never refused to an account none of whose requests failed.
OnlyRetriesCostConsent ==
  Requests * MaxCall <= Guaranteed =>
    (phase = "reauth" /\ stage > 0 /\ consent => lost > 0)

\* From the first request with a token to the end of the last, an account
\* takes Requests times the schedule of section 28, whatever fails in between;
\* the fetch window relies on a bound (MaxDuration of SyncWindow).
DurationBounded ==
  phase # "check" /\ stage > 0 => now - start <= Requests * CallMax

\* No request is retried for ever or waits for a timer that does not fire.
RequestsEnd == phase \in {"request", "wait"} ~> phase \in Outcomes
=============================================================================
