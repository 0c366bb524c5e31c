---------------------------- MODULE RetryProofs ----------------------------
(***************************************************************************)
(* The requests of an account keep to the schedule, for every schedule of  *)
(* waits and number of requests; a token lives as long as the headroom     *)
(* guarantees, and outlives the requests that fit into it.                 *)
(*                                                                         *)
(* The properties follow from where the request at hand is in its          *)
(* schedule (OnTime), how late it was sent for the first time (Begun), how *)
(* much of that the failures account for (Charged), and what is known of   *)
(* the token when its first request is sent (Covered).                     *)
(***************************************************************************)
EXTENDS Retry, TLAPS

\* The attempt, or the wait after it, is as late as the schedule allows.
OnTime ==
  /\ begun <= stamp /\ stamp <= now
  /\ phase = "request" =>
       /\ stamp - begun <= Due[attempt] + attempt * MaxCall
       /\ now - stamp <= MaxCall
  /\ phase = "wait" =>
       /\ attempt < Retries
       /\ stamp - begun <= Due[attempt] + (attempt + 1) * MaxCall
       /\ now - stamp <= Delay(attempt)

\* Every request before the one at hand took CallMax at most.
Begun == stage > 0 => /\ start <= begun
                      /\ begun - start <= (stage - 1) * CallMax

\* The time since the first request with the token is that of the requests answered,
\* of an attempt and a wait for each failure, and of the attempt at hand.
Charged == stage > 0 =>
  /\ phase = "request" => stamp - start <= (stage - 1) * MaxCall + lost
  /\ phase = "wait" => stamp - start + Delay(attempt) <= (stage - 1) * MaxCall + lost

\* The token in hand lives as long as the headroom guarantees.
Covered == stage > 0 => death >= start + Guaranteed

\* What the bank knows of the stored token and what the code believes.
Stamps == death >= expiresAt + Headroom - MaxCall

IInv ==
  /\ TypeOK
  /\ Stamps
  /\ phase \in {"request", "wait"} => OnTime /\ Begun /\ Charged /\ Covered
  /\ phase \in Outcomes /\ stage > 0 => now - start <= Requests * CallMax
  /\ RefusedOnlyIfLate

LEMMA CallMaxType == CallMax \in Nat /\ Requests * CallMax \in Nat
<1>1. (Retries + 1) * MaxCall \in Nat
  BY RetryAssumption, SMT
<1>2. Due[Retries] \in Nat
  BY RetryAssumption
<1>3. CallMax \in Nat
  BY <1>1, <1>2, SMT DEF CallMax
<1> QED
  BY <1>3, RetryAssumption, SMT

\* Multiplication by a natural number keeps the order.
LEMMA TimesMonotone ==
  ASSUME NEW i \in Nat, NEW j \in Nat, NEW m \in Nat, i <= j
  PROVE  i * m \in Nat /\ j * m \in Nat /\ i * m <= j * m
<1> DEFINE d == j - i
<1>1. d \in Nat /\ j = i + d
  BY SMT
<1> HIDE DEF d
<1>2. j * m = i * m + d * m
  BY <1>1, SMT
<1>3. d * m \in Nat /\ i * m \in Nat
  BY <1>1, SMT
<1> QED
  BY <1>2, <1>3, SMT

\* An attempt that is on time ends within CallMax of the first one.
LEMMA AttemptsFit ==
  ASSUME NEW k \in 0..Retries
  PROVE  Due[k] + (k + 1) * MaxCall <= CallMax
<1>1. k + 1 \in Nat /\ Retries + 1 \in Nat /\ k + 1 <= Retries + 1 /\ MaxCall \in Nat
  BY RetryAssumption, SMT
<1>2. /\ (k + 1) * MaxCall \in Nat /\ (Retries + 1) * MaxCall \in Nat
      /\ (k + 1) * MaxCall <= (Retries + 1) * MaxCall
  BY <1>1, TimesMonotone
<1>3. Due[k] <= Due[Retries] /\ Due[k] \in Nat /\ Due[Retries] \in Nat
  BY RetryAssumption, SMT
<1> QED
  BY <1>2, <1>3, SMT DEF CallMax

\* The requests up to request i fit into i times CallMax.
LEMMA RequestsFit ==
  ASSUME NEW i \in 1..Requests
  PROVE  /\ (i - 1) * CallMax \in Nat
         /\ (i - 1) * CallMax + CallMax = i * CallMax
         /\ i * CallMax <= Requests * CallMax
<1> DEFINE C == CallMax
<1>1. C \in Nat
  BY CallMaxType
<1> HIDE DEF C
<1>2. i \in Nat /\ i - 1 \in Nat /\ Requests \in Nat /\ i <= Requests
  BY RetryAssumption, SMT
<1>3. i * C <= Requests * C
  BY <1>1, <1>2, TimesMonotone
<1>4. (i - 1) * C \in Nat /\ (i - 1) * C + C = i * C
  BY <1>1, <1>2, SMT
<1> QED
  BY <1>3, <1>4 DEF C

\* What the schedule says of the request at hand.
LEMMA WithinCall ==
  ASSUME TypeOK, OnTime, phase \in {"request", "wait"}
  PROVE  now - begun <= CallMax
<1> DEFINE m == attempt * MaxCall
<1>1. /\ now \in Nat /\ stamp \in Nat /\ begun \in Nat
      /\ attempt \in 0..Retries /\ attempt \in Nat
      /\ MaxCall \in Nat /\ Retries \in Nat
  BY RetryAssumption, SMT DEF TypeOK
<1>2. m \in Nat /\ (attempt + 1) * MaxCall = m + MaxCall
  BY <1>1, SMT
<1>3. Due[attempt] \in Nat /\ CallMax \in Nat
  BY <1>1, RetryAssumption, CallMaxType
<1>4. CASE phase = "request"
  <2>1. stamp - begun <= Due[attempt] + m /\ now - stamp <= MaxCall
    BY <1>4 DEF OnTime
  <2>2. Due[attempt] + (m + MaxCall) <= CallMax
    BY <1>1, <1>2, AttemptsFit
  <2> HIDE DEF m
  <2> QED
    BY <1>1, <1>2, <1>3, <2>1, <2>2, SMT
<1>5. CASE phase = "wait"
  <2>1. /\ attempt < Retries
        /\ stamp - begun <= Due[attempt] + (m + MaxCall)
        /\ now - stamp <= Due[attempt + 1] - Due[attempt]
    BY <1>2, <1>5 DEF OnTime, Delay
  <2>2. attempt + 1 \in 0..Retries
    BY <1>1, <2>1, SMT
  <2>3. Due[attempt + 1] \in Nat
    BY <2>2, RetryAssumption
  <2>4. ((attempt + 1) + 1) * MaxCall = m + MaxCall + MaxCall
    BY <1>1, SMT
  <2>5. Due[attempt + 1] + (m + MaxCall + MaxCall) <= CallMax
    BY <2>2, <2>4, AttemptsFit
  <2> HIDE DEF m
  <2> QED
    BY <1>1, <1>2, <1>3, <2>1, <2>3, <2>5, SMT
<1> QED
  BY <1>4, <1>5

\* And of all the requests made with the token so far.
LEMMA WithinAll ==
  ASSUME TypeOK, OnTime, Begun, phase \in {"request", "wait"}, stage > 0
  PROVE  now - start <= stage * CallMax /\ now - start <= Requests * CallMax
<1> DEFINE C == CallMax
           p == (stage - 1) * C
           q == stage * C
           all == Requests * C
<1>1. now \in Nat /\ begun \in Nat /\ start \in Nat
  BY DEF TypeOK
<1>2. stage \in 1..Requests
  BY RetryAssumption, SMT DEF TypeOK
<1>3. C \in Nat /\ all \in Nat
  BY CallMaxType
<1>4. p \in Nat /\ p + C = q /\ q <= all
  BY <1>2, RequestsFit
<1>5. now - begun <= C
  BY WithinCall
<1>6. begun - start <= p
  BY DEF Begun
<1>7. q \in Nat
  <2> HIDE DEF p, C, q
  <2> QED BY <1>3, <1>4, SMT
<1> HIDE DEF C, p, q, all
<1>8. now - start <= q /\ now - start <= all
  BY <1>1, <1>3, <1>4, <1>5, <1>6, <1>7, SMT
<1> QED
  BY <1>8 DEF q, all, C

-----------------------------------------------------------------------------
(***************************************************************************)
(* The steps.                                                              *)
(***************************************************************************)

LEMMA Numbers ==
  ASSUME TypeOK
  PROVE  /\ now \in Nat /\ death \in Int /\ stamp \in Nat /\ begun \in Nat
         /\ start \in Nat /\ expiresAt \in Int /\ lost \in Nat
         /\ stage \in Nat /\ stage <= Requests /\ Requests \in Nat /\ Requests > 0
         /\ attempt \in Nat /\ attempt <= Retries /\ Retries \in Nat
         /\ MaxCall \in Nat /\ Headroom \in Nat /\ Lifetime \in Nat
         /\ Due[0] = 0 /\ Guaranteed \in Int
         /\ Guaranteed <= Headroom - MaxCall /\ Guaranteed <= Lifetime - MaxCall
BY RetryAssumption, SMT DEF TypeOK, Guaranteed

\* A request just sent for the first time is on time.
LEMMA SentOnTime ==
  ASSUME TypeOK, NEW i \in 0..Requests, Send(i)
  PROVE  (now' = now => OnTime') /\ stage' = i /\ attempt' \in 0..Retries
         /\ stamp' \in Nat /\ begun' = now /\ phase' = "request"
<1>1. /\ phase' = "request" /\ stage' = i /\ attempt' = 0
      /\ stamp' = now /\ begun' = now
  BY DEF Send
<1>2. now \in Nat /\ MaxCall \in Nat /\ Retries \in Nat /\ Due[0] = 0
  BY Numbers
<1>3. 0 * MaxCall = 0
  BY <1>2, SMT
<1>4. ASSUME now' = now PROVE OnTime'
  BY <1>1, <1>2, <1>3, <1>4, SMT DEF OnTime
<1>5. 0 \in 0..Retries
  BY <1>2, SMT
<1> QED
  BY <1>1, <1>2, <1>4, <1>5

\* Before the second request nothing is charged but what failed.
LEMMA FirstCharged ==
  ASSUME stage' = 1, phase' = "request", stamp' = start', start' \in Nat, lost' = 0
  PROVE  Charged'
<1>1. (1 - 1) * MaxCall = 0
  BY RetryAssumption, SMT
<1> QED
  BY <1>1, SMT DEF Charged

\* What is charged for covers the time that has passed.
LEMMA WithinCharged ==
  ASSUME TypeOK, OnTime, Charged, phase = "request", stage > 0
  PROVE  /\ stage * MaxCall \in Nat /\ now - start <= stage * MaxCall + lost
         /\ (stage - 1) * MaxCall \in Nat
         /\ (stage - 1) * MaxCall + MaxCall = stage * MaxCall
<1> DEFINE p == (stage - 1) * MaxCall
           q == stage * MaxCall
<1>1. stage \in Nat /\ stage - 1 \in Nat /\ MaxCall \in Nat
  BY Numbers, SMT
<1>2. p \in Nat /\ q \in Nat /\ p + MaxCall = q
  BY <1>1, SMT
<1>3. stamp - start <= p + lost /\ now - stamp <= MaxCall
  BY DEF Charged, OnTime
<1> HIDE DEF p, q
<1>4. now - start <= q + lost
  BY <1>2, <1>3, Numbers, SMT
<1> QED
  BY <1>2, <1>4 DEF p, q

LEMMA InitIInv == Init => IInv
<1> SUFFICES ASSUME Init PROVE IInv
  OBVIOUS
<1>1. TypeOK
  BY RetryAssumption, SMT DEF Init, TypeOK, Outcomes
<1>2. Stamps
  BY RetryAssumption, SMT DEF Init, Stamps
<1> QED
  BY <1>1, <1>2 DEF Init, IInv, RefusedOnlyIfLate, Outcomes

LEMMA TokenFreshStep == IInv /\ TokenFresh => IInv'
<1> SUFFICES ASSUME IInv, TokenFresh PROVE IInv'
  OBVIOUS
<1> USE DEF IInv
<1>1. 1 \in 0..Requests
  BY Numbers, SMT
<1>2. /\ OnTime' /\ stage' = 1 /\ attempt' \in 0..Retries /\ stamp' \in Nat
      /\ begun' = now /\ phase' = "request" /\ start' = now /\ stamp' = now /\ lost' = 0
      /\ now' = now /\ expiresAt' = expiresAt /\ consent' = consent /\ death' = death
  BY <1>1, SentOnTime DEF TokenFresh, Send
<1>3. TypeOK'
  BY <1>1, <1>2, SMT DEF TypeOK
<1>4. Begun'
  <2>1. (1 - 1) * CallMax = 0
    BY CallMaxType, SMT
  <2> QED
    BY <1>2, <2>1, Numbers, SMT DEF Begun
<1>5. Covered'
  <2>1. death >= expiresAt + Headroom - MaxCall /\ expiresAt > now
    BY DEF Stamps, TokenFresh
  <2>2. death >= now + Guaranteed
    BY <2>1, Numbers, SMT
  <2> QED
    BY <1>2, <2>2 DEF Covered
<1>6. Charged'
  BY <1>2, FirstCharged, Numbers
<1> QED
  BY <1>2, <1>3, <1>4, <1>5, <1>6 DEF Stamps, RefusedOnlyIfLate, Outcomes

LEMMA TokenLapsedStep == IInv /\ TokenLapsed => IInv'
<1> SUFFICES ASSUME IInv, TokenLapsed PROVE IInv'
  OBVIOUS
<1> USE DEF IInv
<1>1. 0 \in 0..Requests
  BY Numbers, SMT
<1>2. /\ OnTime' /\ stage' = 0 /\ attempt' \in 0..Retries /\ stamp' \in Nat
      /\ begun' = now /\ phase' = "request"
      /\ UNCHANGED <<now, expiresAt, consent, death, start, lost>>
  BY <1>1, SentOnTime DEF TokenLapsed
<1>3. TypeOK'
  BY <1>1, <1>2, SMT DEF TypeOK
<1>4. Begun' /\ Charged' /\ Covered'
  BY <1>2, SMT DEF Begun, Charged, Covered
<1> QED
  BY <1>2, <1>3, <1>4 DEF Stamps, RefusedOnlyIfLate, Outcomes

LEMMA RefreshAnsweredStep == IInv /\ RefreshAnswered => IInv'
<1> SUFFICES ASSUME IInv, RefreshAnswered PROVE IInv'
  OBVIOUS
<1> USE DEF IInv
<1>1. 1 \in 0..Requests
  BY Numbers, SMT
<1>2. /\ OnTime' /\ stage' = 1 /\ attempt' \in 0..Retries /\ stamp' \in Nat
      /\ begun' = now /\ phase' = "request" /\ start' = now /\ stamp' = now /\ lost' = 0
      /\ now' = now /\ consent' = consent
  BY <1>1, SentOnTime DEF RefreshAnswered, Send
<1>3. PICK issued \in stamp..now : death' = issued + Lifetime
  BY DEF RefreshAnswered
<1>4. expiresAt' = now + Lifetime - Headroom
  BY DEF RefreshAnswered, Stamped
<1>5. now - stamp <= MaxCall
  BY DEF RefreshAnswered, OnTime
<1>6. issued \in Nat /\ issued >= now - MaxCall
  BY <1>3, <1>5, Numbers, SMT
<1>7. TypeOK'
  <2>1. death' \in Int /\ expiresAt' \in Int
    BY <1>3, <1>4, <1>6, Numbers, SMT
  <2> QED
    BY <1>1, <1>2, <2>1, SMT DEF TypeOK
<1>8. Stamps'
  BY <1>3, <1>4, <1>6, Numbers, SMT DEF Stamps
<1>9. Begun'
  <2>1. (1 - 1) * CallMax = 0
    BY CallMaxType, SMT
  <2> QED
    BY <1>2, <2>1, Numbers, SMT DEF Begun
<1>10. Covered'
  <2>1. death' >= now + Guaranteed
    BY <1>3, <1>6, Numbers, SMT
  <2> QED
    BY <1>2, <2>1 DEF Covered
<1>11. Charged'
  BY <1>2, FirstCharged, Numbers
<1> QED
  BY <1>2, <1>7, <1>8, <1>9, <1>10, <1>11 DEF RefusedOnlyIfLate, Outcomes

LEMMA RequestAnsweredStep == IInv /\ RequestAnswered => IInv'
<1> SUFFICES ASSUME IInv, RequestAnswered PROVE IInv'
  OBVIOUS
<1> USE DEF IInv
<1>1. /\ phase = "request" /\ stage > 0
      /\ UNCHANGED <<now, expiresAt, consent, death, start, lost>>
  BY DEF RequestAnswered
<1>2. now - start <= stage * CallMax /\ now - start <= Requests * CallMax
  BY <1>1, WithinAll
<1>3. CASE stage < Requests
  <2>1. stage + 1 \in 0..Requests
    BY <1>3, Numbers, SMT
  <2>2. /\ OnTime' /\ stage' = stage + 1 /\ attempt' \in 0..Retries
        /\ stamp' \in Nat /\ begun' = now /\ phase' = "request"
    BY <1>1, <1>3, <2>1, SentOnTime DEF RequestAnswered
  <2>3. TypeOK'
    BY <1>1, <2>1, <2>2, SMT DEF TypeOK
  <2>4. Begun'
    <3>1. stage' - 1 = stage
      BY <2>2, Numbers, SMT
    <3>2. start <= now
      BY <1>1, Numbers, SMT DEF OnTime, Begun
    <3> QED
      BY <1>1, <1>2, <2>2, <3>1, <3>2 DEF Begun
  <2>5. Covered'
    BY <1>1, Numbers DEF Covered
  <2>6. Charged'
    <3>1. now - start <= stage * MaxCall + lost /\ stage' - 1 = stage
      BY <1>1, <2>2, WithinCharged, Numbers, SMT
    <3>2. stamp' = now
      BY <1>3 DEF RequestAnswered, Send
    <3> QED
      BY <1>1, <2>2, <3>1, <3>2 DEF Charged
  <2> QED
    BY <1>1, <2>2, <2>3, <2>4, <2>5, <2>6 DEF Stamps, RefusedOnlyIfLate, Outcomes
<1>4. CASE ~(stage < Requests)
  <2>1. phase' = "done" /\ UNCHANGED <<stage, attempt, stamp, begun>>
    BY <1>4 DEF RequestAnswered
  <2>2. TypeOK'
    BY <1>1, <2>1 DEF TypeOK, Outcomes
  <2> QED
    BY <1>1, <1>2, <2>1, <2>2 DEF Stamps, RefusedOnlyIfLate, Outcomes
<1> QED
  BY <1>3, <1>4

LEMMA EndStep ==
  ASSUME IInv, RefreshRejected \/ RequestRefused \/ FinalFailure
  PROVE  IInv'
<1> USE DEF IInv
<1>1. UNCHANGED <<now, expiresAt, consent, death, stage, attempt, stamp, begun, start, lost>>
  BY DEF RefreshRejected, RequestRefused, FinalFailure
<1>2. phase = "request" /\ phase' \in {"failed", "reauth"} /\ TypeOK'
  BY <1>1 DEF RefreshRejected, RequestRefused, FinalFailure, TypeOK, Outcomes
<1>3. stage > 0 => now - start <= Requests * CallMax
  BY <1>2, WithinAll
<1>4. RefusedOnlyIfLate'
  <2>1. CASE RefreshRejected
    BY <1>1, <2>1, Numbers, SMT DEF RefreshRejected, RefusedOnlyIfLate
  <2>2. CASE RequestRefused
    <3>1. stage > 0 /\ (~consent \/ now > death)
      BY <2>2 DEF RequestRefused
    <3>2. death >= start + Guaranteed
      BY <1>2, <3>1 DEF Covered
    <3>3. consent => now - start > Guaranteed
      BY <3>1, <3>2, Numbers, SMT
    <3>4. now - start <= stage * MaxCall + lost /\ stage * MaxCall \in Nat
      BY <1>2, <3>1, WithinCharged
    <3>5. consent => ~Fits
      BY <3>3, <3>4, Numbers, SMT DEF Fits
    <3> QED
      BY <1>1, <3>3, <3>5 DEF RefusedOnlyIfLate, Fits
  <2>3. CASE FinalFailure
    BY <2>3 DEF FinalFailure, RefusedOnlyIfLate
  <2> QED
    BY <2>1, <2>2, <2>3
<1> QED
  BY <1>1, <1>2, <1>3, <1>4 DEF Stamps

LEMMA TransientFailureStep == IInv /\ TransientFailure => IInv'
<1> SUFFICES ASSUME IInv, TransientFailure PROVE IInv'
  OBVIOUS
<1> USE DEF IInv
<1>1. /\ phase = "request" /\ attempt < Retries /\ phase' = "wait" /\ stamp' = now
      /\ lost' = IF stage > 0 THEN lost + MaxCall + Delay(attempt) ELSE lost
      /\ UNCHANGED <<now, expiresAt, consent, death, stage, attempt, begun, start>>
  BY DEF TransientFailure
<1>2. Delay(attempt) \in Nat
  <2>1. attempt \in 0..Retries /\ attempt + 1 \in 0..Retries /\ attempt <= attempt + 1
    BY <1>1, Numbers, SMT
  <2>2. /\ Due[attempt] \in Nat /\ Due[attempt + 1] \in Nat
        /\ Due[attempt] <= Due[attempt + 1]
    BY <2>1, RetryAssumption
  <2> QED
    BY <2>2, SMT DEF Delay
<1>3. TypeOK'
  BY <1>1, <1>2, Numbers, SMT DEF TypeOK
<1>4. Charged'
  <2> SUFFICES ASSUME stage > 0
               PROVE  now - start + Delay(attempt) <= (stage - 1) * MaxCall + lost'
    BY <1>1 DEF Charged, Delay
  <2> DEFINE p == (stage - 1) * MaxCall
             q == stage * MaxCall
  <2>1. now - start <= q + lost /\ p \in Nat /\ p + MaxCall = q
    BY <1>1, WithinCharged
  <2>2. lost' = lost + MaxCall + Delay(attempt)
    BY <1>1
  <2> HIDE DEF p, q
  <2>3. now - start + Delay(attempt) <= p + lost'
    BY <1>2, <2>1, <2>2, Numbers, SMT
  <2> QED
    BY <2>3 DEF p
<1>5. OnTime'
  <2> DEFINE m == attempt * MaxCall
  <2>1. m \in Nat /\ (attempt + 1) * MaxCall = m + MaxCall
    BY Numbers, SMT
  <2>2. /\ begun <= stamp /\ stamp <= now
        /\ stamp - begun <= Due[attempt] + m /\ now - stamp <= MaxCall
    BY <1>1 DEF OnTime
  <2>3. /\ Due[attempt] \in Nat /\ Due[attempt + 1] \in Nat
        /\ Due[attempt] <= Due[attempt + 1]
    <3>1. attempt \in 0..Retries /\ attempt + 1 \in 0..Retries /\ attempt <= attempt + 1
      BY <1>1, Numbers, SMT
    <3> QED
      BY <3>1, RetryAssumption
  <2> HIDE DEF m
  <2>4. now - begun <= Due[attempt] + (m + MaxCall) /\ begun <= now
    BY <2>1, <2>2, <2>3, Numbers, SMT
  <2>5. now - now <= Delay(attempt)
    BY <2>3, Numbers, SMT DEF Delay
  <2>6. now <= now
    BY Numbers, SMT
  <2> QED
    BY <1>1, <2>1, <2>4, <2>5, <2>6 DEF OnTime, Delay
<1> QED
  BY <1>1, <1>3, <1>4, <1>5 DEF Begun, Covered, Stamps, RefusedOnlyIfLate, Outcomes

LEMMA RetryStep == IInv /\ Retry => IInv'
<1> SUFFICES ASSUME IInv, Retry PROVE IInv'
  OBVIOUS
<1> USE DEF IInv
<1>1. /\ phase = "wait" /\ phase' = "request" /\ attempt' = attempt + 1
      /\ stamp' = now
      /\ UNCHANGED <<now, expiresAt, consent, death, stage, begun, start, lost>>
  BY DEF Retry
<1>2. /\ begun <= stamp /\ stamp <= now /\ attempt < Retries
      /\ stamp - begun <= Due[attempt] + (attempt + 1) * MaxCall
      /\ now - stamp <= Due[attempt + 1] - Due[attempt]
  BY <1>1 DEF OnTime, Delay
<1>3. attempt \in 0..Retries /\ attempt + 1 \in 0..Retries
  BY <1>2, Numbers, SMT
<1>4. TypeOK'
  BY <1>1, <1>3 DEF TypeOK
<1>5. OnTime'
  <2> DEFINE m == (attempt + 1) * MaxCall
  <2>1. m \in Nat
    BY Numbers, SMT
  <2>2. Due[attempt] \in Nat /\ Due[attempt + 1] \in Nat
    BY <1>3, RetryAssumption
  <2>3. stamp - begun <= Due[attempt] + m
    BY <1>2
  <2> HIDE DEF m
  <2>4. now - begun <= Due[attempt + 1] + m /\ begun <= now
    BY <1>2, <2>1, <2>2, <2>3, Numbers, SMT
  <2>5. now - now <= MaxCall /\ now <= now
    BY Numbers, SMT
  <2> QED
    BY <1>1, <2>4, <2>5 DEF OnTime, m
<1>6. Charged'
  <2> SUFFICES ASSUME stage > 0
               PROVE  now - start <= (stage - 1) * MaxCall + lost
    BY <1>1 DEF Charged
  <2> DEFINE p == (stage - 1) * MaxCall
  <2>1. stamp - start + Delay(attempt) <= p + lost
    BY <1>1 DEF Charged
  <2>2. now - stamp <= Delay(attempt) /\ Delay(attempt) \in Int
    BY <1>2, <1>3, RetryAssumption, SMT DEF Delay
  <2>3. p \in Int
    BY Numbers, SMT
  <2> HIDE DEF p
  <2>4. now - start <= p + lost
    BY <2>1, <2>2, <2>3, Numbers, SMT
  <2> QED
    BY <2>4 DEF p
<1> QED
  BY <1>1, <1>4, <1>5, <1>6 DEF Begun, Covered, Stamps, RefusedOnlyIfLate, Outcomes

LEMMA TickStep == IInv /\ Tick => IInv'
<1> SUFFICES ASSUME IInv, Tick PROVE IInv'
  OBVIOUS
<1> USE DEF IInv
<1>1. /\ phase \in {"check", "request", "wait"} /\ now' = now + 1
      /\ phase = "request" => now - stamp < MaxCall
      /\ phase = "wait" => now - stamp < Delay(attempt)
      /\ UNCHANGED <<expiresAt, consent, death, phase, stage, attempt, stamp, begun, start, lost>>
  BY DEF Tick
<1>2. TypeOK'
  BY <1>1, Numbers, SMT DEF TypeOK
<1>3. phase \in {"request", "wait"} => OnTime'
  <2> SUFFICES ASSUME phase \in {"request", "wait"} PROVE OnTime'
    OBVIOUS
  <2>1. stamp <= now' /\ (phase = "request" => now' - stamp <= MaxCall)
    BY <1>1, Numbers, SMT DEF OnTime
  <2>2. phase = "wait" => now' - stamp <= Delay(attempt)
    <3> SUFFICES ASSUME phase = "wait" PROVE now' - stamp <= Delay(attempt)
      OBVIOUS
    <3>1. attempt \in 0..Retries /\ attempt + 1 \in 0..Retries
      BY Numbers, SMT DEF OnTime
    <3>2. Delay(attempt) \in Int
      BY <3>1, RetryAssumption, SMT DEF Delay
    <3> QED
      BY <1>1, <3>2, Numbers, SMT
  <2> QED
    BY <1>1, <2>1, <2>2 DEF OnTime, Delay
<1> QED
  BY <1>1, <1>2, <1>3
     DEF Begun, Charged, Covered, Stamps, Delay, RefusedOnlyIfLate, Outcomes

LEMMA NextAccountStep == IInv /\ NextAccount => IInv'
<1> SUFFICES ASSUME IInv, NextAccount PROVE IInv'
  OBVIOUS
<1> USE DEF IInv
<1>1. /\ phase' = "check" /\ stage' = 0 /\ attempt' = 0
      /\ stamp' = now /\ begun' = now /\ start' = now /\ lost' = 0
      /\ UNCHANGED <<now, expiresAt, consent, death>>
  BY DEF NextAccount
<1>2. TypeOK'
  BY <1>1, RetryAssumption, SMT DEF TypeOK
<1> QED
  BY <1>1, <1>2 DEF Stamps, RefusedOnlyIfLate, Outcomes

LEMMA RevokeStep == IInv /\ Revoke => IInv'
<1> SUFFICES ASSUME IInv, Revoke PROVE IInv'
  OBVIOUS
<1> USE DEF IInv
<1>1. consent' = FALSE
  BY DEF Revoke
<1>2. UNCHANGED <<now, expiresAt, death, phase, stage, attempt, stamp, begun, start, lost>>
  BY DEF Revoke
<1> QED
  BY <1>1, <1>2 DEF TypeOK, OnTime, Begun, Charged, Covered, Stamps, Delay,
                       RefusedOnlyIfLate

LEMMA StutterStep == IInv /\ UNCHANGED vars => IInv'
BY DEF IInv, vars, TypeOK, OnTime, Begun, Charged, Covered, Stamps, Delay,
       RefusedOnlyIfLate, Fits

THEOREM Inductive == Spec => []IInv
<1>1. Init => IInv
  BY InitIInv
<1>2. IInv /\ [Next]_vars => IInv'
  BY TokenFreshStep, TokenLapsedStep, RefreshAnsweredStep, RequestAnsweredStep,
     EndStep, TransientFailureStep, RetryStep, TickStep, NextAccountStep,
     RevokeStep, StutterStep DEF Next
<1> QED
  BY <1>1, <1>2, PTL DEF Spec

\* The clock, the times and the counters keep their ranges.
THEOREM TypeCorrect == Spec => []TypeOK
<1>1. IInv => TypeOK
  BY DEF IInv
<1> QED
  BY <1>1, Inductive, PTL

\* A live consent is refused only after more time than the headroom guarantees, and
\* after failures that, with the requests, may have taken as long.
THEOREM RefusalsAreLate == Spec => []RefusedOnlyIfLate
<1>1. IInv => RefusedOnlyIfLate
  BY DEF IInv
<1> QED
  BY <1>1, Inductive, PTL

\* The requests of an account take Requests * CallMax at most.
THEOREM RequestsAreBounded == Spec => []DurationBounded
<1>1. IInv => DurationBounded
  <2> SUFFICES ASSUME IInv, phase # "check", stage > 0
               PROVE  now - start <= Requests * CallMax
    BY DEF DurationBounded
  <2>1. CASE phase \in {"request", "wait"}
    BY <2>1, WithinAll DEF IInv
  <2>2. CASE phase \in Outcomes
    BY <2>2 DEF IInv
  <2> QED
    BY <2>1, <2>2 DEF IInv, TypeOK
<1> QED
  BY <1>1, Inductive, PTL

\* The token of a request under way has not lapsed as long as the requests and their
\* failures fit into the headroom; and where it covers the requests themselves, only
\* an account that had to retry can be refused with a live consent.
THEOREM HeadroomSuffices == Spec => [](TokenOutlivesRequests /\ OnlyRetriesCostConsent)
<1>1. IInv => TokenOutlivesRequests
  <2> SUFFICES ASSUME IInv, phase = "request", stage > 0, Fits
               PROVE  now <= death
    BY DEF TokenOutlivesRequests
  <2> DEFINE q == stage * MaxCall
  <2>1. now - start <= q + lost /\ q + lost <= Guaranteed /\ q \in Nat
    BY WithinCharged DEF IInv, Fits
  <2>2. death >= start + Guaranteed
    BY DEF IInv, Covered
  <2> HIDE DEF q
  <2> QED
    BY <2>1, <2>2, Numbers, SMT DEF IInv
<1>2. IInv => OnlyRetriesCostConsent
  <2> SUFFICES ASSUME IInv, Requests * MaxCall <= Guaranteed,
                      phase = "reauth", stage > 0, consent
               PROVE  lost > 0
    BY DEF OnlyRetriesCostConsent
  <2> DEFINE q == stage * MaxCall
             all == Requests * MaxCall
  <2>1. ~(q + lost <= Guaranteed)
    BY DEF IInv, RefusedOnlyIfLate, Fits
  <2>2. q \in Nat /\ all \in Nat /\ q <= all
    BY TimesMonotone, Numbers DEF IInv
  <2>3. all <= Guaranteed
    OBVIOUS
  <2> HIDE DEF q, all
  <2> QED
    BY <2>1, <2>2, <2>3, Numbers, SMT DEF IInv
<1> QED
  BY <1>1, <1>2, Inductive, PTL
=============================================================================
