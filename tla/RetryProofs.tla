----------------------------- MODULE RetryProofs -----------------------------
(***************************************************************************)
(* Proofs about Retry, for every bound on the number of retries.           *)
(***************************************************************************)
EXTENDS Retry, TLAPS

\* One attempt per delay taken, and one more once the next has started; no
\* more delays than retries.
AttemptsFollowDelays ==
  /\ delays <= retries
  /\ attempt = IF pc \in {"attempt", "returned"} /\ ~(result = "Cancelled")
               THEN delays + 1
               ELSE delays

\* A token that fired leaves at most the attempt whose check had passed:
\* before it, no attempt is late, and after it none can start.
OneLateAttempt ==
  /\ ~fired => late = 0
  /\ pc = "call" => late = 0
  /\ late <= 1

\* What a returned retry reports.
ReportsTrue ==
  /\ result = "Cancelled" => fired
  /\ pc # "returned" => result = "none"
  /\ pc = "returned" => result # "none"
  /\ result = "Exhausted" => delays = retries /\ attempts = attempt

\* The inductive invariant.
IInv ==
  /\ TypeOK
  /\ AttemptsFollowDelays
  /\ OneLateAttempt
  /\ ReportsTrue

-----------------------------------------------------------------------------
(* The invariant holds at the start and is kept by every step *)

\* The call begins with nothing tried and nothing cancelled.
LEMMA InitInv == Init => IInv
<1> SUFFICES ASSUME Init PROVE IInv
  OBVIOUS
<1>1. TypeOK
  <2>1. hasToken \in BOOLEAN /\ fired \in BOOLEAN
    BY DEF Init
  <2>2. attempt = 0 /\ delays = 0 /\ attempts = 0 /\ late = 0
    BY DEF Init
  <2>3. /\ attempt \in 0 .. MaxRetries + 1 /\ delays \in 0 .. MaxRetries
        /\ attempts \in 0 .. MaxRetries + 1 /\ late \in Nat
    BY <2>2, RetryAssumption DEF RetryAssumption
  <2> QED BY <2>1, <2>3, Zenon DEF Init, TypeOK
<1>2. AttemptsFollowDelays
  BY RetryAssumption DEF RetryAssumption, Init, AttemptsFollowDelays
<1>3. OneLateAttempt /\ ReportsTrue
  BY DEF Init, OneLateAttempt, ReportsTrue
<1> QED BY <1>1, <1>2, <1>3 DEF IInv

\* Each step of the loop, and the firing of the token, keeps the invariant.
LEMMA StepInv == IInv /\ [Next]_vars => IInv'
<1> SUFFICES ASSUME IInv, [Next]_vars PROVE IInv'
  OBVIOUS
<1> USE RetryAssumption
    DEF RetryAssumption,
        IInv, TypeOK, AttemptsFollowDelays, OneLateAttempt, ReportsTrue
<1>1. CASE CancelToken
  BY <1>1 DEF CancelToken
<1>2. CASE Check
  <2>1. CASE fired
    BY <1>2, <2>1 DEF Check, Return
  <2>2. CASE ~fired
    BY <1>2, <2>2 DEF Check, Return
  <2> QED BY <2>1, <2>2
<1>3. CASE Call
  \* No attempt was late before this one, and delays bounds its number.
  <2>1. attempt' = delays' + 1 /\ attempt' \in 0 .. MaxRetries + 1
    BY <1>3 DEF Call
  <2>2. late' \in {0, 1} /\ (~fired' => late' = 0)
    BY <1>3 DEF Call
  <2> QED BY <1>3, <2>1, <2>2 DEF Call
<1>4. CASE BackoffOver
  BY <1>4 DEF BackoffOver
<1>5. CASE BackoffCancelled
  BY <1>5 DEF BackoffCancelled, Return
<1>6. ASSUME NEW o \in Outcomes, Outcome(o) PROVE IInv'
  <2>1. CASE o \in {"ok", "permanent"}
    BY <1>6, <2>1 DEF Outcome, Return
  <2>2. CASE o = "transient" /\ NextDelay
    BY <1>6, <2>2 DEF Outcome, Return, NextDelay
  <2>3. CASE o = "transient" /\ delays = retries
    BY <1>6, <2>3 DEF Outcome, Return, NextDelay
  <2> QED BY <1>6, <2>1, <2>2, <2>3 DEF Outcome, Outcomes
<1>7. CASE UNCHANGED vars
  BY <1>7 DEF vars
<1> QED BY <1>1, <1>2, <1>3, <1>4, <1>5, <1>6, <1>7 DEF Next

\* What the invariant says of the calls the caller can observe.
LEMMA InvImplies == IInv => TypeOK /\ ExhaustedCounts /\ CancelStopsAttempts
<1> SUFFICES ASSUME IInv PROVE TypeOK /\ ExhaustedCounts /\ CancelStopsAttempts
  OBVIOUS
<1>1. attempt <= delays + 1 /\ delays <= retries
  BY RetryAssumption
  DEF RetryAssumption, IInv, TypeOK, AttemptsFollowDelays, ReportsTrue
<1>2. ExhaustedCounts
  BY <1>1, RetryAssumption
  DEF RetryAssumption, IInv, TypeOK, AttemptsFollowDelays, ReportsTrue,
      ExhaustedCounts
<1>3. CancelStopsAttempts
  BY DEF IInv, OneLateAttempt, ReportsTrue, CancelStopsAttempts
<1> QED BY <1>2, <1>3 DEF IInv

-----------------------------------------------------------------------------
(* The theorems *)

\* The invariant holds in every reachable state of the loop of retry().
THEOREM Invariance == Spec => []IInv
BY InitInv, StepInv, PTL DEF Spec

\* The counters of the loop stay within the bound on the retries.
THEOREM TypeCorrect == Spec => []TypeOK
BY Invariance, InvImplies, PTL

\* Exhausted comes after max_retries + 1 attempts and reports that number.
THEOREM RetriesAreCounted == Spec => []ExhaustedCounts
BY Invariance, InvImplies, PTL

\* After the token fires at most one attempt starts, and Cancelled means that
\* it fired.
THEOREM CancelIsPrompt == Spec => []CancelStopsAttempts
BY Invariance, InvImplies, PTL
=============================================================================
