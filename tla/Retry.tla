-------------------------------- MODULE Retry --------------------------------
(***************************************************************************)
(* altair_retry::retry: one operation tried until it succeeds, fails for   *)
(* good, runs out of retries or is cancelled.  The token may fire at any   *)
(* moment, the instant between the check of it and the call of op          *)
(* included; an attempt that runs is never interrupted.                    *)
(***************************************************************************)
EXTENDS Naturals

CONSTANT MaxRetries  \* bound: largest Config::max_retries

ASSUME RetryAssumption == MaxRetries \in Nat

\* How op ends: Ok, a PermanentError, or any other error.
Outcomes == {"ok", "permanent", "transient"}

VARIABLES
  retries,   \* Config::max_retries, fixed
  hasToken,  \* whether a cancellation token is attached, fixed
  fired,     \* the token has been cancelled
  pc,        \* check, call, attempt, backoff, returned
  attempt,   \* attempts started
  delays,    \* delays the backoff iterator has yielded
  result,    \* none, Ok, Permanent, Exhausted, Cancelled
  attempts,  \* the count reported by Exhausted
  late       \* attempts started since the token fired

vars == <<retries, hasToken, fired, pc, attempt, delays, result, attempts, late>>

-----------------------------------------------------------------------------

\* Someone cancels the token.
CancelToken ==
  /\ hasToken /\ ~fired
  /\ fired' = TRUE
  /\ UNCHANGED <<retries, hasToken, pc, attempt, delays, result, attempts, late>>

Return(r) == pc' = "returned" /\ result' = r

\* Mutant of Check: the token is only watched during the backoff.
NoCheck ==
  /\ pc = "check"
  /\ pc' = "call"
  /\ UNCHANGED <<retries, hasToken, fired, attempt, delays, result, attempts, late>>

\* The head of the loop.
Check ==
  /\ pc = "check"
  /\ IF fired THEN Return("Cancelled") ELSE pc' = "call" /\ UNCHANGED result
  /\ UNCHANGED <<retries, hasToken, fired, attempt, delays, attempts, late>>

\* attempt += 1; op()
Call ==
  /\ pc = "call"
  /\ pc' = "attempt"
  /\ attempt' = attempt + 1
  /\ late' = IF fired THEN late + 1 ELSE late
  /\ UNCHANGED <<retries, hasToken, fired, delays, result, attempts>>

\* Mutant of NextDelay: one delay too many.
InclusiveBound == /\ delays <= retries
                  /\ delays' = delays + 1

\* delays.next() answers Some: with_max_times(max_retries) of them.
NextDelay == /\ delays < retries
             /\ delays' = delays + 1

\* op ends.
Outcome(o) ==
  /\ pc = "attempt"
  /\ \/ /\ o = "ok"
        /\ Return("Ok") /\ UNCHANGED <<delays, attempts>>
     \/ /\ o = "permanent"
        /\ Return("Permanent") /\ UNCHANGED <<delays, attempts>>
     \/ /\ o = "transient"
        /\ NextDelay
        /\ pc' = "backoff" /\ UNCHANGED <<result, attempts>>
     \/ /\ o = "transient"
        /\ delays = retries
        /\ Return("Exhausted") /\ attempts' = attempt /\ UNCHANGED delays
  /\ UNCHANGED <<retries, hasToken, fired, attempt, late>>

\* The sleep ends; select! takes it or the token when both are ready.
BackoffOver ==
  /\ pc = "backoff"
  /\ pc' = "check"
  /\ UNCHANGED <<retries, hasToken, fired, attempt, delays, result, attempts, late>>

\* Mutant of BackoffCancelled: the sleep does not watch the token.
SleepOnly == FALSE /\ UNCHANGED vars

\* The token fires during the sleep.
BackoffCancelled ==
  /\ pc = "backoff" /\ fired
  /\ Return("Cancelled")
  /\ UNCHANGED <<retries, hasToken, fired, attempt, delays, attempts, late>>

-----------------------------------------------------------------------------

Init ==
  /\ retries \in 0 .. MaxRetries
  /\ hasToken \in BOOLEAN
  /\ fired = FALSE
  /\ pc = "check"
  /\ attempt = 0
  /\ delays = 0
  /\ result = "none"
  /\ attempts = 0
  /\ late = 0

Next ==
  \/ CancelToken
  \/ Check \/ Call \/ BackoffOver \/ BackoffCancelled
  \/ \E o \in Outcomes : Outcome(o)

Spec == Init /\ [][Next]_vars

\* The future is polled; op may hang and the backoff may be as long as the
\* policy likes, but the token wakes a sleeper.
FairSpec == Spec /\ WF_vars(Check) /\ WF_vars(Call) /\ WF_vars(BackoffCancelled)

-----------------------------------------------------------------------------
(* Properties *)

\* Every variable keeps its type.
TypeOK ==
  /\ retries \in 0 .. MaxRetries
  /\ hasToken \in BOOLEAN /\ fired \in BOOLEAN
  /\ pc \in {"check", "call", "attempt", "backoff", "returned"}
  /\ attempt \in 0 .. MaxRetries + 1
  /\ delays \in 0 .. MaxRetries
  /\ result \in {"none", "Ok", "Permanent", "Exhausted", "Cancelled"}
  /\ attempts \in 0 .. MaxRetries + 1
  /\ late \in Nat

\* "max_retries after the initial call": Exhausted comes after exactly that
\* many attempts and reports them; nothing ever tries more often.
ExhaustedCounts ==
  /\ attempt <= retries + 1
  /\ result = "Exhausted" => attempt = retries + 1 /\ attempts = attempt

\* Once the token has fired at most one more attempt starts, the one whose
\* check had already passed; and only a fired token makes a Cancelled.
CancelStopsAttempts ==
  /\ late <= 1
  /\ result = "Cancelled" => fired

\* A cancelled retry comes back unless op itself hangs, however long the
\* backoff.
CancelWakes == fired ~> pc \in {"attempt", "returned"}
=============================================================================
