------------------------------- MODULE Server -------------------------------
(***************************************************************************)
(* altair_server::Server::run_with_shutdown: axum's serve loop with        *)
(* graceful shutdown, wrapped in a timeout when shutdown_timeout is set,   *)
(* and the request timeout that the middleware stack puts around every     *)
(* handler.  A handler may hang; the clock is common to both timers.       *)
(***************************************************************************)
EXTENDS Naturals

CONSTANTS
  Requests,        \* requests that may arrive
  RequestTimeout,  \* ServerBuilder::request_timeout, in ticks
  ShutdownTimeout  \* ServerBuilder::shutdown_timeout when it is set, in ticks

ASSUME ServerAssumption == {RequestTimeout, ShutdownTimeout} \subseteq Nat \ {0}

VARIABLES
  timed,    \* shutdown_timeout is set, fixed
  serving,  \* run_with_shutdown has not returned
  broken,   \* signals whose handler cannot be installed, fixed
  signal,   \* the signal sent to the process: none, SIGINT, SIGTERM
  stopping, \* the shutdown future has resolved
  request,  \* none, handling, answered, expired (408), rejected (413)
  age,      \* ticks a request's handler has run
  served,   \* ticks since serve was started, while timed
  drained,  \* ticks since the shutdown future resolved, while timed
  result    \* none, Ok, or ShutdownTimeout

vars == <<timed, serving, broken, signal, stopping, request, age, served, drained, result>>

InFlight == {r \in Requests : request[r] = "handling"}

-----------------------------------------------------------------------------
(* Requests *)

\* The listener accepts until the shutdown future resolves.
Arrive(r) ==
  /\ serving /\ ~stopping /\ request[r] = "none"
  /\ request' = [request EXCEPT ![r] = "handling"]
  /\ UNCHANGED <<timed, serving, broken, signal, stopping, age, served, drained, result>>

\* RequestBodyLimitLayer sits outside of the timeout and answers at once.
Reject(r) ==
  /\ serving /\ ~stopping /\ request[r] = "none"
  /\ request' = [request EXCEPT ![r] = "rejected"]
  /\ UNCHANGED <<timed, serving, broken, signal, stopping, age, served, drained, result>>

Handle(r) ==
  /\ serving /\ request[r] = "handling"
  /\ request' = [request EXCEPT ![r] = "answered"]
  /\ UNCHANGED <<timed, serving, broken, signal, stopping, age, served, drained, result>>

\* Mutant of Expire: a stack without the timeout layer.
NeverExpire(r) == r \notin Requests /\ UNCHANGED vars

\* TimeoutLayer drops a handler that has used up its time.
Expire(r) ==
  /\ serving /\ request[r] = "handling" /\ age[r] >= RequestTimeout
  /\ request' = [request EXCEPT ![r] = "expired"]
  /\ UNCHANGED <<timed, serving, broken, signal, stopping, age, served, drained, result>>

-----------------------------------------------------------------------------
(* Shutdown *)

Signals == {"SIGINT", "SIGTERM"}

Signal ==
  /\ serving /\ signal = "none"
  /\ signal' \in Signals
  /\ UNCHANGED <<timed, serving, broken, stopping, request, age, served, drained, result>>

\* shutdown_signal(): a select over both.  Without a handler the Ctrl-C
\* branch resolves at once, the SIGTERM branch never.
ShutdownSignal ==
  /\ serving /\ ~stopping
  /\ signal \in Signals \ broken \/ "SIGINT" \in broken
  /\ stopping' = TRUE
  /\ UNCHANGED <<timed, serving, broken, signal, request, age, served, drained, result>>

\* The serve loop is over: told to stop, and nothing in flight.
Drained == stopping /\ InFlight = {}

Return(r) == serving' = FALSE /\ result' = r

\* Mutant of ServeEnds: the shutdown future is raced against the serve loop
\* and wins.
EndsAtSignal ==
  /\ serving /\ stopping
  /\ Return("Ok")
  /\ UNCHANGED <<timed, broken, signal, stopping, request, age, served, drained>>

ServeEnds ==
  /\ serving /\ Drained
  /\ Return("Ok")
  /\ UNCHANGED <<timed, broken, signal, stopping, request, age, served, drained>>

\* tokio::time::timeout polls the serve loop first, then its timer.
TimeOut ==
  /\ serving /\ timed /\ served >= ShutdownTimeout
  /\ ~Drained
  /\ Return("ShutdownTimeout")
  /\ UNCHANGED <<timed, broken, signal, stopping, request, age, served, drained>>

\* Time passes, up to the moment a timer is due.
Tick ==
  /\ serving
  /\ \A r \in InFlight : age[r] < RequestTimeout
  /\ timed => served < ShutdownTimeout
  /\ age' = [r \in Requests |-> IF r \in InFlight THEN age[r] + 1 ELSE age[r]]
  /\ served' = IF timed THEN served + 1 ELSE served
  /\ drained' = IF timed /\ stopping THEN drained + 1 ELSE drained
  /\ UNCHANGED <<timed, serving, broken, signal, stopping, request, result>>

-----------------------------------------------------------------------------

Init ==
  /\ timed \in BOOLEAN
  /\ serving = TRUE
  /\ broken \in SUBSET Signals
  /\ signal = "none"
  /\ stopping = FALSE
  /\ request = [r \in Requests |-> "none"]
  /\ age = [r \in Requests |-> 0]
  /\ served = 0
  /\ drained = 0
  /\ result = "none"

Next ==
  \/ \E r \in Requests : Arrive(r) \/ Reject(r) \/ Handle(r) \/ Expire(r)
  \/ Signal \/ ShutdownSignal \/ ServeEnds \/ TimeOut \/ Tick

Spec == Init /\ [][Next]_vars

\* Time passes, timers fire and the serve loop is polled; nothing makes a
\* handler answer or a signal arrive.
FairSpec ==
  /\ Spec
  /\ WF_vars(Tick) /\ WF_vars(ServeEnds) /\ WF_vars(TimeOut)
  /\ \A r \in Requests : WF_vars(Expire(r))

-----------------------------------------------------------------------------
(* Properties *)

\* Without a shutdown timeout no request is abandoned: each one that was
\* accepted, before the signal or in the instant of it, is answered by its
\* handler or by a 408, however the shutdown goes.
NoRequestAbandoned ==
  \A r \in Requests :
    ~timed /\ request[r] = "handling" ~> request[r] \in {"answered", "expired"}

\* ShutdownTimeout: "in-flight requests did not drain within the configured
\* shutdown_timeout after the shutdown future resolved".
TimeoutCountsDrain ==
  result = "ShutdownTimeout" => stopping /\ drained >= ShutdownTimeout
=============================================================================
