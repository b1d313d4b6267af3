------------------------------ MODULE Service ------------------------------
(***************************************************************************)
(* A process built from altair-server and altair-otel, as main of          *)
(* altair-server/examples/with_otel.rs: init, build, serve, shutdown() of  *)
(* the telemetry whatever the server answered, exit.  Another part of the  *)
(* process may call Config::init as well.                                  *)
(***************************************************************************)
EXTENDS Server, Telemetry

CONSTANT Main  \* the caller of init in main

ASSUME ServiceAssumption == Main \in Inits

VARIABLE phase  \* init, build, serve, flush, exited

serviceVars == <<vars, telemetry, phase>>

-----------------------------------------------------------------------------

\* init()? : any other answer than Ok ends main.
MainInit ==
  /\ phase = "init"
  /\ InitCall(Main)
  /\ phase' = CASE init'[Main] = "Ok" -> "build"
                [] init'[Main] \in {"AlreadyInitialized", "Exporter"} -> "exited"
                [] OTHER -> "init"
  /\ UNCHANGED vars

OtherInit ==
  /\ phase # "exited"
  /\ \E i \in Inits \ {Main} : InitCall(i)
  /\ UNCHANGED <<vars, phase>>

\* build().await? : a bad address or a port in use ends main.
BuildServer ==
  /\ phase = "build"
  /\ phase' \in {"serve", "exited"}
  /\ UNCHANGED <<vars, telemetry>>

\* A request that leaves the stack has emitted its span.
Accept(r) == phase = "serve" /\ Arrive(r) /\ UNCHANGED <<telemetry, phase>>

Respond(response) ==
  /\ phase = "serve"
  /\ response /\ Emit
  /\ UNCHANGED phase

\* A step of run() that no request takes; main goes on when it returns.
Serving(step) ==
  /\ phase = "serve"
  /\ step
  /\ phase' = IF serving' THEN "serve" ELSE "flush"
  /\ UNCHANGED telemetry

\* Mutant of Flush: `server.run().await?` before the telemetry is shut down.
FlushUnlessErr ==
  /\ phase = "flush"
  /\ IF result = "Ok" THEN FlushAndShut ELSE UNCHANGED telemetry
  /\ phase' = "exited"
  /\ UNCHANGED vars

Flush ==
  /\ phase = "flush"
  /\ FlushAndShut
  /\ phase' = "exited"
  /\ UNCHANGED vars

ServiceInit == Init /\ TelemetryInit /\ phase = "init"

ServiceNext ==
  \/ MainInit \/ OtherInit \/ BuildServer \/ Flush
  \/ \E r \in Requests :
       Accept(r) \/ Respond(Reject(r)) \/ Respond(Handle(r)) \/ Respond(Expire(r))
  \/ Serving(Signal) \/ Serving(ShutdownSignal) \/ Serving(Tick)
  \/ Serving(ServeEnds) \/ Serving(TimeOut)

ServiceSpec == ServiceInit /\ [][ServiceNext]_serviceVars

\* As Server's FairSpec: main runs, timers fire and the serve loop is
\* polled; handlers, signals, other callers and exporters owe nothing.
ServiceFairSpec ==
  /\ ServiceSpec
  /\ WF_serviceVars(MainInit) /\ WF_serviceVars(BuildServer) /\ WF_serviceVars(Flush)
  /\ WF_serviceVars(Serving(Tick))
  /\ WF_serviceVars(Serving(ShutdownSignal))
  /\ WF_serviceVars(Serving(ServeEnds))
  /\ WF_serviceVars(Serving(TimeOut))
  /\ \A r \in Requests : WF_serviceVars(Respond(Expire(r)))

-----------------------------------------------------------------------------
(* Properties *)

\* When main is over, after a server that ended well or not, nothing the
\* requests recorded is left in a provider: no span at all, and a metric only
\* where a second init, which was refused, had already put its own meter
\* provider in the place of the installed one.
NothingUnflushed ==
  phase = "exited" /\ ~serving =>
    \A p \in Inits : /\ "span" \notin pending[p]
                     /\ pending[p] # {} => init[p] # "Ok"

\* Once its shutdown future has resolved, and it does for every signal that
\* has a handler, the process gets to its exit although handlers of requests
\* hang and whether or not a shutdown timeout is set.  (The documentation of
\* shutdown_timeout, builder.rs:134, says that "without a bound, a stuck
\* handler keeps the server alive forever"; the request timeout, which is
\* always in the stack, answers for it.)
ShutdownReturns ==
  stopping \/ signal \notin broken \union {"none"} ~> phase = "exited"
=============================================================================
