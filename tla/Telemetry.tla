----------------------------- MODULE Telemetry -----------------------------
(***************************************************************************)
(* altair_otel: Config::init and shutdown() over the process-wide state    *)
(* they share.  A caller of init owns the providers it builds, so a        *)
(* provider is named by its caller.  Spans go to the tracer of the         *)
(* installed subscriber, metrics to whatever the global meter provider is  *)
(* at that moment.                                                         *)
(***************************************************************************)
EXTENDS Naturals, FiniteSets

CONSTANTS
  Inits,     \* callers of Config::init in one process
  NoProvider

ASSUME TelemetryAssumption == NoProvider \notin Inits

Records == {"span", "metric"}

VARIABLES
  init,          \* idle, built, set, subscribed, Ok, AlreadyInitialized, Exporter
  meterProvider, \* the global meter provider
  subscriber,    \* whose layer the global tracing subscriber holds
  slot,          \* PROVIDERS
  shut,          \* providers that have been shut down
  pending        \* what each provider has recorded and may not have exported

telemetry == <<init, meterProvider, subscriber, slot, shut, pending>>

-----------------------------------------------------------------------------
(* Config::init *)

\* Exporters first: one that cannot be built leaves the globals alone.
BuildProviders(i) ==
  /\ init[i] = "idle"
  /\ \E r \in {"built", "Exporter"} : init' = [init EXCEPT ![i] = r]
  /\ UNCHANGED <<meterProvider, subscriber, slot, shut, pending>>

SetGlobals(i) ==
  /\ init[i] = "built"
  /\ init' = [init EXCEPT ![i] = "set"]
  /\ meterProvider' = i
  /\ UNCHANGED <<subscriber, slot, shut, pending>>

\* try_init: the subscriber can be set once in the life of the process.
TryInit(i) ==
  /\ init[i] = "set"
  /\ IF subscriber = NoProvider
     THEN subscriber' = i /\ init' = [init EXCEPT ![i] = "subscribed"]
     ELSE init' = [init EXCEPT ![i] = "AlreadyInitialized"] /\ UNCHANGED subscriber
  /\ UNCHANGED <<meterProvider, slot, shut, pending>>

Install(i) ==
  /\ init[i] = "subscribed"
  /\ IF slot = NoProvider
     THEN slot' = i /\ init' = [init EXCEPT ![i] = "Ok"]
     ELSE init' = [init EXCEPT ![i] = "AlreadyInitialized"] /\ UNCHANGED slot
  /\ UNCHANGED <<meterProvider, subscriber, shut, pending>>

InitCall(i) == BuildProviders(i) \/ SetGlobals(i) \/ TryInit(i) \/ Install(i)

-----------------------------------------------------------------------------

\* What code records: nothing is kept before a provider is in place or after
\* it has been shut down.
Recorded(kinds, at) ==
  [p \in Inits |->
     IF p \in shut THEN pending[p] ELSE pending[p] \union {k \in kinds : at[k] = p}]

\* A traced and metered piece of work ends.
Emit ==
  /\ pending' = Recorded(Records, [span |-> subscriber, metric |-> meterProvider])
  /\ UNCHANGED <<init, meterProvider, subscriber, slot, shut>>

\* shutdown(): the slot is taken, so a second call finds nothing.
FlushAndShut ==
  /\ slot' = NoProvider
  /\ shut' = IF slot = NoProvider THEN shut ELSE shut \union {slot}
  /\ pending' = [p \in Inits |-> IF p = slot THEN {} ELSE pending[p]]
  /\ UNCHANGED <<init, meterProvider, subscriber>>

TelemetryInit ==
  /\ init = [i \in Inits |-> "idle"]
  /\ meterProvider = NoProvider
  /\ subscriber = NoProvider
  /\ slot = NoProvider
  /\ shut = {}
  /\ pending = [i \in Inits |-> {}]
=============================================================================
