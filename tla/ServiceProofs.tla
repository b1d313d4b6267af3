--------------------------- MODULE ServiceProofs ---------------------------
(***************************************************************************)
(* Proofs about Service, for any requests, timeouts and callers of init:   *)
(* what the requests recorded has been flushed when main is over.          *)
(***************************************************************************)
EXTENDS Service, TLAPS

InitStates ==
  {"idle", "built", "set", "subscribed", "Ok", "AlreadyInitialized", "Exporter"}

TelemetryTypeOK ==
  /\ init \in [Inits -> InitStates]
  /\ slot \in Inits \union {NoProvider}
  /\ subscriber \in Inits \union {NoProvider}
  /\ pending \in [Inits -> SUBSET Records]

\* Whoever gets past try_init is the subscriber, for good, and only an init
\* that answered Ok is in the slot.
OneSubscriber ==
  /\ \A i \in Inits : init[i] \in {"subscribed", "Ok"} => subscriber = i
  /\ slot # NoProvider => init[slot] = "Ok"

\* Spans go to the subscriber.
SpansAreSubscribed == \A p \in Inits : "span" \in pending[p] => subscriber = p

\* While main runs with telemetry its own provider is the one in the slot; the
\* server has returned only when main has gone on from it.
MainOwnsSlot ==
  /\ phase \in {"build", "serve", "flush"} => init[Main] = "Ok" /\ slot = Main
  /\ serving \in BOOLEAN
  /\ ~serving => phase \in {"flush", "exited"}

\* After the server, main ends with its provider empty.
FlushedAtExit ==
  phase = "exited" /\ ~serving => init[Main] = "Ok" /\ pending[Main] = {}

Inv ==
  TelemetryTypeOK /\ OneSubscriber /\ SpansAreSubscribed /\ MainOwnsSlot /\ FlushedAtExit

-----------------------------------------------------------------------------
(* The steps of the telemetry *)

\* A call of init leaves what is recorded alone, an occupied slot and a
\* subscriber too, and tells only its caller.
LEMMA InitCallFacts ==
  ASSUME Inv, NEW i \in Inits, InitCall(i)
  PROVE  /\ TelemetryTypeOK' /\ OneSubscriber' /\ pending' = pending
         /\ subscriber # NoProvider => subscriber' = subscriber
         /\ slot # NoProvider => slot' = slot
         /\ \A j \in Inits : j # i => init'[j] = init[j]
         /\ init'[i] = "Ok" => slot' = i
         /\ init[i] # "Ok"
<1>1. /\ TelemetryTypeOK /\ OneSubscriber
      /\ NoProvider \notin Inits
  BY TelemetryAssumption DEF Inv, TelemetryAssumption
<1>2. CASE BuildProviders(i)
  <2>1. PICK r \in {"built", "Exporter"} : init' = [init EXCEPT ![i] = r]
    BY <1>2 DEF BuildProviders
  <2>2. UNCHANGED <<subscriber, slot, pending>> /\ init[i] = "idle"
    BY <1>2 DEF BuildProviders
  <2> QED BY <1>1, <2>1, <2>2 DEF TelemetryTypeOK, OneSubscriber, InitStates
<1>3. CASE SetGlobals(i)
  <2>1. /\ init' = [init EXCEPT ![i] = "set"] /\ init[i] = "built"
        /\ UNCHANGED <<subscriber, slot, pending>>
    BY <1>3 DEF SetGlobals
  <2> QED BY <1>1, <2>1 DEF TelemetryTypeOK, OneSubscriber, InitStates
<1>4. CASE TryInit(i)
  <2>1. init[i] = "set" /\ UNCHANGED <<slot, pending>>
    BY <1>4 DEF TryInit
  <2>2. CASE subscriber = NoProvider
    <3>1. subscriber' = i /\ init' = [init EXCEPT ![i] = "subscribed"]
      BY <1>4, <2>2 DEF TryInit
    <3> QED BY <1>1, <2>1, <2>2, <3>1 DEF TelemetryTypeOK, OneSubscriber, InitStates
  <2>3. CASE subscriber # NoProvider
    <3>1. init' = [init EXCEPT ![i] = "AlreadyInitialized"] /\ UNCHANGED subscriber
      BY <1>4, <2>3 DEF TryInit
    <3> QED BY <1>1, <2>1, <3>1 DEF TelemetryTypeOK, OneSubscriber, InitStates
  <2> QED BY <2>2, <2>3
<1>5. CASE Install(i)
  <2>1. init[i] = "subscribed" /\ UNCHANGED <<subscriber, pending>>
    BY <1>5 DEF Install
  <2>2. CASE slot = NoProvider
    <3>1. slot' = i /\ init' = [init EXCEPT ![i] = "Ok"]
      BY <1>5, <2>2 DEF Install
    <3> QED BY <1>1, <2>1, <2>2, <3>1 DEF TelemetryTypeOK, OneSubscriber, InitStates
  <2>3. CASE slot # NoProvider
    <3>1. init' = [init EXCEPT ![i] = "AlreadyInitialized"] /\ UNCHANGED slot
      BY <1>5, <2>3 DEF Install
    <3> QED BY <1>1, <2>1, <3>1 DEF TelemetryTypeOK, OneSubscriber, InitStates
  <2> QED BY <2>2, <2>3
<1> QED BY <1>2, <1>3, <1>4, <1>5 DEF InitCall

\* Recording adds spans for the subscriber only.
LEMMA EmitFacts ==
  ASSUME Inv, Emit
  PROVE  /\ TelemetryTypeOK' /\ OneSubscriber' /\ SpansAreSubscribed'
         /\ UNCHANGED <<init, slot, subscriber>>
<1>1. UNCHANGED <<init, slot, subscriber>>
  BY DEF Emit
<1> DEFINE at == [span |-> subscriber, metric |-> meterProvider]
           new(p) == {k \in Records : at[k] = p}
<1>2. pending' = [p \in Inits |-> IF p \in shut THEN pending[p]
                                                ELSE pending[p] \union new(p)]
  BY DEF Emit, Recorded
<1>3. ASSUME NEW p \in Inits
      PROVE  new(p) \subseteq Records /\ ("span" \in new(p) => subscriber = p)
  OBVIOUS
<1> HIDE DEF new
<1>4. ASSUME NEW p \in Inits
      PROVE  /\ pending'[p] \in SUBSET Records
             /\ "span" \in pending'[p] => subscriber = p
  BY <1>2, <1>3 DEF Inv, TelemetryTypeOK, SpansAreSubscribed
<1>5. pending' \in [Inits -> SUBSET Records]
  BY <1>2, <1>4
<1> QED BY <1>1, <1>4, <1>5 DEF Inv, TelemetryTypeOK, OneSubscriber, SpansAreSubscribed

-----------------------------------------------------------------------------
(* The steps of the process *)

LEMMA SameTelemetry ==
  ASSUME Inv, UNCHANGED telemetry
  PROVE  TelemetryTypeOK' /\ OneSubscriber' /\ SpansAreSubscribed'
BY DEF Inv, telemetry, TelemetryTypeOK, OneSubscriber, SpansAreSubscribed

\* Where main is after each step of its init: build if and only if it is in
\* the slot.
LEMMA MainInitKeeps ==
  ASSUME Inv, MainInit
  PROVE  Inv'
<1>1. /\ phase = "init" /\ serving' = serving /\ InitCall(Main) /\ Main \in Inits
      /\ serving /\ serving \in BOOLEAN
  BY ServiceAssumption DEF MainInit, vars, ServiceAssumption, Inv, MainOwnsSlot
<1>2. /\ TelemetryTypeOK' /\ OneSubscriber' /\ pending' = pending
      /\ subscriber # NoProvider => subscriber' = subscriber
      /\ init'[Main] = "Ok" => slot' = Main
  BY <1>1, InitCallFacts
<1>3. (phase' = "build" /\ init'[Main] = "Ok") \/ phase' \in {"init", "exited"}
  <2>1. CASE init'[Main] = "Ok"
    BY <2>1 DEF MainInit
  <2>2. CASE init'[Main] \in {"AlreadyInitialized", "Exporter"}
    BY <2>2 DEF MainInit
  <2>3. CASE init'[Main] \notin {"Ok", "AlreadyInitialized", "Exporter"}
    BY <2>3 DEF MainInit
  <2> QED BY <2>1, <2>2, <2>3
<1>4. SpansAreSubscribed'
  BY <1>2, TelemetryAssumption DEF Inv, SpansAreSubscribed, TelemetryAssumption
<1> QED BY <1>1, <1>2, <1>3, <1>4 DEF Inv, MainOwnsSlot, FlushedAtExit

LEMMA OtherInitKeeps ==
  ASSUME Inv, OtherInit
  PROVE  Inv'
<1>1. PICK i \in Inits \ {Main} : InitCall(i)
  BY DEF OtherInit
<1>2. /\ phase # "exited" /\ UNCHANGED <<serving, phase>> /\ Main \in Inits
      /\ NoProvider \notin Inits
  BY ServiceAssumption, TelemetryAssumption
  DEF OtherInit, vars, ServiceAssumption, TelemetryAssumption
<1>3. /\ TelemetryTypeOK' /\ OneSubscriber' /\ pending' = pending
      /\ subscriber # NoProvider => subscriber' = subscriber
      /\ slot # NoProvider => slot' = slot
      /\ init'[Main] = init[Main]
  BY <1>1, <1>2, InitCallFacts
<1>4. SpansAreSubscribed'
  BY <1>2, <1>3 DEF Inv, SpansAreSubscribed
<1> QED BY <1>2, <1>3, <1>4 DEF Inv, MainOwnsSlot, FlushedAtExit

\* A step of the serve loop, with or without a record of it.
LEMMA ServeKeeps ==
  ASSUME Inv, phase = "serve", serving' \in BOOLEAN,
         phase' = IF serving' THEN "serve" ELSE "flush",
         Emit \/ UNCHANGED telemetry
  PROVE  Inv'
<1>1. /\ TelemetryTypeOK' /\ OneSubscriber' /\ SpansAreSubscribed'
      /\ UNCHANGED <<init, slot>>
  BY EmitFacts, SameTelemetry DEF telemetry
<1> QED BY <1>1 DEF Inv, MainOwnsSlot, FlushedAtExit

LEMMA FlushKeeps ==
  ASSUME Inv, Flush
  PROVE  Inv'
<1>1. /\ phase = "flush" /\ phase' = "exited" /\ FlushAndShut /\ serving' = serving
      /\ slot = Main /\ init[Main] = "Ok" /\ Main \in Inits
  BY ServiceAssumption DEF Flush, vars, Inv, MainOwnsSlot, ServiceAssumption
<1>2. /\ slot' = NoProvider /\ UNCHANGED <<init, subscriber>>
      /\ pending' = [p \in Inits |-> IF p = Main THEN {} ELSE pending[p]]
  BY <1>1 DEF FlushAndShut
<1>3. pending' \in [Inits -> SUBSET Records] /\ pending'[Main] = {}
  BY <1>1, <1>2 DEF Inv, TelemetryTypeOK
<1>4. SpansAreSubscribed'
  BY <1>2 DEF Inv, SpansAreSubscribed
<1> QED BY <1>1, <1>2, <1>3, <1>4
    DEF Inv, TelemetryTypeOK, OneSubscriber, MainOwnsSlot, FlushedAtExit

LEMMA InitInv == ServiceInit => Inv
BY DEF ServiceInit, Init, TelemetryInit, Inv, TelemetryTypeOK, InitStates, OneSubscriber,
   SpansAreSubscribed, MainOwnsSlot, FlushedAtExit

LEMMA StepInv == Inv /\ [ServiceNext]_serviceVars => Inv'
<1> SUFFICES ASSUME Inv, [ServiceNext]_serviceVars PROVE Inv'
  OBVIOUS
<1>1. serving \in BOOLEAN /\ (phase = "serve" => serving)
  BY DEF Inv, MainOwnsSlot
<1>2. CASE MainInit
  BY <1>2, MainInitKeeps
<1>3. CASE OtherInit
  BY <1>3, OtherInitKeeps
<1>4. CASE BuildServer
  <2>1. UNCHANGED <<telemetry, serving>> /\ phase = "build" /\ phase' \in {"serve", "exited"}
    BY <1>4 DEF BuildServer, vars
  <2>2. UNCHANGED <<init, slot>>
    BY <2>1 DEF telemetry
  <2> QED BY <2>1, <2>2, SameTelemetry DEF Inv, MainOwnsSlot, FlushedAtExit
<1>5. CASE Flush
  BY <1>5, FlushKeeps
<1>6. ASSUME NEW r \in Requests, Accept(r) PROVE Inv'
  <2>1. phase = "serve" /\ phase' = "serve" /\ serving' = serving /\ UNCHANGED telemetry
    BY <1>6 DEF Accept, Arrive
  <2> QED BY <1>1, <2>1, ServeKeeps
<1>7. ASSUME NEW r \in Requests,
             Respond(Reject(r)) \/ Respond(Handle(r)) \/ Respond(Expire(r))
      PROVE  Inv'
  <2>1. phase = "serve" /\ phase' = "serve" /\ serving' = serving /\ Emit
    BY <1>7 DEF Respond, Reject, Handle, Expire
  <2> QED BY <1>1, <2>1, ServeKeeps
<1>8. ASSUME \/ Serving(Signal) \/ Serving(ShutdownSignal) \/ Serving(Tick)
             \/ Serving(ServeEnds) \/ Serving(TimeOut)
      PROVE  Inv'
  <2>1. /\ phase = "serve" /\ phase' = (IF serving' THEN "serve" ELSE "flush")
        /\ UNCHANGED telemetry /\ serving' \in BOOLEAN
    BY <1>1, <1>8
    DEF Serving, Signal, ShutdownSignal, Tick, ServeEnds, TimeOut, Return
  <2> QED BY <2>1, ServeKeeps
<1>9. CASE UNCHANGED serviceVars
  <2>1. UNCHANGED <<telemetry, serving, phase, init, slot, pending>>
    BY <1>9 DEF serviceVars, vars, telemetry
  <2> QED BY <2>1, SameTelemetry DEF Inv, MainOwnsSlot, FlushedAtExit
<1> QED BY <1>2, <1>3, <1>4, <1>5, <1>6, <1>7, <1>8, <1>9 DEF ServiceNext

-----------------------------------------------------------------------------

\* When main is over after serving, no span is left unexported, and metrics
\* only in the provider of an init that was refused.
THEOREM NothingStaysBehind == ServiceSpec => []NothingUnflushed
<1>1. Inv => NothingUnflushed
  <2> SUFFICES ASSUME Inv, phase = "exited", ~serving, NEW p \in Inits
               PROVE  /\ "span" \notin pending[p]
                      /\ pending[p] # {} => init[p] # "Ok"
    BY DEF NothingUnflushed
  <2>1. subscriber = Main /\ pending[Main] = {}
    BY ServiceAssumption DEF Inv, FlushedAtExit, OneSubscriber, ServiceAssumption
  <2>2. "span" \in pending[p] \/ init[p] = "Ok" => p = Main
    BY <2>1 DEF Inv, SpansAreSubscribed, OneSubscriber
  <2> QED BY <2>1, <2>2
<1> QED BY <1>1, InitInv, StepInv, PTL DEF ServiceSpec
-----------------------------------------------------------------------------
(* What a server that has returned leaves unanswered *)

\* A server that answers Ok was told to stop and has answered every request it
\* accepted, none is accepted after that, and it is only cut short by a
\* shutdown timeout that is set and has passed; a handler is never kept longer
\* than the request timeout.
DrainsBeforeOk ==
  /\ result = "Ok" => ~serving /\ Drained
  /\ result = "ShutdownTimeout" => ~serving /\ timed /\ served >= ShutdownTimeout
  /\ \A r \in Requests : request[r] = "handling" => age[r] <= RequestTimeout

ServerTypeOK ==
  /\ timed \in BOOLEAN /\ serving \in BOOLEAN /\ stopping \in BOOLEAN
  /\ request \in [Requests -> {"none", "handling", "answered", "expired", "rejected"}]
  /\ age \in [Requests -> Nat]
  /\ served \in Nat

\* While it serves it has no result, and a request that has not arrived no age.
DrainInv ==
  /\ ServerTypeOK
  /\ serving <=> result = "none"
  /\ result \in {"none", "Ok", "ShutdownTimeout"}
  /\ \A r \in Requests : request[r] = "none" => age[r] = 0
  /\ DrainsBeforeOk

\* A request that arrives or is answered: the server goes on serving.
LEMMA RequestKeepsDrain ==
  ASSUME DrainInv, NEW r \in Requests,
         Arrive(r) \/ Reject(r) \/ Handle(r) \/ Expire(r)
  PROVE  DrainInv'
<1>1. /\ serving /\ UNCHANGED <<timed, serving, stopping, age, served, result>>
      /\ RequestTimeout \in Nat
  BY ServerAssumption DEF Arrive, Reject, Handle, Expire, ServerAssumption
<1>2. PICK a \in {"handling", "answered", "expired", "rejected"} :
        /\ request' = [request EXCEPT ![r] = a]
        /\ a = "handling" => request[r] = "none"
  BY DEF Arrive, Reject, Handle, Expire
<1> QED BY <1>1, <1>2 DEF DrainInv, ServerTypeOK, DrainsBeforeOk

\* Time passes only while no handler is due.
LEMMA TickKeepsDrain ==
  ASSUME DrainInv, Tick
  PROVE  DrainInv'
<1>1. /\ serving /\ UNCHANGED <<timed, serving, stopping, request, result>>
      /\ served' \in Nat /\ RequestTimeout \in Nat
  BY ServerAssumption DEF Tick, DrainInv, ServerTypeOK, ServerAssumption
<1>2. \A r \in Requests :
        age'[r] = IF request[r] = "handling" THEN age[r] + 1 ELSE age[r]
  BY DEF Tick, InFlight
<1>3. age' \in [Requests -> Nat]
  BY DEF Tick, DrainInv, ServerTypeOK
<1>4. \A r \in Requests : request[r] = "handling" => age[r] < RequestTimeout
  BY DEF Tick, InFlight
<1> QED BY <1>1, <1>2, <1>3, <1>4 DEF DrainInv, ServerTypeOK, DrainsBeforeOk

\* The signal, the shutdown future, and the two ways to return.
LEMMA ReturnKeepsDrain ==
  ASSUME DrainInv, Signal \/ ShutdownSignal \/ ServeEnds \/ TimeOut
  PROVE  DrainInv'
<1>1. serving /\ UNCHANGED <<timed, request, age, served>>
  BY DEF Signal, ShutdownSignal, ServeEnds, TimeOut
<1>2. CASE Signal \/ ShutdownSignal
  <2>1. UNCHANGED <<serving, result>> /\ stopping' \in BOOLEAN
    BY <1>2 DEF Signal, ShutdownSignal, DrainInv, ServerTypeOK
  <2> QED BY <1>1, <2>1 DEF DrainInv, ServerTypeOK, DrainsBeforeOk
<1>3. CASE ServeEnds
  <2>1. serving' = FALSE /\ result' = "Ok" /\ UNCHANGED stopping /\ Drained
    BY <1>3 DEF ServeEnds, Return
  <2> QED BY <1>1, <2>1 DEF DrainInv, ServerTypeOK, DrainsBeforeOk, Drained, InFlight
<1>4. CASE TimeOut
  <2>1. /\ serving' = FALSE /\ result' = "ShutdownTimeout" /\ UNCHANGED stopping
        /\ timed /\ served >= ShutdownTimeout
    BY <1>4 DEF TimeOut, Return
  <2> QED BY <1>1, <2>1 DEF DrainInv, ServerTypeOK, DrainsBeforeOk
<1> QED BY <1>2, <1>3, <1>4

LEMMA RestKeepsDrain ==
  ASSUME DrainInv, UNCHANGED vars
  PROVE  DrainInv'
BY DEF vars, DrainInv, ServerTypeOK, DrainsBeforeOk, Drained, InFlight

\* An Ok of the server means that every request it accepted was answered, and
\* an untimed one gives no other answer: the safety half of NoRequestAbandoned.
THEOREM OkIsDrained == ServiceSpec => []DrainsBeforeOk
<1>1. ASSUME ServiceInit PROVE DrainInv
  <2>1. /\ timed \in BOOLEAN /\ serving /\ serving \in BOOLEAN /\ stopping \in BOOLEAN
        /\ result = "none" /\ served \in Nat
    BY <1>1 DEF ServiceInit, Init
  <2>2. /\ request \in [Requests -> {"none"}] /\ \A r \in Requests : request[r] = "none"
        /\ age \in [Requests -> Nat] /\ \A r \in Requests : age[r] = 0
    BY <1>1 DEF ServiceInit, Init
  <2> QED BY <2>1, <2>2 DEF DrainInv, ServerTypeOK, DrainsBeforeOk
<1>2. DrainInv /\ [ServiceNext]_serviceVars => DrainInv'
  <2> SUFFICES ASSUME DrainInv, [ServiceNext]_serviceVars PROVE DrainInv'
    OBVIOUS
  <2>1. CASE MainInit \/ OtherInit \/ BuildServer \/ Flush \/ UNCHANGED serviceVars
    <3>1. UNCHANGED vars
      BY <2>1 DEF MainInit, OtherInit, BuildServer, Flush, serviceVars
    <3> QED BY <3>1, RestKeepsDrain
  <2>2. ASSUME NEW r \in Requests,
               \/ Accept(r) \/ Respond(Reject(r)) \/ Respond(Handle(r))
               \/ Respond(Expire(r))
        PROVE  DrainInv'
    <3>1. Arrive(r) \/ Reject(r) \/ Handle(r) \/ Expire(r)
      BY <2>2 DEF Accept, Respond
    <3> QED BY <3>1, RequestKeepsDrain
  <2>3. CASE \/ Serving(Signal) \/ Serving(ShutdownSignal) \/ Serving(Tick)
             \/ Serving(ServeEnds) \/ Serving(TimeOut)
    <3>1. Signal \/ ShutdownSignal \/ Tick \/ ServeEnds \/ TimeOut
      BY <2>3 DEF Serving
    <3> QED BY <3>1, TickKeepsDrain, ReturnKeepsDrain
  <2> QED BY <2>1, <2>2, <2>3 DEF ServiceNext
<1>3. DrainInv => DrainsBeforeOk
  BY DEF DrainInv
<1> QED BY <1>1, <1>2, <1>3, PTL DEF ServiceSpec
=============================================================================
