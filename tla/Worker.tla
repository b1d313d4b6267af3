------------------------------- MODULE Worker -------------------------------
(***************************************************************************)
(* altair_temporal::WorkerBuilder::build and Worker::run_with_shutdown: a  *)
(* worker polls until its shutdown future resolves, then drains the        *)
(* activities it runs under a deadline.                                    *)
(***************************************************************************)
EXTENDS FunctionActivity

VARIABLES
  phase,   \* build, built, run, drain, returned, crashed; main adds its own
  stop,    \* the shutdown future has resolved
  outcome, \* of build or run: none, Ok, Err
  cut,     \* history: the drain deadline has struck
  lost     \* history: run returned with attempts unreported

workerVars == <<phase, stop, outcome, cut, lost>>

Alive(w) == phase[w] \notin {"returned", "crashed"}
Running(w) == {t \in Tasks : Runs(w, t)}

Become(w, p) == phase' = [phase EXCEPT ![w] = p]

\* Connection, runtime, registrations, SDK worker: the first error ends it.
BuildWorker(w) ==
  /\ phase[w] = "build"
  /\ \/ Become(w, "built") /\ UNCHANGED outcome
     \/ Become(w, "returned") /\ outcome' = [outcome EXCEPT ![w] = "Err"]
  /\ UNCHANGED <<stop, cut, lost, functionVars>>

\* The SDK's run future is gone, whatever it was doing.
RunReturns(w, o) ==
  /\ Become(w, "returned")
  /\ outcome' = [outcome EXCEPT ![w] = o]
  /\ lost' = [lost EXCEPT ![w] = Running(w) # {}]
  /\ Drop(w)

\* The SDK's run ends with an error, before or during the drain.
SdkFails(w) ==
  /\ phase[w] \in {"run", "drain"}
  /\ RunReturns(w, "Err")
  /\ UNCHANGED <<stop, cut>>

\* Mutant of InitiateDrain: select! over run and the shutdown future.
DropAtShutdown(w) ==
  /\ phase[w] = "run" /\ stop[w]
  /\ RunReturns(w, "Ok")
  /\ UNCHANGED <<stop, cut>>

\* shutdown_handle(): the SDK stops polling; the same future goes on.
InitiateDrain(w) ==
  /\ phase[w] = "run" /\ stop[w]
  /\ Become(w, "drain")
  /\ UNCHANGED <<stop, outcome, cut, lost, functionVars>>

\* The SDK's run ends when the last activity has reported.
Drained(w) ==
  /\ phase[w] = "drain" /\ Running(w) = {}
  /\ RunReturns(w, "Ok")
  /\ UNCHANGED <<stop, cut>>

\* Mutant of DrainDeadline: the drain is awaited without a timeout.
NoDeadline(w) == w \notin Workers /\ UNCHANGED <<workerVars, functionVars>>

\* shutdown_grace + 30 s, as of the start of the drain, whatever the SDK's
\* run still does: it may not return although nothing is running.  Reported
\* as Ok.
DrainDeadline(w) ==
  /\ phase[w] = "drain"
  /\ RunReturns(w, "Ok")
  /\ cut' = [cut EXCEPT ![w] = TRUE]
  /\ UNCHANGED stop

Crash(w) ==
  /\ Alive(w)
  /\ Become(w, "crashed")
  /\ Drop(w)
  /\ UNCHANGED <<stop, outcome, cut, lost>>

\* Only a worker that runs takes new tasks; one that drains finishes its own.
WorkerActivity(w, t) ==
  /\ \/ phase[w] = "run" /\ Poll(w, t)
     \/ phase[w] \in {"run", "drain"} /\ Activity(w, t)
  /\ UNCHANGED workerVars

WorkerInit ==
  /\ FunctionInit
  /\ phase = [w \in Workers |-> "build"]
  /\ stop = [w \in Workers |-> FALSE]
  /\ outcome = [w \in Workers |-> "none"]
  /\ cut = [w \in Workers |-> FALSE]
  /\ lost = [w \in Workers |-> FALSE]
=============================================================================
