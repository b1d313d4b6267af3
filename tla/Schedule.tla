------------------------------ MODULE Schedule ------------------------------
(***************************************************************************)
(* altair_temporal's schedule calls against the schedule service: create,  *)
(* update, create_or_update, delete and delete_if_exists, by callers that  *)
(* share schedule ids.  An RPC may fail without effect, take effect and    *)
(* lose its answer, or be given up and land later; create and update are   *)
(* separate RPCs, and update reads the schedule before it writes it.       *)
(*                                                                         *)
(* A schedule is the caller whose trigger and paused flag it has: those    *)
(* are what every write replaces.  Its action, which no update changes,    *)
(* and its note are left out.                                              *)
(***************************************************************************)
EXTENDS Naturals, FiniteSets

CONSTANTS
  Callers,   \* each runs one call at a time
  Schedules, \* schedule ids
  Absent,    \* no such schedule
  MaxLate    \* bound: requests given up and not yet landed

ASSUME ScheduleAssumption ==
  Absent \notin Callers /\ MaxLate \in Nat

VARIABLES
  store,    \* the service: Absent, or whose trigger the schedule has
  late,     \* requests whose caller has given up and which may still land
  call,     \* per caller: op, id and step
  installed \* history: <<caller, id>> where the caller's spec was written

scheduleVars == <<store, late, call, installed>>

-----------------------------------------------------------------------------
(* validate_schedule and its typed counterpart *)

\* What a builder may lack: action stands for workflow type, task queue or
\* workflow id, and for the input of a typed one.  An update of a typed
\* schedule asks for a trigger only.
Builders == [action : BOOLEAN, trigger : BOOLEAN, typed : BOOLEAN]

Valid(op, b) == b.trigger /\ (b.action \/ (op = "update" /\ b.typed))

\* A call that is over keeps its answer only.
Over(a) == [op |-> "none", id |-> Absent, step |-> a]
Answer(c, a) == call' = [call EXCEPT ![c] = Over(a)]

FirstRpc(op) ==
  CASE op \in {"create", "create_or_update"} -> "create"
    [] op = "update" -> "describe"
    [] OTHER -> "delete"

\* An invalid builder is refused before any RPC.
Begin(c, op, s, b) ==
  /\ call[c].step \notin {"create", "describe", "write", "delete"}
  /\ IF op \notin {"delete", "delete_if_exists"} /\ ~Valid(op, b)
     THEN Answer(c, "Configuration")
     ELSE call' = [call EXCEPT ![c] =
            [op |-> op, id |-> s, step |-> FirstRpc(op)]]
  /\ UNCHANGED <<store, late, installed>>

-----------------------------------------------------------------------------
(* RPCs *)

Put(c, s) ==
  /\ store' = [store EXCEPT ![s] = c]
  /\ installed' = installed \union {<<c, s>>}

\* Mutant of CreateFailed: every schedule error is a success, as it is for
\* delete_if_exists.
CreateShrugged(c) ==
  Answer(c, IF call[c].op = "create_or_update" THEN "Ok" ELSE "Schedule")

\* create_or_update takes any Error::Schedule of create for "already exists".
CreateFailed(c) ==
  IF call[c].op = "create_or_update"
  THEN call' = [call EXCEPT ![c].step = "describe"]
  ELSE Answer(c, "Schedule")

GiveUp(c) ==
  \/ UNCHANGED late
  \/ /\ Cardinality(late) < MaxLate
     /\ late' = late \union {[by |-> c, id |-> call[c].id, rpc |-> call[c].step]}

CreateRpc(c) ==
  LET s == call[c].id IN
  /\ call[c].step = "create"
  /\ \/ /\ store[s] = Absent /\ Put(c, s)
        /\ Answer(c, "Ok") \/ CreateFailed(c)
        /\ UNCHANGED late
     \/ CreateFailed(c) /\ GiveUp(c) /\ UNCHANGED <<store, installed>>

\* The update handle fetches the schedule; the closure replaces trigger and
\* paused flag of that copy.
DescribeRpc(c) ==
  LET s == call[c].id IN
  /\ call[c].step = "describe"
  /\ \/ /\ store[s] # Absent
        /\ call' = [call EXCEPT ![c].step = "write"]
     \/ Answer(c, "Schedule")
  /\ UNCHANGED <<store, late, installed>>

\* The copy is written back.  Whether the service refuses one that is out of
\* date is not this code's to say: both are allowed.
WriteRpc(c) ==
  LET s == call[c].id IN
  /\ call[c].step = "write"
  /\ \/ /\ store[s] # Absent /\ Put(c, s)
        /\ Answer(c, "Ok") \/ Answer(c, "Schedule")
        /\ UNCHANGED late
     \/ Answer(c, "Schedule") /\ GiveUp(c) /\ UNCHANGED <<store, installed>>

\* delete_if_exists takes any Error::Schedule for "not found".
DeleteFailed(c) ==
  Answer(c, IF call[c].op = "delete_if_exists" THEN "Ok" ELSE "Schedule")

DeleteRpc(c) ==
  LET s == call[c].id IN
  /\ call[c].step = "delete"
  /\ \/ /\ store[s] # Absent /\ store' = [store EXCEPT ![s] = Absent]
        /\ Answer(c, "Ok") \/ DeleteFailed(c)
     \/ DeleteFailed(c) /\ UNCHANGED store
  /\ UNCHANGED <<late, installed>>

\* A request given up long ago arrives: a create only where there is nothing,
\* a write only where there is something.
Land(m) ==
  /\ m \in late
  /\ late' = late \ {m}
  /\ IF (m.rpc = "create") = (store[m.id] = Absent)
     THEN Put(m.by, m.id)
     ELSE UNCHANGED <<store, installed>>
  /\ UNCHANGED call

Rpc(c) == CreateRpc(c) \/ DescribeRpc(c) \/ WriteRpc(c) \/ DeleteRpc(c)

ScheduleInit ==
  /\ store = [s \in Schedules |-> Absent]
  /\ late = {}
  /\ call = [c \in Callers |-> Over("idle")]
  /\ installed = {}
=============================================================================
