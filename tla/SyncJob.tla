------------------------------ MODULE SyncJob ------------------------------
(***************************************************************************)
(* altair_wf::datasync outside Temporal: a Job is built from a             *)
(* SyncJobBuilder, iterate_partitions walks the partitions, and its body   *)
(* is Runner::run over the job's source, mapper and sink (from_job).  The  *)
(* sink is a table written by upsert; a write that fails may have written  *)
(* any part of its batch, and the caller walks again.                      *)
(***************************************************************************)
EXTENDS Integers, FiniteSets, Sequences

CONSTANTS
  MaxWalks  \* bound: walks of one job

ASSUME JobAssumption == MaxWalks \in Nat

(***************************************************************************)
(* What the source has in each partition: good records and records that    *)
(* the per-record function refuses.  A record is <<partition, index>>.     *)
(***************************************************************************)
Records == {"good", "bad"}
Mappers == {"identity", "record"}
Fields  == {"name", "source", "mapper", "sink", "schedule"}

VARIABLES
  form,     \* the fields the builder was given
  mapper, source, nap,  \* the mapper, the batches, a non-zero sleep with a sleeper
  stage,    \* build, fetch, map, write; walked, stopped, refused
  part,     \* the partition of the walk
  batch,    \* indices of the records in flight
  table,    \* durable: the records in the sink
  account,  \* SyncResult and WriteResult summed over the walk, and the drops
  naps, walks

jobVars == <<form, mapper, source, nap, stage, part, batch, table, account,
             naps, walks>>
given == <<form, mapper, source, nap>>

Empty == [fetched |-> 0, dropped |-> 0, inserted |-> 0, updated |-> 0, skipped |-> 0]
Size(p) == Len(source[p])

-----------------------------------------------------------------------------
(* SyncJobBuilder::build and the walk's start *)

\* The loop of iterate_partitions: it has no turn without partitions.
Opening == IF source = <<>> THEN "walked" ELSE "fetch"

BuildJob ==
  /\ stage = "build"
  /\ stage' = IF form = Fields THEN Opening ELSE "refused"
  /\ UNCHANGED <<given, part, batch, table, account, naps, walks>>

\* The caller walks the partitions again.
WalkAgain ==
  /\ stage \in {"walked", "stopped"}
  /\ walks < MaxWalks
  /\ walks' = walks + 1
  /\ stage' = Opening
  /\ part' = 1
  /\ account' = Empty
  /\ naps' = 0
  /\ UNCHANGED <<given, batch, table>>

\* body(p) was Ok: sleep unless this is the last partition.
NextPartition ==
  IF part < Len(source)
  THEN /\ part' = part + 1
       /\ stage' = "fetch"
       /\ naps' = IF nap THEN naps + 1 ELSE naps
  ELSE /\ stage' = "walked"
       /\ UNCHANGED <<part, naps>>

-----------------------------------------------------------------------------
(* Runner::run *)

\* source.fetch(): nothing to do for an empty batch.
FetchBatch ==
  /\ stage = "fetch"
  /\ batch' = 1 .. Size(part)
  /\ account' = [account EXCEPT !.fetched = @ + Size(part)]
  /\ IF Size(part) = 0
     THEN NextPartition
     ELSE stage' = "map" /\ UNCHANGED <<part, naps>>
  /\ UNCHANGED <<given, table, walks>>

\* IdentityMapper passes every record, RecordMapper drops what it refuses.
Mapped ==
  IF mapper = "identity" THEN batch ELSE {i \in batch : source[part][i] = "good"}

MapBatch ==
  /\ stage = "map"
  /\ stage' = "write"
  /\ batch' = Mapped
  /\ account' = [account EXCEPT !.dropped = @ + Cardinality(batch \ Mapped)]
  /\ UNCHANGED <<given, part, table, naps, walks>>

InFlight == {<<part, i>> : i \in batch}

\* sink.write(mapped): an upsert, and its WriteResult added to the sum.  The
\* sink may skip a record that it has already.
WriteBatch ==
  /\ stage = "write"
  /\ \E same \in SUBSET (InFlight \intersect table) :
       account' = [account EXCEPT
         !.inserted = @ + Cardinality(InFlight \ table),
         !.updated  = @ + Cardinality((InFlight \intersect table) \ same),
         !.skipped  = @ + Cardinality(same)]
  /\ table' = table \union InFlight
  /\ NextPartition
  /\ UNCHANGED <<given, batch, walks>>

-----------------------------------------------------------------------------
(* Errors *)

\* Mutant of StopWalk: the partition that failed is passed over.
PassOver == NextPartition

\* body(p).await? : the walk ends with the first error.
StopWalk == stage' = "stopped" /\ UNCHANGED <<part, naps>>

\* fetch or map answers Err, nothing was written.
StageFails ==
  /\ stage \in {"fetch", "map"}
  /\ StopWalk
  /\ UNCHANGED <<given, batch, table, account, walks>>

WriteFails ==
  /\ stage = "write"
  /\ \E landed \in SUBSET InFlight : table' = table \union landed
  /\ StopWalk
  /\ UNCHANGED <<given, batch, account, walks>>

JobInputs(batches) ==
  [form : {Fields} \union {Fields \ {f} : f \in Fields}, mapper : Mappers,
   source : batches, nap : BOOLEAN]

JobStart(input) ==
  /\ form = input.form
  /\ mapper = input.mapper
  /\ source = input.source
  /\ nap = input.nap
  /\ stage = "build"
  /\ part = 1
  /\ batch = {}
  /\ table = {}
  /\ account = Empty
  /\ naps = 0
  /\ walks = 1

JobNext ==
  \/ BuildJob \/ WalkAgain \/ FetchBatch \/ MapBatch \/ WriteBatch
  \/ StageFails \/ WriteFails

-----------------------------------------------------------------------------
(* Properties *)

\* A walk that answers Ok has every record of every partition that the mapper
\* accepts in the sink, after whatever earlier walks left there; its account
\* explains every record fetched; and it slept between partitions only.  A
\* walk that stopped has fetched nothing behind the partition that failed.
WalkAccounts ==
  /\ stage = "walked" =>
       /\ \A p \in 1 .. Len(source) : \A i \in 1 .. Size(p) :
            (mapper = "record" => source[p][i] = "good") => <<p, i>> \in table
       /\ account.fetched =
            account.dropped + account.inserted + account.updated + account.skipped
       /\ naps = IF nap /\ source # <<>> THEN Len(source) - 1 ELSE 0
  /\ stage = "stopped" /\ walks = 1 => \A r \in table : r[1] <= part
  /\ form # Fields => table = {} /\ account = Empty
=============================================================================
