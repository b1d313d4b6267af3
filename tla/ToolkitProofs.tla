--------------------------- MODULE ToolkitProofs ---------------------------
(***************************************************************************)
(* Proofs about the parts that stand on their own, as behaviours of        *)
(* Toolkit.  A step of Toolkit is a step of one part, and the others rest: *)
(* an invariant of a part needs only the part's own steps.                 *)
(***************************************************************************)
EXTENDS Toolkit, SequenceTheorems, FiniteSetTheorems, WellFoundedInduction, TLAPS

toolkitVars == <<subject, demoVars, jobVars, extractVars, codecVars,
                 expansionVars, restVars, configVars>>

LEMMA PartsStep ==
  ASSUME [ToolkitNext]_toolkitVars
  PROVE  /\ [DemoNext]_demoVars /\ [JobNext]_jobVars /\ [ExtractNext]_extractVars
         /\ [RestNext]_restVars /\ [ConfigNext]_configVars /\ [ExpansionNext]_expansionVars
         /\ [CodecNext]_codecVars
<1>1. CASE UNCHANGED toolkitVars
  BY <1>1 DEF toolkitVars
<1>2. CASE ToolkitNext
  BY <1>2 DEF ToolkitNext, Only
<1> QED BY <1>1, <1>2

\* A part that is not the subject starts from one of its inputs as well.
LEMMA GivenIsInput ==
  ASSUME NEW part_, NEW inputs, inputs # {}
  PROVE  Given(part_, inputs) \subseteq inputs
BY DEF Given

-----------------------------------------------------------------------------
(* RestCall                                                                *)

RestTypeOK ==
  /\ retries \in Nat /\ bodyLimit \in Nat
  /\ sends \in Nat /\ done \in Nat /\ size \in Nat /\ buffered \in Nat
  /\ length \in Nat \union {Undeclared}

\* Before a response is judged nothing of one is there, a call that goes on
\* sending has retries left, and work that no earlier reply leaves open was
\* done, if at all, for the last send.
RestPhase ==
  /\ state = "prepare" => sends = 0
  /\ state = "send" =>
       sends <= retries /\ (sends > 0 => reply \in Transient)
  /\ state \in {"prepare", "send"} => length = Undeclared
  /\ state \in {"prepare", "send", "judge"} => buffered = 0
  /\ reply = "success" => state \in {"judge", "Ok", "Http", "TooLarge", "Decode"}
  /\ earlier \intersect Open = {} =>
       done <= IF reply \in Open \union {"success"} THEN 1 ELSE 0

RestInv == RestTypeOK /\ RestPhase /\ RestOutcome

LEMMA RestStarts == ToolkitInit => RestInv
<1> SUFFICES ASSUME ToolkitInit PROVE RestInv
  OBVIOUS
<1>1. RestInputs # {}
  <2>1. [retries |-> 0, bodyLimit |-> 0, url |-> "bad", body |-> "none"] \in RestInputs
    BY RestAssumption DEF RestInputs, RestAssumption
  <2> QED BY <2>1
<1>2. PICK i \in RestInputs : RestStart(i)
  BY <1>1, GivenIsInput DEF ToolkitInit
<1>3. retries \in Nat /\ bodyLimit \in Nat
  BY <1>2, RestAssumption DEF RestInputs, RestStart, RestAssumption
<1> QED BY <1>2, <1>3 DEF RestStart, RestInv, RestTypeOK, RestPhase, RestOutcome,
           Transient, Undeclared

LEMMA RestSteps == RestInv /\ [RestNext]_restVars => RestInv'
<1> SUFFICES ASSUME RestInv, [RestNext]_restVars PROVE RestInv'
  OBVIOUS
<1> USE DEF RestInv, RestTypeOK, RestPhase, RestOutcome, settings, response, Undeclared
<1>1. CASE Prepare
  BY <1>1 DEF Prepare
<1>2. CASE Send
  <2>1. /\ UNCHANGED <<settings, buffered>> /\ state = "send" /\ sends' = sends + 1
        /\ earlier' = IF sends = 0 THEN {} ELSE earlier \union {reply}
        /\ reply' \in Statuses \union Losses
        /\ buffered = 0 /\ sends <= retries
    BY <1>2 DEF Send
  <2>2. earlier' \subseteq Transient /\ sends' <= retries' + 1
    BY <2>1
  <2>3. done' \in {done, done + 1} /\ (reply' = "success" => done' = done + 1)
    BY <1>2 DEF Send
  <2>4. done' \in Nat /\ done' <= sends' /\ (reply' = "success" => done' >= 1)
    BY <2>1, <2>3
  <2>5. ASSUME earlier' \intersect Open = {}
        PROVE  done' <= IF reply' \in Open \union {"success"} THEN 1 ELSE 0
    <3>1. done = 0
      <4>1. CASE sends = 0
        BY <4>1
      <4>2. CASE sends # 0
        <5>1. earlier \intersect Open = {} /\ reply \notin Open \union {"success"}
          BY <2>1, <2>5, <4>2 DEF Transient, Losses
        <5> QED BY <5>1
      <4> QED BY <4>1, <4>2
    <3>2. done' = done \/ reply' \in Open \union {"success"}
      BY <1>2 DEF Send
    <3> QED BY <2>3, <3>1, <3>2
  <2>6. CASE reply' \in Transient /\ sends < retries
    <3>1. state' = "send" /\ reply' # "success" /\ UNCHANGED response
      BY <1>2, <2>6 DEF Send, Transient, Losses
    <3> QED BY <2>1, <2>2, <2>4, <2>5, <2>6, <3>1
  <2>7. CASE ~(reply' \in Transient /\ sends < retries) /\ reply' \in Losses
    <3>1. state' = "Middleware" /\ reply' # "success" /\ UNCHANGED response
      BY <1>2, <2>7 DEF Send, Losses
    <3> QED BY <2>1, <2>2, <2>4, <2>5, <3>1
  <2>8. CASE ~(reply' \in Transient /\ sends < retries) /\ reply' \notin Losses
    <3>1. state' = "judge" /\ size' \in 0 .. MaxBody /\ length' \in {Undeclared, size'}
      BY <1>2, <2>8 DEF Send
    <3>2. size' \in Nat /\ length' \in Nat \union {Undeclared}
      BY <3>1, RestAssumption DEF RestAssumption
    <3> QED BY <2>1, <2>2, <2>4, <2>5, <3>1, <3>2
  <2> QED BY <2>6, <2>7, <2>8
<1>3. CASE DecodeJson
  <2>1. /\ UNCHANGED <<settings, reply, earlier, sends, done, response>> /\ state = "judge"
        /\ buffered = 0
    BY <1>3 DEF DecodeJson
  <2>2. CASE /\ reply # "success" \/ length > bodyLimit
             /\ state' = IF reply # "success" THEN "Http" ELSE "TooLarge"
             /\ UNCHANGED buffered
    BY <2>1, <2>2
  <2>3. CASE /\ reply = "success" /\ length <= bodyLimit
             /\ buffered' = size
             /\ state' = IF size > bodyLimit THEN "TooLarge"
                         ELSE IF json THEN "Ok" ELSE "Decode"
    BY <2>1, <2>3
  <2>4. CASE /\ reply = "success" /\ length <= bodyLimit
             /\ buffered' \in 0 .. size
             /\ state' = "Http"
    BY <2>1, <2>4
  <2> QED BY <1>3, <2>2, <2>3, <2>4 DEF DecodeJson
<1>4. CASE UNCHANGED restVars
  BY <1>4 DEF restVars
<1> QED BY <1>1, <1>2, <1>3, <1>4 DEF RestNext

\* A JSON call answers what its last reply justifies, sends again only after
\* a transient reply, and no more often than it has retries, and the peer has
\* worked twice only behind a reply that left it open; for any number of
\* retries and any sizes.
THEOREM RestIsJustified == ToolkitSpec => []RestOutcome
<1>1. RestInv /\ [ToolkitNext]_toolkitVars => RestInv'
  BY PartsStep, RestSteps
<1>2. RestInv => RestOutcome
  BY DEF RestInv
<1> QED BY RestStarts, <1>1, <1>2, PTL DEF ToolkitSpec, toolkitVars

-----------------------------------------------------------------------------
(* SyncJob                                                                 *)

\* Whether the mapper passes a record.
Accepts(p, i) == mapper = "record" => source[p][i] = "good"

\* Everything of partition p that the mapper passes is in the sink.
Landed(p) == \A i \in 1 .. Size(p) : Accepts(p, i) => <<p, i>> \in table

Explained == account.dropped + account.inserted + account.updated + account.skipped

Account == [fetched : Nat, dropped : Nat, inserted : Nat, updated : Nat, skipped : Nat]

InBody == {"fetch", "map", "write"}

JobTypeOK ==
  /\ source \in Seq(Seq(Records)) /\ mapper \in Mappers
  /\ account \in Account
  /\ table \subseteq Nat \X Nat
  /\ part \in Nat /\ part >= 1 /\ naps \in Nat /\ walks \in Nat /\ walks >= 1

\* The batch of a stage, and what of it the account still owes.
JobBatch ==
  /\ stage \in InBody => part \in 1 .. Len(source)
  /\ stage \in {"fetch", "walked"} => account.fetched = Explained
  /\ stage = "map" =>
       batch = 1 .. Size(part) /\ account.fetched = Explained + Cardinality(batch)
  /\ stage = "write" =>
       /\ \A i : i \in batch <=> i \in 1 .. Size(part) /\ Accepts(part, i)
       /\ account.fetched = Explained + Cardinality(batch)

\* The partitions behind the walk are in the sink, and it slept after each.
JobProgress ==
  /\ stage \in InBody =>
       /\ \A p \in 1 .. part - 1 : Landed(p)
       /\ naps = IF nap THEN part - 1 ELSE 0
  /\ stage = "walked" =>
       /\ \A p \in 1 .. Len(source) : Landed(p)
       /\ naps = IF nap /\ source # <<>> THEN Len(source) - 1 ELSE 0

\* The first walk writes nothing ahead of its partition; a form that is not
\* complete builds no job.
JobReach ==
  /\ walks = 1 /\ stage # "walked" => \A r \in table : r[1] <= part
  /\ stage = "build" => table = {} /\ account = Empty /\ naps = 0 /\ part = 1
  /\ form # Fields => stage \in {"build", "refused"} /\ table = {} /\ account = Empty

JobInv == JobTypeOK /\ JobBatch /\ JobProgress /\ JobReach

LEMMA JobStarts == ToolkitInit => JobInv
<1> SUFFICES ASSUME ToolkitInit PROVE JobInv
  OBVIOUS
<1>1. JobInputs(JobSources) # {}
  <2>1. PICK s \in JobSources : TRUE
    BY ToolkitAssumption DEF ToolkitAssumption
  <2>2. [form |-> Fields, mapper |-> "record", source |-> s, nap |-> TRUE]
          \in JobInputs(JobSources)
    BY <2>1 DEF JobInputs, Mappers
  <2> QED BY <2>2
<1>2. PICK i \in JobInputs(JobSources) : JobStart(i)
  BY <1>1, GivenIsInput DEF ToolkitInit
<1>3. i.source \in JobSources /\ i.mapper \in Mappers
  BY DEF JobInputs
<1>4. source \in Seq(Seq(Records)) /\ mapper \in Mappers
  BY <1>2, <1>3, ToolkitAssumption DEF JobStart, ToolkitAssumption
<1>5. JobTypeOK
  BY <1>2, <1>4 DEF JobStart, JobTypeOK, Empty, Account
<1> QED BY <1>2, <1>5 DEF JobStart, JobInv, JobBatch, JobProgress, JobReach, InBody

\* The records of a batch are as many as their indices.
LEMMA InFlightSize ==
  ASSUME IsFiniteSet(batch)
  PROVE  IsFiniteSet(InFlight) /\ Cardinality(InFlight) = Cardinality(batch)
<1> DEFINE f == [i \in batch |-> <<part, i>>]
<1>1. f \in Surjection(batch, InFlight)
  BY DEF Surjection, InFlight
<1>2. f \in Injection(batch, InFlight)
  BY DEF Injection, IsInjective, InFlight
<1> QED BY <1>1, <1>2, FS_Surjection

\* Every partition that has been walked stays in the sink.
LEMMA LandedStays ==
  ASSUME UNCHANGED <<mapper, source>>, table \subseteq table', NEW p, Landed(p)
  PROVE  Landed(p)'
BY DEF Landed, Accepts, Size

\* What NextPartition makes of a partition that is done.
LEMMA NextPartitionKeeps ==
  ASSUME JobTypeOK, stage \in InBody, part \in 1 .. Len(source),
         \A p \in 1 .. part - 1 : Landed(p), naps = IF nap THEN part - 1 ELSE 0,
         UNCHANGED <<given, walks>>, table \subseteq table',
         NEW q, q = part, Landed(q)', NextPartition
  PROVE  /\ stage' \in {"fetch", "walked"} /\ part' \in Nat /\ part' >= part /\ naps' \in Nat
         /\ stage' = "fetch" => part' \in 1 .. Len(source)
         /\ JobProgress'
<1>1. part \in Nat /\ Len(source) \in Nat /\ naps \in Nat
  BY DEF JobTypeOK
<1>2. \A p \in 1 .. part - 1 : Landed(p)'
  BY LandedStays DEF given
<1>3. ASSUME NEW p \in 1 .. part PROVE Landed(p)'
  <2>1. CASE p = part
    <3>1. p = q
      BY <2>1
    <3> QED BY <3>1
  <2>2. CASE p # part
    <3>1. p \in 1 .. part - 1
      BY <1>1, <2>2
    <3> QED BY <1>2, <3>1
  <2> QED BY <2>1, <2>2
<1>4. source' = source /\ nap' = nap
  BY DEF given
<1>5. CASE part < Len(source)
  <2>1. part' = part + 1 /\ stage' = "fetch" /\ naps' = IF nap THEN naps + 1 ELSE naps
    BY <1>5 DEF NextPartition
  <2>2. part' - 1 = part /\ part' \in 1 .. Len(source)
    BY <1>1, <1>5, <2>1
  <2>3. naps' = IF nap THEN part' - 1 ELSE 0
    BY <1>1, <2>1, <2>2
  <2>4. JobProgress'
    BY <1>3, <1>4, <2>1, <2>2, <2>3 DEF JobProgress, InBody
  <2> QED BY <1>1, <2>1, <2>2, <2>4
<1>6. CASE ~(part < Len(source))
  <2>1. part' = part /\ stage' = "walked" /\ naps' = naps
    BY <1>6 DEF NextPartition
  <2>2. part = Len(source) /\ source # <<>>
    BY <1>1, <1>6
  <2>3. JobProgress'
    BY <1>3, <1>4, <2>1, <2>2 DEF JobProgress, InBody
  <2> QED BY <1>1, <2>1, <2>3
<1> QED BY <1>5, <1>6

LEMMA JobSizes ==
  ASSUME JobTypeOK, part \in 1 .. Len(source)
  PROVE  /\ Size(part) \in Nat /\ IsFiniteSet(1 .. Size(part))
         /\ Cardinality(1 .. Size(part)) = Size(part)
<1>1. source[part] \in Seq(Records)
  BY DEF JobTypeOK
<1>2. Size(part) \in Nat
  BY <1>1 DEF Size
<1> QED BY <1>2, FS_Interval

\* What a fetch, a map and a write enter in an account.
LEMMA AccountEntries ==
  ASSUME NEW a \in Account, NEW k \in Nat
  PROVE  /\ [a EXCEPT !.fetched = @ + k] = [fetched |-> a.fetched + k, dropped |-> a.dropped,
              inserted |-> a.inserted, updated |-> a.updated, skipped |-> a.skipped]
         /\ [a EXCEPT !.dropped = @ + k] = [fetched |-> a.fetched, dropped |-> a.dropped + k,
              inserted |-> a.inserted, updated |-> a.updated, skipped |-> a.skipped]
         /\ a.fetched \in Nat /\ a.dropped \in Nat /\ a.inserted \in Nat
         /\ a.updated \in Nat /\ a.skipped \in Nat
<1>1. /\ a.fetched \in Nat /\ a.dropped \in Nat /\ a.inserted \in Nat
      /\ a.updated \in Nat /\ a.skipped \in Nat
  BY DEF Account
<1>2. a = [fetched |-> a.fetched, dropped |-> a.dropped, inserted |-> a.inserted,
           updated |-> a.updated, skipped |-> a.skipped]
  BY DEF Account
<1> DEFINE f == a.fetched  d == a.dropped  i == a.inserted  u == a.updated  t == a.skipped
<1>3. a = [fetched |-> f, dropped |-> d, inserted |-> i, updated |-> u, skipped |-> t]
  BY <1>2
<1> HIDE DEF f, d, i, u, t
<1>4. [a EXCEPT !.fetched = @ + k] =
        [fetched |-> f + k, dropped |-> d, inserted |-> i, updated |-> u, skipped |-> t]
  BY <1>3
<1>5. [a EXCEPT !.dropped = @ + k] =
        [fetched |-> f, dropped |-> d + k, inserted |-> i, updated |-> u, skipped |-> t]
  BY <1>3
<1> QED BY <1>1, <1>4, <1>5 DEF f, d, i, u, t

LEMMA BuildJobKeeps == ASSUME JobInv, BuildJob PROVE JobInv'
<1>1. /\ stage = "build" /\ UNCHANGED <<given, part, batch, table, account, naps, walks>>
      /\ stage' = IF form = Fields THEN Opening ELSE "refused"
  BY DEF BuildJob
<1>2. part = 1 /\ account = Empty /\ naps = 0
  BY <1>1 DEF JobInv, JobReach
<1>3. Len(source) \in Nat /\ (source # <<>> => 1 \in 1 .. Len(source))
  BY DEF JobInv, JobTypeOK
<1>4. account.fetched = Explained
  BY <1>2 DEF Empty, Explained
<1>5. JobTypeOK'
  BY <1>1 DEF JobInv, JobTypeOK, given
<1>6. JobBatch'
  BY <1>1, <1>2, <1>3, <1>4 DEF JobBatch, InBody, given, Opening, Explained
<1>7. JobProgress'
  <2>1. ~(stage' \in {"map", "write"}) /\ (stage' = "walked" => source = <<>>)
    BY <1>1 DEF Opening
  <2>2. part' - 1 = 0 /\ naps' = 0 /\ (source = <<>> => Len(source) = 0)
    BY <1>1, <1>2
  <2> QED BY <1>1, <2>1, <2>2 DEF JobProgress, InBody, given
<1>8. JobReach'
  BY <1>1 DEF JobInv, JobReach, given, Opening
<1> QED BY <1>5, <1>6, <1>7, <1>8 DEF JobInv

LEMMA WalkAgainKeeps == ASSUME JobInv, WalkAgain PROVE JobInv'
<1>1. /\ stage \in {"walked", "stopped"} /\ UNCHANGED <<given, batch, table>>
      /\ walks' = walks + 1 /\ stage' = Opening /\ part' = 1 /\ account' = Empty /\ naps' = 0
  BY DEF WalkAgain
<1>2. Len(source) \in Nat /\ (source # <<>> => 1 \in 1 .. Len(source))
  BY DEF JobInv, JobTypeOK
<1>3. account'.fetched = Explained' /\ account' \in Account
  BY <1>1 DEF Empty, Explained, Account
<1>4. walks' \in Nat /\ walks' > 1 /\ form = Fields
  BY <1>1 DEF JobInv, JobTypeOK, JobReach
<1>5. JobTypeOK'
  BY <1>1, <1>3, <1>4 DEF JobInv, JobTypeOK, given
<1>6. JobBatch'
  BY <1>1, <1>2, <1>3 DEF JobBatch, InBody, given, Opening
<1>7. JobProgress'
  <2>1. ~(stage' \in {"map", "write"}) /\ (stage' = "walked" => source = <<>>)
    BY <1>1 DEF Opening
  <2>2. part' - 1 = 0 /\ (source = <<>> => Len(source) = 0)
    BY <1>1
  <2> QED BY <1>1, <2>1, <2>2 DEF JobProgress, InBody, given
<1>8. JobReach'
  BY <1>1, <1>4 DEF JobReach, given, Opening
<1> QED BY <1>5, <1>6, <1>7, <1>8 DEF JobInv

LEMMA FetchBatchKeeps == ASSUME JobInv, FetchBatch PROVE JobInv'
<1>1. /\ stage = "fetch" /\ UNCHANGED <<given, table, walks>> /\ batch' = 1 .. Size(part)
      /\ account' = [account EXCEPT !.fetched = @ + Size(part)]
      /\ IF Size(part) = 0 THEN NextPartition
         ELSE stage' = "map" /\ UNCHANGED <<part, naps>>
  BY DEF FetchBatch
<1>2. /\ JobTypeOK /\ part \in 1 .. Len(source) /\ account.fetched = Explained
      /\ form = Fields
  BY <1>1 DEF JobInv, JobBatch, InBody, JobReach
<1>3. Size(part) \in Nat /\ Cardinality(1 .. Size(part)) = Size(part)
  BY <1>2, JobSizes
<1>4. /\ account' \in Account /\ account'.fetched = account.fetched + Size(part)
      /\ Explained' = Explained
  <2>1. /\ account' = [fetched |-> account.fetched + Size(part), dropped |-> account.dropped,
              inserted |-> account.inserted, updated |-> account.updated,
              skipped |-> account.skipped]
        /\ account.fetched \in Nat /\ account.dropped \in Nat /\ account.inserted \in Nat
        /\ account.updated \in Nat /\ account.skipped \in Nat
    BY <1>1, <1>2, <1>3, AccountEntries DEF JobTypeOK
  <2> QED BY <2>1, <1>3 DEF Account, Explained
<1>5. /\ \A p \in 1 .. part - 1 : Landed(p)
      /\ naps = IF nap THEN part - 1 ELSE 0
      /\ walks = 1 => \A r \in table : r[1] <= part
  BY <1>1 DEF JobInv, JobProgress, InBody, JobReach
<1>6. CASE Size(part) = 0
  <2> PICK q : q = part
    OBVIOUS
  <2>1. NextPartition /\ Landed(q)'
    BY <1>1, <1>6 DEF Landed, Size, given
  <2>2. /\ stage' \in {"fetch", "walked"} /\ part' \in Nat /\ part' >= part /\ naps' \in Nat
        /\ stage' = "fetch" => part' \in 1 .. Len(source)
        /\ JobProgress'
    BY <1>1, <1>2, <1>5, <2>1, NextPartitionKeeps DEF InBody
  <2>3. JobTypeOK'
    BY <1>1, <1>2, <1>4, <2>2 DEF JobTypeOK, given
  <2>4. JobBatch'
    <3>1. account'.fetched = Explained'
      <4>1. account.fetched \in Nat
        BY <1>2, AccountEntries DEF JobTypeOK
      <4> QED BY <1>2, <1>4, <1>6, <4>1
    <3>2. source' = source
      BY <1>1 DEF given
    <3> QED BY <2>2, <3>1, <3>2 DEF JobBatch, InBody
  <2>5. JobReach'
    <3>1. walks = 1 /\ stage' # "walked" => part' = part + 1
      BY <1>6, <2>1 DEF NextPartition
    <3>2. \A r \in table : r[1] <= part' \/ ~(walks = 1 /\ stage' # "walked")
      <4> SUFFICES ASSUME walks = 1, stage' # "walked", NEW r \in table PROVE r[1] <= part'
        OBVIOUS
      <4>1. r[1] \in Nat /\ part \in Nat
        BY <1>2 DEF JobTypeOK
      <4> QED BY <1>5, <3>1, <4>1
    <3> QED BY <1>1, <1>2, <2>2, <3>2 DEF JobReach, given
  <2> QED BY <2>2, <2>3, <2>4, <2>5 DEF JobInv
<1>7. CASE Size(part) # 0
  <2>1. stage' = "map" /\ UNCHANGED <<part, naps>>
    BY <1>1, <1>7
  <2>2. JobTypeOK'
    BY <1>1, <1>2, <1>4, <2>1 DEF JobTypeOK, given
  <2>3. JobBatch'
    BY <1>1, <1>2, <1>3, <1>4, <2>1 DEF JobBatch, InBody, given, Size
  <2>4. JobProgress'
    <3>1. \A p \in 1 .. part - 1 : Landed(p)'
      BY <1>1, <1>5, LandedStays DEF given
    <3> QED BY <1>1, <1>5, <2>1, <3>1 DEF JobProgress, InBody, given
  <2>5. JobReach'
    BY <1>1, <1>2, <1>5, <2>1 DEF JobReach, given
  <2> QED BY <2>2, <2>3, <2>4, <2>5 DEF JobInv
<1> QED BY <1>6, <1>7

\* A refused record leaves the batch and is counted.
LEMMA MapBatchKeeps == ASSUME JobInv, MapBatch PROVE JobInv'
<1>1. /\ stage = "map" /\ stage' = "write" /\ batch' = Mapped
      /\ UNCHANGED <<given, part, table, naps, walks>>
      /\ account' = [account EXCEPT !.dropped = @ + Cardinality(batch \ Mapped)]
  BY DEF MapBatch
<1>2. /\ JobTypeOK /\ part \in 1 .. Len(source) /\ batch = 1 .. Size(part)
      /\ account.fetched = Explained + Cardinality(batch) /\ form = Fields
  BY <1>1 DEF JobInv, JobBatch, InBody, JobReach
<1>3. \A i : i \in Mapped <=> i \in 1 .. Size(part) /\ Accepts(part, i)
  BY <1>2 DEF Mapped, Accepts, JobTypeOK, Mappers
<1>4. /\ Cardinality(batch) \in Nat /\ Cardinality(Mapped) \in Nat
      /\ Cardinality(batch \ Mapped) \in Nat
      /\ Cardinality(batch) = Cardinality(Mapped) + Cardinality(batch \ Mapped)
  <2>1. IsFiniteSet(batch) /\ Mapped \subseteq batch
    BY <1>2, <1>3, JobSizes
  <2>2. IsFiniteSet(Mapped) /\ IsFiniteSet(batch \ Mapped)
    BY <2>1, FS_Subset, FS_Difference
  <2>3. Cardinality(batch \ Mapped) = Cardinality(batch) - Cardinality(batch \intersect Mapped)
    BY <2>1, FS_Difference
  <2>4. batch \intersect Mapped = Mapped
    BY <2>1
  <2>5. Cardinality(batch) \in Nat /\ Cardinality(Mapped) \in Nat
        /\ Cardinality(batch \ Mapped) \in Nat
    BY <2>1, <2>2, FS_CardinalityType
  <2>6. Cardinality(batch \ Mapped) = Cardinality(batch) - Cardinality(Mapped)
    BY <2>3, <2>4
  <2> DEFINE b == Cardinality(batch)  c == Cardinality(Mapped)  d == Cardinality(batch \ Mapped)
  <2>7. b \in Nat /\ c \in Nat /\ d \in Nat /\ d = b - c
    BY <2>5, <2>6
  <2> HIDE DEF b, c, d
  <2>8. b = c + d
    BY <2>7
  <2> QED BY <2>7, <2>8 DEF b, c, d
<1>5. /\ account' \in Account /\ account'.fetched = account.fetched
      /\ Explained' = Explained + Cardinality(batch \ Mapped) /\ Explained \in Nat
  <2> DEFINE k == Cardinality(batch \ Mapped)
  <2>1. /\ account' = [fetched |-> account.fetched, dropped |-> account.dropped + k,
              inserted |-> account.inserted, updated |-> account.updated,
              skipped |-> account.skipped]
        /\ account.fetched \in Nat /\ account.dropped \in Nat /\ account.inserted \in Nat
        /\ account.updated \in Nat /\ account.skipped \in Nat
    BY <1>1, <1>2, <1>4, AccountEntries DEF JobTypeOK
  <2> HIDE DEF k
  <2>2. /\ account' \in Account /\ account'.fetched = account.fetched
        /\ Explained' = Explained + k /\ Explained \in Nat
    <3>1. k \in Nat
      BY <1>4 DEF k
    <3> QED BY <2>1, <3>1 DEF Account, Explained
  <2> QED BY <2>2 DEF k
<1>6. account'.fetched = Explained' + Cardinality(batch')
  BY <1>1, <1>2, <1>4, <1>5
<1>7. JobTypeOK'
  BY <1>1, <1>2, <1>5 DEF JobTypeOK, given
<1>8. JobBatch'
  BY <1>1, <1>2, <1>3, <1>6 DEF JobBatch, InBody, given, Size, Accepts
<1>9. JobProgress'
  <2>1. \A p \in 1 .. part - 1 : Landed(p)'
    BY <1>1, LandedStays DEF given, JobInv, JobProgress, InBody
  <2> QED BY <1>1, <2>1 DEF JobInv, JobProgress, InBody, given
<1>10. JobReach'
  BY <1>1, <1>2 DEF JobInv, JobReach, given
<1> QED BY <1>7, <1>8, <1>9, <1>10 DEF JobInv

\* A write counts every record of the batch once: new to the sink, there
\* before, or there before and skipped.
LEMMA WrittenOnce ==
  ASSUME IsFiniteSet(batch), NEW same \in SUBSET (InFlight \intersect table)
  PROVE  /\ Cardinality(InFlight \ table) \in Nat /\ Cardinality(same) \in Nat
         /\ Cardinality((InFlight \intersect table) \ same) \in Nat
         /\ Cardinality(batch) = Cardinality(InFlight \ table)
              + Cardinality((InFlight \intersect table) \ same) + Cardinality(same)
<1> DEFINE both == InFlight \intersect table
<1>1. IsFiniteSet(InFlight) /\ Cardinality(InFlight) = Cardinality(batch)
  BY InFlightSize
<1>2. /\ IsFiniteSet(both) /\ IsFiniteSet(InFlight \ table)
      /\ Cardinality(InFlight \ table) = Cardinality(InFlight) - Cardinality(both)
  BY <1>1, FS_Difference, FS_Subset
<1> HIDE DEF both
<1>3. same \subseteq both /\ both \intersect same = same
  BY DEF both
<1>4. /\ IsFiniteSet(same) /\ IsFiniteSet(both \ same)
      /\ Cardinality(both \ same) = Cardinality(both) - Cardinality(same)
  <2>1. IsFiniteSet(same)
    BY <1>2, <1>3, FS_Subset
  <2>2. /\ IsFiniteSet(both \ same)
        /\ Cardinality(both \ same) = Cardinality(both) - Cardinality(both \intersect same)
    BY <1>2, FS_Difference
  <2> QED BY <1>3, <2>1, <2>2
<1>5. /\ Cardinality(InFlight) \in Nat /\ Cardinality(both) \in Nat /\ Cardinality(same) \in Nat
      /\ Cardinality(InFlight \ table) \in Nat /\ Cardinality(both \ same) \in Nat
  BY <1>1, <1>2, <1>4, FS_CardinalityType
<1>6. Cardinality(batch) = Cardinality(InFlight \ table) + Cardinality(both \ same)
        + Cardinality(same)
  BY <1>1, <1>2, <1>4, <1>5
<1> QED BY <1>5, <1>6 DEF both

LEMMA WriteBatchKeeps == ASSUME JobInv, WriteBatch PROVE JobInv'
<1>1. /\ stage = "write" /\ table' = table \union InFlight /\ NextPartition
      /\ UNCHANGED <<given, batch, walks>>
  BY DEF WriteBatch
<1>2. /\ JobTypeOK /\ part \in 1 .. Len(source) /\ form = Fields
      /\ \A i : i \in batch <=> i \in 1 .. Size(part) /\ Accepts(part, i)
      /\ account.fetched = Explained + Cardinality(batch)
  BY <1>1 DEF JobInv, JobBatch, InBody, JobReach
<1>3. /\ \A p \in 1 .. part - 1 : Landed(p)
      /\ naps = IF nap THEN part - 1 ELSE 0
      /\ walks = 1 => \A r \in table : r[1] <= part
  BY <1>1 DEF JobInv, JobProgress, InBody, JobReach
<1>4. IsFiniteSet(batch) /\ Size(part) \in Nat
  BY <1>2, JobSizes, FS_Subset
<1>5. account' \in Account /\ account'.fetched = Explained'
  <2>1. PICK same \in SUBSET (InFlight \intersect table) :
          account' = [account EXCEPT
            !.inserted = @ + Cardinality(InFlight \ table),
            !.updated  = @ + Cardinality((InFlight \intersect table) \ same),
            !.skipped  = @ + Cardinality(same)]
    BY DEF WriteBatch
  <2> DEFINE k == Cardinality(InFlight \ table)
             m == Cardinality((InFlight \intersect table) \ same)
             n == Cardinality(same)
  <2>2. k \in Nat /\ m \in Nat /\ n \in Nat /\ Cardinality(batch) = k + m + n
    BY <1>4, WrittenOnce
  <2>3. account' = [account EXCEPT !.inserted = @ + k, !.updated = @ + m, !.skipped = @ + n]
    BY <2>1
  <2> HIDE DEF k, m, n
  <2>4. /\ account.fetched \in Nat /\ account.dropped \in Nat /\ account.inserted \in Nat
        /\ account.updated \in Nat /\ account.skipped \in Nat
    BY <1>2, AccountEntries DEF JobTypeOK
  <2>5. /\ account' \in Account /\ account'.fetched = account.fetched
        /\ account'.dropped = account.dropped /\ account'.inserted = account.inserted + k
        /\ account'.updated = account.updated + m /\ account'.skipped = account.skipped + n
    <3> DEFINE names == {"fetched", "dropped", "inserted", "updated", "skipped"}
    <3> PICK b : b = account'
      OBVIOUS
    <3>1. DOMAIN account = names /\ account \in Account
      BY <1>2 DEF JobTypeOK, Account
    <3>2. b = [account EXCEPT !.inserted = @ + k, !.updated = @ + m, !.skipped = @ + n]
      BY <2>3
    <3>3. /\ b.fetched = account.fetched /\ b.dropped = account.dropped
          /\ b.inserted = account.inserted + k /\ b.updated = account.updated + m
          /\ b.skipped = account.skipped + n
      BY <3>1, <3>2
    <3>4. b = [x \in names |-> b[x]]
      BY <3>1, <3>2
    <3>5. b \in Account
      BY <2>2, <2>4, <3>3, <3>4 DEF Account
    <3> QED BY <3>3, <3>5
  <2>6. account'.fetched = account.fetched /\ Explained' = Explained + (k + m + n)
    BY <2>2, <2>4, <2>5 DEF Explained
  <2> QED BY <1>2, <2>2, <2>5, <2>6
<1>6. table' \subseteq Nat \X Nat /\ table \subseteq table'
  <2>1. batch \subseteq Nat /\ part \in Nat
    BY <1>2, <1>4 DEF JobTypeOK
  <2> QED BY <1>1, <1>2, <2>1 DEF InFlight, JobTypeOK
<1> PICK q : q = part
  OBVIOUS
<1>7. Landed(q)'
  BY <1>1, <1>2 DEF Landed, Size, Accepts, given, InFlight
<1>8. /\ stage' \in {"fetch", "walked"} /\ part' \in Nat /\ part' >= part /\ naps' \in Nat
      /\ stage' = "fetch" => part' \in 1 .. Len(source)
      /\ JobProgress'
  BY <1>1, <1>2, <1>3, <1>6, <1>7, NextPartitionKeeps DEF InBody
<1>9. JobTypeOK'
  BY <1>1, <1>2, <1>5, <1>6, <1>8 DEF JobTypeOK, given
<1>10. JobBatch'
  BY <1>1, <1>5, <1>8 DEF JobBatch, InBody, given
<1>11. JobReach'
  <2>1. ASSUME walks = 1, NEW r \in table' PROVE r[1] <= part'
    <3>1. part \in Nat /\ part' \in Nat /\ part <= part' /\ r[1] \in Nat
      BY <1>2, <1>6, <1>8 DEF JobTypeOK
    <3>2. r[1] <= part
      <4>1. CASE r \in table
        BY <1>3, <2>1, <4>1
      <4>2. CASE r \in InFlight
        BY <3>1, <4>2 DEF InFlight
      <4> QED BY <1>1, <4>1, <4>2
    <3> QED BY <3>1, <3>2
  <2> QED BY <1>1, <1>2, <1>8, <2>1 DEF JobReach, given
<1> QED BY <1>8, <1>9, <1>10, <1>11 DEF JobInv

\* An error ends the walk where it stands, whatever a failed write left.
LEMMA FailureKeeps == ASSUME JobInv, StageFails \/ WriteFails PROVE JobInv'
<1>1. /\ stage \in InBody /\ stage' = "stopped" /\ UNCHANGED <<part, naps>>
      /\ UNCHANGED <<given, batch, account, walks>>
  BY DEF StageFails, WriteFails, StopWalk, InBody
<1>2. JobTypeOK /\ form = Fields /\ part \in 1 .. Len(source)
  BY <1>1 DEF JobInv, JobReach, InBody, JobBatch
<1>3. table' \subseteq Nat \X Nat /\ \A r \in table' : r \in table \/ r[1] = part
  <2>1. CASE StageFails
    BY <1>2, <2>1 DEF StageFails, JobTypeOK
  <2>2. CASE WriteFails
    <3>1. PICK landed \in SUBSET InFlight : table' = table \union landed
      BY <2>2 DEF WriteFails
    <3>2. batch \subseteq Nat /\ part \in Nat
      <4>1. stage = "write"
        BY <2>2 DEF WriteFails
      <4>2. \A i : i \in batch => i \in 1 .. Size(part)
        BY <4>1 DEF JobInv, JobBatch
      <4> QED BY <1>2, <4>2, JobSizes DEF JobTypeOK
    <3>3. \A r \in InFlight : r \in Nat \X Nat /\ r[1] = part
      BY <3>2 DEF InFlight
    <3> QED BY <1>2, <3>1, <3>3 DEF JobTypeOK
  <2> QED BY <2>1, <2>2
<1>4. JobTypeOK'
  BY <1>1, <1>2, <1>3 DEF JobTypeOK, given
<1>5. JobReach'
  <2>1. \A r \in table : walks = 1 => r[1] <= part
    BY <1>1 DEF JobInv, JobReach, InBody
  <2>2. part \in Nat
    BY <1>2 DEF JobTypeOK
  <2> QED BY <1>1, <1>2, <1>3, <2>1, <2>2 DEF JobReach, given
<1> QED BY <1>1, <1>4, <1>5 DEF JobInv, JobBatch, JobProgress, InBody

LEMMA JobSteps == JobInv /\ [JobNext]_jobVars => JobInv'
<1> SUFFICES ASSUME JobInv, [JobNext]_jobVars PROVE JobInv'
  OBVIOUS
<1>1. CASE UNCHANGED jobVars
  BY <1>1 DEF jobVars, given, JobInv, JobTypeOK, JobBatch, JobProgress, JobReach, Landed, Accepts,
     Size, Explained
<1> QED BY <1>1, BuildJobKeeps, WalkAgainKeeps, FetchBatchKeeps, MapBatchKeeps,
           WriteBatchKeeps, FailureKeeps DEF JobNext

\* Whatever the source has and however often a walk fails and is repeated: an
\* Ok leaves every accepted record in the sink, the account explains every
\* record fetched, and a walk that stopped wrote nothing behind its partition.
THEOREM WalksAccount == ToolkitSpec => []WalkAccounts
<1>1. JobInv /\ [ToolkitNext]_toolkitVars => JobInv'
  BY PartsStep, JobSteps
<1>2. JobInv => WalkAccounts
  BY DEF JobInv, JobTypeOK, JobBatch, JobProgress, JobReach, WalkAccounts, Landed, Accepts,
     Explained
<1> QED BY JobStarts, <1>1, <1>2, PTL DEF ToolkitSpec, toolkitVars

-----------------------------------------------------------------------------
(* ConfigLayers                                                            *)

\* File k is there and has a value for the field.
SetBy(k, field) ==
  /\ files[k].table[field] # Unset
  /\ files[k].where \in {"here", "inline"} \/ (files[k].where = "parent" /\ ~files[k].optional)

\* The value that the files below n leave: that of the last one with a value.
LastBelow(n, field, value) ==
  \/ /\ value = Unset
     /\ \A k \in 1 .. n - 1 : ~SetBy(k, field)
  \/ \E k \in 1 .. n - 1 :
       /\ SetBy(k, field) /\ value = files[k].table[field]
       /\ \A j \in 1 .. n - 1 : SetBy(j, field) => j <= k

ConfigTypeOK ==
  /\ files \in Seq(File) /\ env \in Table /\ figment \in Table
  /\ layer \in Nat /\ layer >= 1 /\ layer <= Len(files) + 1

ConfigInv ==
  /\ ConfigTypeOK
  /\ verdict = "loading" /\ ~failed =>
       \A field \in ConfigKeys : LastBelow(layer, field, figment[field])
  /\ LayersWin

LEMMA ConfigStarts == ToolkitInit => ConfigInv
<1> SUFFICES ASSUME ToolkitInit PROVE ConfigInv
  OBVIOUS
<1> DEFINE inputs == ConfigInputs(FileLists, Environments)
<1>1. inputs # {}
  <2>1. PICK f \in FileLists, e \in Environments : TRUE
    BY ToolkitAssumption DEF ToolkitAssumption
  <2>2. [files |-> f, prefix |-> TRUE, env |-> e, defaults |-> {}] \in inputs
    BY <2>1 DEF ConfigInputs
  <2> QED BY <2>2
<1> HIDE DEF inputs
<1>2. PICK i \in inputs : ConfigStart(i)
  BY <1>1, GivenIsInput DEF ToolkitInit, inputs
<1>3. files \in FileLists /\ env \in Environments
  BY <1>2 DEF inputs, ConfigInputs, ConfigStart
<1>4. files \in Seq(File) /\ env \in Table
  BY <1>3, ToolkitAssumption DEF ToolkitAssumption
<1>5. ConfigTypeOK
  BY <1>2, <1>4 DEF ConfigStart, ConfigTypeOK, Table
<1> QED BY <1>2, <1>5 DEF ConfigStart, ConfigInv, LastBelow, LayersWin

LEMMA MergeFileKeeps == ASSUME ConfigInv, MergeFile PROVE ConfigInv'
<1> DEFINE file == files[layer]
           used == ~Skipped(file) /\ Found(file)
<1>1. /\ verdict = "loading" /\ layer <= Len(files) /\ layer' = layer + 1
      /\ figment' = IF used /\ ~file.broken THEN Over(file.table, figment) ELSE figment
      /\ failed' = (failed \/ (used /\ file.broken))
      /\ UNCHANGED <<sources, verdict>>
  BY DEF MergeFile
<1>2. ConfigTypeOK /\ file \in File /\ layer \in 1 .. Len(files)
  BY <1>1 DEF ConfigInv, ConfigTypeOK
<1>3. file.table \in Table
  BY <1>2 DEF File
<1>4. ConfigTypeOK'
  <2>1. figment' \in Table
    BY <1>1, <1>2, <1>3 DEF Over, Table, ConfigTypeOK
  <2> QED BY <1>1, <1>2, <2>1 DEF ConfigTypeOK, sources
<1>5. ASSUME ~failed', NEW field \in ConfigKeys
      PROVE  LastBelow(layer, field, figment[field])'
  <2>1. ~failed /\ LastBelow(layer, field, figment[field])
    BY <1>1, <1>5 DEF ConfigInv
  <2>2. files' = files /\ layer' - 1 = layer /\ layer \in Nat /\ layer >= 1
    BY <1>1, <1>2 DEF sources, ConfigTypeOK
  <2>3. SetBy(layer, field) <=> used /\ file.table[field] # Unset
    BY <1>2 DEF SetBy, Skipped, Found, File, Sources
  <2>4. ~(used /\ file.broken)
    BY <1>1, <1>5
  <2>5. CASE SetBy(layer, field)
    <3>1. figment'[field] = file.table[field]
      BY <1>1, <2>3, <2>4, <2>5 DEF Over
    <3>2. \A j \in 1 .. layer' - 1 : j <= layer
      BY <2>2
    <3>3. layer \in 1 .. layer' - 1
      BY <2>2
    <3> QED BY <2>2, <2>5, <3>1, <3>2, <3>3 DEF LastBelow, SetBy
  <2>6. CASE ~SetBy(layer, field)
    <3>1. figment'[field] = figment[field]
      BY <1>1, <2>3, <2>6 DEF Over
    <3>2. \A k : k \in 1 .. layer' - 1 <=> (k \in 1 .. layer - 1 \/ k = layer)
      BY <2>2
    <3>3. CASE figment[field] = Unset /\ \A k \in 1 .. layer - 1 : ~SetBy(k, field)
      BY <2>2, <2>6, <3>1, <3>2, <3>3 DEF LastBelow, SetBy
    <3>4. CASE \E k \in 1 .. layer - 1 :
                 /\ SetBy(k, field) /\ figment[field] = files[k].table[field]
                 /\ \A j \in 1 .. layer - 1 : SetBy(j, field) => j <= k
      BY <2>2, <2>6, <3>1, <3>2, <3>4 DEF LastBelow, SetBy
    <3> QED BY <2>1, <3>3, <3>4 DEF LastBelow
  <2> QED BY <2>5, <2>6
<1>6. LayersWin'
  BY <1>1 DEF LayersWin
<1> QED BY <1>4, <1>5, <1>6 DEF ConfigInv

\* The words of a field, in one piece: what split('_') makes of its variable.
LEMMA OneName == ASSUME NEW a PROVE FlattenSeq(<<a>>) = a
<1> DEFINE s == <<a>>
           Unfolds(g) ==
             g = [i \in 1 .. Len(s) |-> IF i = 1 THEN s[i] ELSE g[i - 1] \o s[i]]
           flatten == CHOOSE g : Unfolds(g)
<1>1. FlattenSeq(s) = flatten[Len(s)]
  BY DEF FlattenSeq
<1>2. \E g : Unfolds(g)
  <2>1. Unfolds([i \in 1 .. Len(s) |-> a])
    OBVIOUS
  <2> QED BY <2>1
<1>3. Unfolds(flatten)
  BY <1>2
<1> HIDE DEF flatten
<1>4. flatten[1] = a
  BY <1>3
<1> QED BY <1>1, <1>4

LEMMA TwoNames == ASSUME NEW a, NEW b PROVE FlattenSeq(<<a, b>>) = a \o b
<1> DEFINE s == <<a, b>>
           Unfolds(g) ==
             g = [i \in 1 .. Len(s) |-> IF i = 1 THEN s[i] ELSE g[i - 1] \o s[i]]
           flatten == CHOOSE g : Unfolds(g)
<1>1. FlattenSeq(s) = flatten[Len(s)]
  BY DEF FlattenSeq
<1>2. \E g : Unfolds(g)
  <2>1. Unfolds([i \in 1 .. Len(s) |-> IF i = 1 THEN a ELSE a \o b])
    OBVIOUS
  <2> QED BY <2>1
<1>3. Unfolds(flatten)
  BY <1>2
<1> HIDE DEF flatten
<1>4. \A i \in 1 .. 2 : flatten[i] = IF i = 1 THEN s[i] ELSE flatten[i - 1] \o s[i]
  BY <1>3
<1>5. flatten[1] = a
  BY <1>4
<1>6. s[2] = b /\ 2 - 1 = 1 /\ 2 \in 1 .. 2 /\ Len(s) = 2
  OBVIOUS
<1> HIDE DEF s
<1>7. flatten[2] = flatten[2 - 1] \o s[2]
  BY <1>4, <1>6
<1>8. flatten[2] = a \o b
  BY <1>5, <1>6, <1>7
<1> QED BY <1>1, <1>6, <1>8 DEF s

\* A concatenation, from its elements.
LEMMA JoinIs ==
  ASSUME NEW S, NEW l \in Seq(S), NEW r \in Seq(S), NEW t \in Seq(S),
         Len(t) = Len(l) + Len(r), \A i \in 1 .. Len(l) : t[i] = l[i],
         \A i \in 1 .. Len(r) : t[i + Len(l)] = r[i]
  PROVE  l \o r = t
<1> DEFINE u == l \o r
<1>1. u \in Seq(S) /\ Len(u) = Len(t)
  BY ConcatProperties
<1>2. \A i \in 1 .. Len(u) : u[i] = IF i <= Len(l) THEN l[i] ELSE r[i - Len(l)]
  BY ConcatProperties
<1>3. Len(l) \in Nat /\ Len(r) \in Nat
  OBVIOUS
<1> HIDE DEF u
<1>4. ASSUME NEW i \in 1 .. Len(u) PROVE u[i] = t[i]
  <2>1. CASE i <= Len(l)
    BY <1>2, <1>3, <2>1
  <2>2. CASE i > Len(l)
    <3>1. i - Len(l) \in 1 .. Len(r) /\ (i - Len(l)) + Len(l) = i
      BY <1>1, <1>3, <2>2
    <3>2. t[(i - Len(l)) + Len(l)] = r[i - Len(l)]
      BY <3>1
    <3> QED BY <1>2, <1>3, <2>2, <3>1, <3>2
  <2> QED BY <1>3, <2>1, <2>2
<1>5. u = t
  BY <1>1, <1>4, SeqEqual
<1> QED BY <1>5 DEF u

LEMMA OneAndOne == ASSUME NEW a, NEW b PROVE <<a>> \o <<b>> = <<a, b>>
<1> DEFINE S == {a, b}  l == <<a>>  r == <<b>>  t == <<a, b>>
<1>1. l \in Seq(S) /\ r \in Seq(S) /\ t \in Seq(S)
  OBVIOUS
<1>2. /\ Len(l) = 1 /\ Len(r) = 1 /\ Len(t) = 2
      /\ l[1] = a /\ r[1] = b /\ t[1] = a /\ t[2] = b
  OBVIOUS
<1> HIDE DEF S, l, r, t
<1>3. /\ \A i \in 1 .. Len(l) : t[i] = l[i]
      /\ \A i \in 1 .. Len(r) : t[i + Len(l)] = r[i]
      /\ Len(t) = Len(l) + Len(r)
  BY <1>2
<1>4. l \o r = t
  BY <1>1, <1>3, JoinIs
<1> QED BY <1>4 DEF l, r, t

LEMMA OneAndTwo == ASSUME NEW a, NEW b, NEW c PROVE <<a>> \o <<b, c>> = <<a, b, c>>
<1> DEFINE S == {a, b, c}  l == <<a>>  r == <<b, c>>  t == <<a, b, c>>
<1>1. l \in Seq(S) /\ r \in Seq(S) /\ t \in Seq(S)
  OBVIOUS
<1>2. /\ Len(l) = 1 /\ Len(r) = 2 /\ Len(t) = 3
      /\ l[1] = a /\ r[1] = b /\ r[2] = c /\ t[1] = a /\ t[2] = b /\ t[3] = c
  OBVIOUS
<1> HIDE DEF S, l, r, t
<1>3. /\ \A i \in 1 .. Len(l) : t[i] = l[i]
      /\ \A i \in 1 .. Len(r) : t[i + Len(l)] = r[i]
      /\ Len(t) = Len(l) + Len(r)
  <2>1. \A i \in 1 .. 2 : i = 1 \/ i = 2
    OBVIOUS
  <2> QED BY <1>2, <2>1
<1>4. l \o r = t
  BY <1>1, <1>3, JoinIs
<1> QED BY <1>4 DEF l, r, t
\* A variable lands on its field, unless the field has an underscore.
LEMMA EnvPaths ==
  EnvPath(Port) = Port /\ EnvPath(Host) = Host /\ EnvPath(PoolSize) # PoolSize
<1>1. EnvPath(Port) = Port
  <2>1. FlattenSeq(Port) = <<"port">>
    BY OneName DEF Port
  <2> QED BY <2>1 DEF EnvPath, Port
<1>2. EnvPath(Host) = Host
  <2>1. FlattenSeq(Host) = <<"database">> \o <<"host">>
    BY TwoNames DEF Host
  <2>2. FlattenSeq(Host) = <<"database", "host">>
    BY <2>1, OneAndOne
  <2> QED BY <2>2 DEF EnvPath, Host
<1>3. EnvPath(PoolSize) # PoolSize
  <2>1. FlattenSeq(PoolSize) = <<"database">> \o <<"max", "connections">>
    BY TwoNames DEF PoolSize
  <2>2. FlattenSeq(PoolSize) = <<"database", "max", "connections">>
    BY <2>1, OneAndTwo
  <2> QED BY <2>2 DEF EnvPath, PoolSize
<1> QED BY <1>1, <1>2, <1>3

LEMMA ConfigBuildKeeps == ASSUME ConfigInv, Build PROVE ConfigInv'
<1> DEFINE merged == IF prefix THEN Over(EnvTable, figment) ELSE figment
<1>1. /\ verdict = "loading" /\ layer > Len(files) /\ figment' = merged
      /\ verdict' = IF failed \/ \E field \in ConfigKeys \ defaults : merged[field] = Unset
                    THEN "Parse"
                    ELSE IF \E field \in ConfigKeys : merged[field] = "bad" THEN "Validation"
                    ELSE "Ok"
      /\ UNCHANGED <<sources, layer, failed>>
  BY DEF Build
<1>2. ConfigTypeOK /\ layer - 1 = Len(files) /\ DOMAIN files = 1 .. Len(files)
  BY <1>1 DEF ConfigInv, ConfigTypeOK
<1>3. EnvTable \in Table
  BY <1>2 DEF EnvTable, Table, ConfigTypeOK
<1>4. merged \in Table
  BY <1>2, <1>3 DEF Over, Table, ConfigTypeOK
<1>5. ConfigTypeOK'
  BY <1>1, <1>2, <1>4 DEF ConfigTypeOK, sources
<1>6. ASSUME verdict' = "Ok", NEW field \in ConfigKeys
      PROVE  /\ merged[field] # "bad" /\ (merged[field] = Unset => field \in defaults)
             /\ LastBelow(layer, field, figment[field])
             /\ merged[field] = IF prefix /\ field # PoolSize /\ env[field] # Unset
                              THEN env[field] ELSE figment[field]
  <2>1. /\ ~failed /\ merged[field] # "bad"
        /\ ~(field \in ConfigKeys \ defaults /\ merged[field] = Unset)
    BY <1>1, <1>6
  <2>2. LastBelow(layer, field, figment[field])
    BY <1>1, <2>1 DEF ConfigInv
  <2>3. EnvTable[field] = IF field # PoolSize THEN env[field] ELSE Unset
    BY EnvPaths DEF EnvTable, ConfigKeys
  <2>4. merged[field] = IF prefix /\ field # PoolSize /\ env[field] # Unset
                      THEN env[field] ELSE figment[field]
    BY <2>3 DEF Over
  <2> HIDE DEF merged
  <2> QED BY <2>1, <2>2, <2>4
<1> HIDE DEF merged
<1>7. LayersWin'
  <2> SUFFICES ASSUME verdict' = "Ok", NEW field \in ConfigKeys,
                      NEW top, top = LET setters == {k \in DOMAIN files : SetBy(k, field)}
                                     IN  CHOOSE k \in setters : \A j \in setters : j <= k
               PROVE  /\ figment'[field] # "bad"
                      /\ prefix /\ field # PoolSize /\ env[field] # Unset =>
                           figment'[field] = env[field]
                      /\ ~prefix \/ field = PoolSize \/ env[field] = Unset =>
                           figment'[field] = IF {k \in DOMAIN files : SetBy(k, field)} = {}
                                           THEN Unset ELSE files[top].table[field]
                      /\ figment'[field] = Unset => field \in defaults
    BY <1>1 DEF LayersWin, SetBy, sources
  <2> DEFINE setters == {k \in DOMAIN files : SetBy(k, field)}
  <2>1. figment[field] = IF setters = {} THEN Unset ELSE files[top].table[field]
    <3>1. LastBelow(layer, field, figment[field])
      BY <1>6
    <3>2. CASE \A k \in 1 .. layer - 1 : ~SetBy(k, field)
      <4>1. figment[field] = Unset /\ setters = {}
        BY <1>2, <3>1, <3>2 DEF LastBelow
      <4> QED BY <4>1
    <3>3. CASE \E k \in 1 .. layer - 1 : SetBy(k, field)
      <4>1. PICK k \in 1 .. layer - 1 :
              /\ SetBy(k, field) /\ figment[field] = files[k].table[field]
              /\ \A j \in 1 .. layer - 1 : SetBy(j, field) => j <= k
        BY <3>1, <3>3 DEF LastBelow
      <4>2. k \in setters /\ \A j \in setters : j <= k
        BY <1>2, <4>1
      <4>3. top = CHOOSE t \in setters : \A j \in setters : j <= t
        OBVIOUS
      <4>4. setters \subseteq Nat
        BY <1>2 DEF ConfigTypeOK
      <4> HIDE DEF setters
      <4>5. top \in setters /\ \A j \in setters : j <= top
        BY <4>2, <4>3
      <4>6. top \in Nat /\ k \in Nat /\ top <= k /\ k <= top
        BY <4>2, <4>4, <4>5
      <4>7. top = k
        BY <4>6
      <4> QED BY <4>1, <4>2, <4>7
    <3> QED BY <3>2, <3>3
  <2> QED BY <1>1, <1>6, <2>1
<1> QED BY <1>1, <1>5, <1>7 DEF ConfigInv

LEMMA ConfigSteps == ConfigInv /\ [ConfigNext]_configVars => ConfigInv'
<1> SUFFICES ASSUME ConfigInv, [ConfigNext]_configVars PROVE ConfigInv'
  OBVIOUS
<1>1. CASE UNCHANGED configVars
  <2>1. /\ files' = files /\ prefix' = prefix /\ env' = env /\ defaults' = defaults
        /\ layer' = layer /\ figment' = figment /\ failed' = failed /\ verdict' = verdict
    BY <1>1 DEF configVars
  <2>2. ConfigTypeOK' <=> ConfigTypeOK
    BY <2>1 DEF ConfigTypeOK
  <2>3. ASSUME NEW field PROVE LastBelow(layer, field, figment[field])'
                                 <=> LastBelow(layer, field, figment[field])
    BY <2>1 DEF LastBelow, SetBy
  <2>4. LayersWin' <=> LayersWin
    BY <2>1 DEF LayersWin
  <2> QED BY <2>1, <2>2, <2>3, <2>4 DEF ConfigInv
<1> QED BY <1>1, MergeFileKeeps, ConfigBuildKeeps DEF ConfigNext

\* For any list of files and any environment: in a config that is Ok, each
\* field is the environment's, else that of the last file with a value, else
\* its default, but a field with an underscore never sees the environment.
THEOREM ConfigIsLayered == ToolkitSpec => []LayersWin
<1>1. ConfigInv /\ [ToolkitNext]_toolkitVars => ConfigInv'
  BY PartsStep, ConfigSteps
<1>2. ConfigInv => LayersWin
  BY DEF ConfigInv
<1> QED BY ConfigStarts, <1>1, <1>2, PTL DEF ToolkitSpec, toolkitVars

-----------------------------------------------------------------------------
(* ChunkedDemo                                                             *)

DemoTypeOK ==
  /\ demo \in Demos /\ ran \in [1 .. demo.size -> Nat]
  /\ chain \in Nat /\ mishaps \in Nat
  /\ at # "idle" => chain >= 1
  /\ at \in {"idle", "reset", "list", "read", "run", "advance", "done", "failed"}

\* The cursor stands behind partition m of this fire.  If nothing went wrong
\* those up to m ran once, and the chain has come as far as its batches go.
Behind(m) ==
  /\ key = IF m = 0 THEN NoKey ELSE EndKey(m)
  /\ \A k \in 1 .. m : ran[k] >= 1
  /\ mishaps = 0 =>
       /\ \A k \in 1 .. demo.size : ran[k] = IF k <= m THEN 1 ELSE 0
       /\ IF demo.max = 0 THEN m = 0 /\ chain = 1 ELSE m = demo.max * (chain - 1)

\* The execution has the partitions lo to hi still to run or to acknowledge.
Between(lo, hi) ==
  /\ lo <= hi /\ todo = lo .. hi
  /\ more <=> hi < demo.size
  /\ demo.max = 0 => hi = demo.size
  /\ \A k \in 1 .. lo - 1 : ran[k] >= 1
  /\ at = "advance" => ran[lo] >= 1
  /\ mishaps = 0 =>
       /\ \A k \in 1 .. demo.size :
            ran[k] = IF k < lo \/ (k = lo /\ at = "advance") THEN 1 ELSE 0
       /\ IF demo.max = 0 THEN chain = 1
          ELSE /\ demo.max * (chain - 1) < lo
               /\ hi = IF demo.max * chain < demo.size THEN demo.max * chain ELSE demo.size

DemoProgress ==
  /\ demo.resets = "never" /\ fires = 0 => key = NoKey /\ at = "idle"
  /\ at = "reset" /\ mishaps = 0 =>
       chain = 1 /\ \A k \in 1 .. demo.size : ran[k] = 0
  /\ at \in {"list", "read"} => \E m \in 0 .. demo.size - 1 : Behind(m)
  /\ at = "read" => todo = 1 .. demo.size
  /\ at \in {"run", "advance"} => \E lo \in 1 .. demo.size, hi \in 1 .. demo.size : Between(lo, hi)

DemoInv == DemoTypeOK /\ DemoProgress /\ FireSyncsAll /\ fires \in Nat

LEMMA DemoFacts ==
  ASSUME demo \in Demos
  PROVE  /\ demo.size \in Nat /\ demo.size >= 6 /\ demo.max \in {0, 2, 3}
         /\ demo.max = 0 <=> demo.resets = "every"
         /\ demo.max = 2 <=> demo.resets = "first"
         /\ demo.max = 3 <=> demo.resets = "never"
         /\ demo.max = 2 => demo.size = 6
         /\ demo.max = 3 => demo.size = 10
BY DEF Demos, ScheduledCan, ScheduledSinglePass, DatasyncChunked

\* Taking the first partition off a list of neighbours.
LEMMA FirstOff ==
  ASSUME NEW lo \in Int, NEW hi \in Int, lo <= hi
  PROVE  /\ First(lo .. hi) = lo
         /\ (lo .. hi) \ {lo} = lo + 1 .. hi
         /\ (lo .. hi) \ {lo} = {} <=> lo = hi
<1>1. lo \in lo .. hi /\ \A j \in lo .. hi : lo <= j
  OBVIOUS
<1>2. First(lo .. hi) = lo
  BY <1>1 DEF First
<1>3. (lo .. hi) \ {lo} = lo + 1 .. hi
  OBVIOUS
<1> QED BY <1>2, <1>3

\* retain and truncate, of a list of neighbours.
LEMMA CutOff ==
  ASSUME NEW lo \in Int, NEW hi \in Int, NEW n \in Nat, lo <= hi
  PROVE  /\ Cardinality(lo .. hi) = hi - lo + 1
         /\ {k \in lo .. hi : Cardinality({j \in lo .. hi : j < k}) < n}
              = lo .. (IF lo + n - 1 < hi THEN lo + n - 1 ELSE hi)
<1>1. Cardinality(lo .. hi) = hi - lo + 1
  BY FS_Interval
<1>2. ASSUME NEW k \in lo .. hi
      PROVE  Cardinality({j \in lo .. hi : j < k}) = k - lo
  <2> DEFINE below == {j \in lo .. hi : j < k}
  <2>1. below = lo .. k - 1
    OBVIOUS
  <2>2. k \in Int /\ k >= lo /\ k - 1 \in Int
    OBVIOUS
  <2>3. Cardinality(lo .. k - 1) = IF lo > k - 1 THEN 0 ELSE (k - 1) - lo + 1
    BY <2>2, FS_Interval
  <2> HIDE DEF below
  <2>4. Cardinality(below) = k - lo
    BY <2>1, <2>2, <2>3
  <2> QED BY <2>4 DEF below
<1>3. {k \in lo .. hi : Cardinality({j \in lo .. hi : j < k}) < n} = {k \in lo .. hi : k - lo < n}
  BY <1>2
<1>4. {k \in lo .. hi : k - lo < n} = lo .. (IF lo + n - 1 < hi THEN lo + n - 1 ELSE hi)
  OBVIOUS
<1> QED BY <1>1, <1>3, <1>4

LEMMA DemoStarts == ToolkitInit => DemoInv
<1> SUFFICES ASSUME ToolkitInit PROVE DemoInv
  OBVIOUS
<1>1. Demos # {}
  BY DEF Demos
<1>2. PICK d \in Demos : DemoStart(d)
  BY <1>1, GivenIsInput DEF ToolkitInit
<1> QED BY <1>2 DEF DemoStart, DemoInv, DemoTypeOK, DemoProgress, FireSyncsAll

LEMMA FireKeeps == ASSUME DemoInv, Fire PROVE DemoInv'
<1>1. /\ at \in {"idle", "done", "failed"} /\ fires' = fires + 1 /\ at' = Entry(1)
      /\ ran' = [k \in 1 .. demo.size |-> 0] /\ chain' = 1 /\ mishaps' = 0
      /\ UNCHANGED <<demo, key, todo, more>>
      /\ demo.resets = "never" => fires < 1
  BY DEF Fire
<1>2. demo \in Demos /\ fires \in Nat
  BY DEF DemoInv, DemoTypeOK
<1>3. at' = IF demo.resets = "never" THEN "list" ELSE "reset"
  BY <1>1, <1>2, DemoFacts DEF Entry
<1>4. DemoTypeOK' /\ fires' \in Nat /\ fires' # 0
  BY <1>1, <1>2, <1>3 DEF DemoTypeOK
<1>5. ASSUME demo.resets = "never" PROVE 0 \in 0 .. demo.size - 1 /\ Behind(0)'
  <2>1. key = NoKey /\ demo.max = 3 /\ demo.size = 10
    BY <1>1, <1>2, <1>5, DemoFacts DEF DemoInv, DemoProgress
  <2> QED BY <1>1, <2>1 DEF Behind
<1>6. DemoProgress'
  BY <1>1, <1>3, <1>4, <1>5 DEF DemoProgress
<1> QED BY <1>3, <1>4, <1>6 DEF DemoInv, FireSyncsAll

LEMMA ResetCursorKeeps == ASSUME DemoInv, ResetCursor PROVE DemoInv'
<1>1. /\ at = "reset" /\ at' = "list" /\ key' = NoKey
      /\ UNCHANGED <<demo, todo, more, ran, chain, mishaps, fires>>
  BY DEF ResetCursor
<1>2. demo \in Demos
  BY DEF DemoInv, DemoTypeOK
<1>3. Behind(0)' /\ 0 \in 0 .. demo.size - 1
  <2>1. mishaps = 0 => chain = 1 /\ \A k \in 1 .. demo.size : ran[k] = 0
    BY <1>1 DEF DemoInv, DemoProgress
  <2>2. demo.size \in Nat /\ demo.size >= 6 /\ demo.max \in {0, 2, 3}
    BY <1>2, DemoFacts
  <2> QED BY <1>1, <2>1, <2>2 DEF Behind
<1> QED BY <1>1, <1>3 DEF DemoInv, DemoTypeOK, DemoProgress, FireSyncsAll

LEMMA ListKeeps == ASSUME DemoInv, ListDemoPartitions PROVE DemoInv'
<1>1. /\ at = "list" /\ at' = "read" /\ todo' = 1 .. demo.size
      /\ UNCHANGED <<demo, key, more, ran, chain, mishaps, fires>>
  BY DEF ListDemoPartitions
<1>2. PICK m \in 0 .. demo.size - 1 : Behind(m)
  BY <1>1 DEF DemoInv, DemoProgress
<1>3. Behind(m)'
  BY <1>1, <1>2 DEF Behind
<1> QED BY <1>1, <1>3 DEF DemoInv, DemoTypeOK, DemoProgress, FireSyncsAll

LEMMA ReadKeeps == ASSUME DemoInv, ReadDemoCursor PROVE DemoInv'
<1> DEFINE left == IF key = NoKey THEN todo ELSE {k \in todo : StartKey(k) >= key}
           cut  == demo.max > 0 /\ Cardinality(left) > demo.max
<1>1. /\ at = "read" /\ at' = IF left = {} THEN "done" ELSE "run"
      /\ more' = cut
      /\ todo' = IF cut THEN {k \in left : Cardinality({j \in left : j < k}) < demo.max}
                 ELSE left
      /\ UNCHANGED <<demo, key, ran, chain, mishaps, fires>>
  BY DEF ReadDemoCursor
<1>2. demo \in Demos /\ chain \in Nat /\ chain >= 1 /\ ran \in [1 .. demo.size -> Nat]
  BY <1>1 DEF DemoInv, DemoTypeOK
<1>3. PICK m \in 0 .. demo.size - 1 : Behind(m)
  BY <1>1 DEF DemoInv, DemoProgress
<1>4. /\ demo.size \in Nat /\ demo.size >= 6 /\ demo.max \in Nat /\ m \in Nat /\ m < demo.size
      /\ demo.max \in {0, 2, 3}
  BY <1>2, <1>3, DemoFacts
<1>5. left = m + 1 .. demo.size
  <2>1. todo = 1 .. demo.size
    BY <1>1 DEF DemoInv, DemoProgress
  <2>2. CASE m = 0
    BY <1>3, <1>4, <2>1, <2>2 DEF Behind
  <2>3. CASE m # 0
    <3>1. key = 10 * m /\ key # NoKey
      BY <1>3, <1>4, <2>3 DEF Behind, EndKey, NoKey
    <3>2. \A k \in 1 .. demo.size : StartKey(k) >= key <=> k >= m + 1
      BY <1>4, <3>1 DEF StartKey
    <3> QED BY <1>4, <2>1, <3>1, <3>2
  <2> QED BY <2>2, <2>3
<1> DEFINE lo == m + 1
           hi == IF demo.max = 0 \/ m + demo.max >= demo.size THEN demo.size ELSE m + demo.max
<1> HIDE DEF left
<1>6. /\ Cardinality(left) = demo.size - m
      /\ {k \in left : Cardinality({j \in left : j < k}) < demo.max}
           = m + 1 .. (IF m + demo.max < demo.size THEN m + demo.max ELSE demo.size)
  <2>1. m + 1 \in Int /\ demo.size \in Int /\ m + 1 <= demo.size
    BY <1>4
  <2> DEFINE a == m + 1  b == demo.size  n == demo.max
             top == IF a + n - 1 < b THEN a + n - 1 ELSE b
  <2>2. /\ Cardinality(a .. b) = b - a + 1
        /\ {k \in a .. b : Cardinality({j \in a .. b : j < k}) < n} = a .. top
    <3> HIDE DEF a, b
    <3>1. a \in Int /\ b \in Int /\ n \in Nat /\ a <= b
      BY <1>4, <2>1 DEF a, b
    <3> HIDE DEF n
    <3> QED BY <3>1, CutOff
  <2>3. b - a + 1 = b - m /\ top = IF m + n < b THEN m + n ELSE b
    BY <1>4
  <2> HIDE DEF n, b, top
  <2> QED BY <1>5, <2>2, <2>3 DEF n, b
<1>7. /\ at' = "run" /\ todo' = lo .. hi /\ (more' <=> hi < demo.size)
      /\ lo \in 1 .. demo.size /\ hi \in 1 .. demo.size /\ lo <= hi
  <2>1. lo \in 1 .. demo.size /\ hi \in 1 .. demo.size /\ lo <= hi
    BY <1>4
  <2>2. lo \in left
    BY <1>5, <2>1
  <2>3. cut <=> hi < demo.size
    BY <1>4, <1>6
  <2>4. CASE cut
    <3>1. hi = IF m + demo.max < demo.size THEN m + demo.max ELSE demo.size
      BY <1>4, <1>6, <2>4
    <3> QED BY <1>1, <1>6, <2>1, <2>2, <2>3, <2>4, <3>1
  <2>5. CASE ~cut
    <3>1. hi = demo.size
      BY <1>4, <2>1, <2>3, <2>5
    <3> QED BY <1>1, <1>5, <2>1, <2>2, <2>3, <2>5, <3>1
  <2> QED BY <2>4, <2>5
<1>8. \E first \in 1 .. demo.size, last \in 1 .. demo.size : Between(first, last)'
  <2>1. \A k \in 1 .. lo - 1 : ran'[k] >= 1
    BY <1>1, <1>3, <1>4 DEF Behind
  <2>2. ASSUME mishaps' = 0
        PROVE  /\ \A k \in 1 .. demo.size : ran'[k] = IF k < lo THEN 1 ELSE 0
               /\ IF demo.max = 0 THEN chain' = 1
                  ELSE /\ demo.max * (chain' - 1) < lo
                       /\ hi = IF demo.max * chain' < demo.size THEN demo.max * chain'
                               ELSE demo.size
    <3>1. \A k \in 1 .. demo.size : ran'[k] = IF k < lo THEN 1 ELSE 0
      BY <1>1, <1>3, <1>4, <2>2 DEF Behind
    <3>2. CASE demo.max = 0
      BY <1>1, <1>3, <2>2, <3>1, <3>2 DEF Behind
    <3>3. CASE demo.max = 2
      <4>1. m = 2 * (chain - 1)
        BY <1>1, <1>3, <2>2, <3>3 DEF Behind
      <4> QED BY <1>1, <1>2, <1>4, <3>1, <3>3, <4>1
    <3>4. CASE demo.max = 3
      <4>1. m = 3 * (chain - 1)
        BY <1>1, <1>3, <2>2, <3>4 DEF Behind
      <4> QED BY <1>1, <1>2, <1>4, <3>1, <3>4, <4>1
    <3> QED BY <1>4, <3>2, <3>3, <3>4
  <2>3. demo.max = 0 => hi = demo.size
    OBVIOUS
  <2> HIDE DEF lo, hi
  <2>4. demo' = demo /\ at' # "advance"
    BY <1>1, <1>7
  <2>5. mishaps' = 0 => \A k \in 1 .. demo.size :
          ran'[k] = IF k < lo \/ (k = lo /\ at' = "advance") THEN 1 ELSE 0
    BY <2>2, <2>4
  <2> PICK first, last : first = lo /\ last = hi
    OBVIOUS
  <2>6. Between(first, last)'
    BY <1>7, <2>1, <2>2, <2>3, <2>4, <2>5 DEF Between
  <2> QED BY <1>7, <2>6
<1> HIDE DEF lo, hi
<1>9. DemoProgress'
  BY <1>1, <1>7, <1>8 DEF DemoProgress, DemoInv
<1>10. DemoTypeOK' /\ fires' \in Nat
  BY <1>1, <1>7 DEF DemoInv, DemoTypeOK
<1> QED BY <1>7, <1>9, <1>10 DEF DemoInv, FireSyncsAll

\* The partition in hand is run, whether or not its answer gets through.
LEMMA RanOnceMore ==
  ASSUME DemoInv, at = "run", ran' = [ran EXCEPT ![First(todo)] = @ + 1],
         UNCHANGED <<demo, todo, more, chain>>,
         \/ mishaps' = mishaps /\ at' = "advance"
         \/ mishaps' # 0 /\ at' = "run"
  PROVE  /\ ran' \in [1 .. demo.size -> Nat]
         /\ \E lo \in 1 .. demo.size, hi \in 1 .. demo.size : Between(lo, hi)'
<1>1. PICK lo \in 1 .. demo.size, hi \in 1 .. demo.size : Between(lo, hi)
  BY DEF DemoInv, DemoProgress
<1>2. ran \in [1 .. demo.size -> Nat] /\ demo.size \in Nat /\ lo \in Int /\ hi \in Int
  BY DemoFacts DEF DemoInv, DemoTypeOK
<1>3. First(todo) = lo
  BY <1>1, <1>2, FirstOff DEF Between
<1>4. /\ ran' \in [1 .. demo.size -> Nat] /\ ran'[lo] = ran[lo] + 1 /\ ran[lo] \in Nat
      /\ \A k \in 1 .. demo.size : k # lo => ran'[k] = ran[k]
  BY <1>2, <1>3
<1>5. \A k \in 1 .. lo - 1 : ran'[k] >= 1
  <2> TAKE k \in 1 .. lo - 1
  <2>1. k \in 1 .. demo.size /\ k # lo
    BY <1>2
  <2> QED BY <1>1, <1>4, <2>1 DEF Between
<1>6. ran'[lo] >= 1
  BY <1>4
<1>7. ASSUME mishaps' = 0
      PROVE  \A k \in 1 .. demo.size :
               ran'[k] = IF k < lo \/ (k = lo /\ at' = "advance") THEN 1 ELSE 0
  <2>1. mishaps = 0 /\ at' = "advance"
    BY <1>7
  <2> TAKE k \in 1 .. demo.size
  <2>2. ran[k] = IF k < lo THEN 1 ELSE 0
    BY <1>1, <2>1 DEF Between
  <2> QED BY <1>2, <1>4, <2>1, <2>2
<1>8. Between(lo, hi)'
  BY <1>1, <1>5, <1>6, <1>7 DEF Between
<1> QED BY <1>4, <1>8

LEMMA RunKeeps == ASSUME DemoInv, RunDemoPartition \/ RunAnswerLost PROVE DemoInv'
<1>1. /\ at = "run" /\ ran' = [ran EXCEPT ![First(todo)] = @ + 1]
      /\ UNCHANGED <<demo, key, todo, more, chain, fires>>
  BY DEF RunDemoPartition, RunAnswerLost
<1>2. mishaps \in Nat
  BY DEF DemoInv, DemoTypeOK
<1>3. /\ mishaps' \in Nat
      /\ \/ mishaps' = mishaps /\ at' = "advance"
         \/ mishaps' # 0 /\ at' = "run"
  BY <1>1, <1>2 DEF RunDemoPartition, RunAnswerLost, Mishap
<1>4. /\ ran' \in [1 .. demo.size -> Nat]
      /\ \E lo \in 1 .. demo.size, hi \in 1 .. demo.size : Between(lo, hi)'
  BY <1>1, <1>3, RanOnceMore
<1> QED BY <1>1, <1>3, <1>4 DEF DemoInv, DemoTypeOK, DemoProgress, FireSyncsAll

LEMMA AdvanceKeeps == ASSUME DemoInv, AdvanceDemoCursor PROVE DemoInv'
<1> DEFINE rest == todo \ {First(todo)}
           again == rest = {} /\ more
<1>1. /\ at = "advance" /\ key' = EndKey(First(todo)) /\ todo' = rest
      /\ at' = CASE rest # {} -> "run" [] again -> Entry(chain + 1) [] OTHER -> "done"
      /\ chain' = IF again THEN chain + 1 ELSE chain
      /\ UNCHANGED <<demo, more, ran, mishaps, fires>>
  BY DEF AdvanceDemoCursor
<1>2. /\ demo \in Demos /\ chain \in Nat /\ chain >= 1 /\ ran \in [1 .. demo.size -> Nat]
      /\ mishaps \in Nat /\ fires \in Nat
  BY <1>1 DEF DemoInv, DemoTypeOK
<1>3. PICK lo \in 1 .. demo.size, hi \in 1 .. demo.size : Between(lo, hi)
  BY <1>1 DEF DemoInv, DemoProgress
<1>4. /\ demo.size \in Nat /\ demo.max \in Nat /\ lo \in Nat /\ hi \in Nat /\ lo >= 1
      /\ demo.max \in {0, 2, 3}
  BY <1>2, DemoFacts
<1>5. First(todo) = lo /\ rest = lo + 1 .. hi /\ (rest = {} <=> lo = hi)
  BY <1>3, <1>4, FirstOff DEF Between
<1> HIDE DEF rest
<1>6. ASSUME NEW k \in 1 .. lo PROVE ran[k] >= 1
  BY <1>1, <1>3, <1>4 DEF Between
<1>7. ASSUME mishaps = 0, NEW k \in 1 .. demo.size
      PROVE  ran[k] = IF k <= lo THEN 1 ELSE 0
  BY <1>1, <1>3, <1>4, <1>7 DEF Between
<1>8. key' = EndKey(lo)
  BY <1>1, <1>5
<1>9. CASE rest # {}
  <2>1. at' = "run" /\ chain' = chain /\ lo < hi
    BY <1>1, <1>3, <1>4, <1>5, <1>9 DEF Between
  <2>2. Between(lo + 1, hi)'
    <3>1. \A k \in 1 .. (lo + 1) - 1 : ran'[k] >= 1
      BY <1>1, <1>4, <1>6
    <3>2. mishaps' = 0 => \A k \in 1 .. demo.size : ran'[k] = IF k < lo + 1 THEN 1 ELSE 0
      BY <1>1, <1>4, <1>7
    <3>3. mishaps' = 0 =>
            IF demo.max = 0 THEN chain' = 1
            ELSE /\ demo.max * (chain' - 1) < lo + 1
                 /\ hi = IF demo.max * chain' < demo.size THEN demo.max * chain' ELSE demo.size
      <4>1. demo.max * (chain - 1) \in Int
        BY <1>2, <1>4
      <4> QED BY <1>1, <1>3, <1>4, <2>1, <4>1 DEF Between
    <3>4. todo' = lo + 1 .. hi /\ lo + 1 <= hi /\ (more' <=> hi < demo.size)
          /\ (demo.max = 0 => hi = demo.size)
      BY <1>1, <1>3, <1>4, <1>5, <2>1 DEF Between
    <3> QED BY <1>1, <2>1, <3>1, <3>2, <3>3, <3>4 DEF Between
  <2>3. lo + 1 \in 1 .. demo.size
    BY <1>4, <2>1
  <2>4. DemoProgress'
    BY <1>1, <2>1, <2>2, <2>3 DEF DemoProgress, DemoInv
  <2> QED BY <1>1, <1>2, <2>1, <2>4 DEF DemoInv, DemoTypeOK, FireSyncsAll
<1>10. CASE again
  <2>1. /\ chain' = chain + 1 /\ at' = Entry(chain + 1) /\ lo = hi /\ lo < demo.size
        /\ demo.max # 0
    BY <1>1, <1>3, <1>4, <1>5, <1>10 DEF Between
  <2>2. at' = "list"
    BY <1>2, <2>1, DemoFacts DEF Entry
  <2>3. Behind(lo)'
    <3>1. key' = IF lo = 0 THEN NoKey ELSE EndKey(lo)
      BY <1>4, <1>8
    <3>2. mishaps = 0 => lo = demo.max * (chain' - 1)
      <4> SUFFICES ASSUME mishaps = 0 PROVE lo = demo.max * (chain' - 1)
        OBVIOUS
      <4>1. hi = IF demo.max * chain < demo.size THEN demo.max * chain ELSE demo.size
        BY <1>3, <2>1 DEF Between
      <4>2. demo.max * chain \in Int /\ chain' - 1 = chain
        BY <1>2, <1>4, <2>1
      <4> QED BY <1>4, <2>1, <4>1, <4>2
    <3>3. /\ \A k \in 1 .. lo : ran'[k] >= 1
          /\ mishaps' = 0 => \A k \in 1 .. demo.size : ran'[k] = IF k <= lo THEN 1 ELSE 0
      BY <1>1, <1>6, <1>7
    <3> QED BY <1>1, <2>1, <3>1, <3>2, <3>3 DEF Behind
  <2>4. lo \in 0 .. demo.size - 1
    BY <1>4, <2>1
  <2>5. DemoProgress'
    BY <1>1, <2>2, <2>3, <2>4 DEF DemoProgress, DemoInv
  <2> QED BY <1>1, <1>2, <2>1, <2>2, <2>5 DEF DemoInv, DemoTypeOK, FireSyncsAll
<1>11. CASE rest = {} /\ ~more
  <2>1. at' = "done" /\ chain' = chain /\ lo = hi /\ lo = demo.size
    BY <1>1, <1>3, <1>4, <1>5, <1>11 DEF Between
  <2>2. FireSyncsAll'
    <3>1. \A k \in 1 .. demo.size : ran'[k] >= 1
      BY <1>1, <1>6, <2>1
    <3>2. mishaps = 0 => \A k \in 1 .. demo.size : ran'[k] = 1
      BY <1>1, <1>7, <2>1, <1>4
    <3>3. mishaps = 0 => chain = CASE demo.max = 2 -> 3 [] demo.max = 3 -> 4 [] OTHER -> 1
      <4> SUFFICES ASSUME mishaps = 0
                   PROVE  chain = CASE demo.max = 2 -> 3 [] demo.max = 3 -> 4 [] OTHER -> 1
        OBVIOUS
      <4>1. CASE demo.max = 0
        BY <1>3, <4>1 DEF Between
      <4>2. CASE demo.max = 2
        <5>1. 2 * (chain - 1) < 6 /\ 6 <= 2 * chain
          BY <1>2, <1>3, <2>1, <4>2, DemoFacts DEF Between
        <5> QED BY <1>2, <4>2, <5>1
      <4>3. CASE demo.max = 3
        <5>1. 3 * (chain - 1) < 10 /\ 10 <= 3 * chain
          BY <1>2, <1>3, <2>1, <4>3, DemoFacts DEF Between
        <5> QED BY <1>2, <4>3, <5>1
      <4> QED BY <1>4, <4>1, <4>2, <4>3
    <3> QED BY <1>1, <2>1, <3>1, <3>2, <3>3 DEF FireSyncsAll
  <2> QED BY <1>1, <1>2, <2>1, <2>2 DEF DemoInv, DemoTypeOK, DemoProgress
<1> QED BY <1>1, <1>9, <1>10, <1>11

LEMMA DemoFailsKeeps == ASSUME DemoInv, DemoFails PROVE DemoInv'
<1>1. /\ at # "idle" /\ at' = "failed" /\ mishaps' = mishaps + 1
      /\ UNCHANGED <<demo, key, todo, more, ran, chain, fires>>
  BY DEF DemoFails, Mishap
<1> QED BY <1>1 DEF DemoInv, DemoTypeOK, DemoProgress, FireSyncsAll

\* A new process has no cursor, so what is still to come only gets more.
LEMMA RestartKeeps == ASSUME DemoInv, RestartDemo PROVE DemoInv'
<1>1. /\ demo.resets # "never" /\ mishaps' = mishaps + 1 /\ key' = NoKey
      /\ UNCHANGED <<demo, at, todo, more, ran, chain, fires>>
  BY DEF RestartDemo, Mishap
<1>2. /\ demo \in Demos /\ mishaps \in Nat /\ mishaps' # 0
  BY <1>1 DEF DemoInv, DemoTypeOK
<1>3. Behind(0)' /\ 0 \in 0 .. demo.size - 1
  BY <1>1, <1>2, DemoFacts DEF Behind
<1>4. ASSUME at \in {"run", "advance"}
      PROVE  \E lo \in 1 .. demo.size, hi \in 1 .. demo.size : Between(lo, hi)'
  <2>1. PICK lo \in 1 .. demo.size, hi \in 1 .. demo.size : Between(lo, hi)
    BY <1>4 DEF DemoInv, DemoProgress
  <2>2. Between(lo, hi)'
    BY <1>1, <1>2, <2>1 DEF Between
  <2> QED BY <2>2
<1>5. DemoProgress'
  BY <1>1, <1>2, <1>3, <1>4 DEF DemoInv, DemoProgress
<1>6. FireSyncsAll'
  BY <1>1, <1>2 DEF DemoInv, FireSyncsAll
<1> QED BY <1>1, <1>2, <1>5, <1>6 DEF DemoInv, DemoTypeOK

LEMMA DemoSteps == DemoInv /\ [DemoNext]_demoVars => DemoInv'
<1> SUFFICES ASSUME DemoInv, [DemoNext]_demoVars PROVE DemoInv'
  OBVIOUS
<1>1. CASE UNCHANGED demoVars
  <2>1. /\ demo' = demo /\ at' = at /\ key' = key /\ todo' = todo /\ more' = more
        /\ ran' = ran /\ chain' = chain /\ mishaps' = mishaps /\ fires' = fires
    BY <1>1 DEF demoVars
  <2>2. DemoTypeOK' <=> DemoTypeOK
    BY <2>1 DEF DemoTypeOK
  <2>3. ASSUME NEW m PROVE Behind(m)' <=> Behind(m)
    BY <2>1 DEF Behind
  <2>4. ASSUME NEW lo, NEW hi PROVE Between(lo, hi)' <=> Between(lo, hi)
    BY <2>1 DEF Between
  <2>5. FireSyncsAll' <=> FireSyncsAll
    BY <2>1 DEF FireSyncsAll
  <2> QED BY <2>1, <2>2, <2>3, <2>4, <2>5 DEF DemoInv, DemoProgress
<1> QED BY <1>1, FireKeeps, ResetCursorKeeps, ListKeeps, ReadKeeps, RunKeeps,
           AdvanceKeeps, DemoFailsKeeps, RestartKeeps DEF DemoNext

\* However many fires, lost answers, failures and new processes: a fire that
\* ends well has run every partition, and undisturbed exactly once, in the
\* number of executions the comments of the programs give.
THEOREM FiresSync == ToolkitSpec => []FireSyncsAll
<1>1. DemoInv /\ [ToolkitNext]_toolkitVars => DemoInv'
  BY PartsStep, DemoSteps
<1>2. DemoInv => FireSyncsAll
  BY DEF DemoInv
<1> QED BY DemoStarts, <1>1, <1>2, PTL DEF ToolkitSpec, toolkitVars

-----------------------------------------------------------------------------
(* Sums over finite sets, by the smallest counterexample                   *)

LEMMA SmallestExists ==
  ASSUME NEW S \in SUBSET Nat, S # {}
  PROVE  \E x \in S : \A y \in S : x <= y
<1>1. OpToRel(<, Nat) = {p \in Nat \X Nat : p[1] < p[2]}
  BY DEF OpToRel
<1>2. PICK x \in S : \A y \in S : ~ (<<y, x>> \in {p \in Nat \X Nat : p[1] < p[2]})
  <2>1. \E x \in S : \A y \in S : ~ (<<y, x>> \in OpToRel(<, Nat))
    BY NatLessThanWellFounded, WFMin, Zenon
  <2> QED BY <1>1, <2>1, Zenon
<1>3. ASSUME NEW y \in S PROVE x <= y
  <2>1. x \in Nat /\ y \in Nat /\ <<y, x>> \in Nat \X Nat
    OBVIOUS
  <2> QED BY <1>2, <2>1
<1> QED BY <1>3

LEMMA SmallestSet ==
  ASSUME NEW C, C # {}, \A T \in C : IsFiniteSet(T)
  PROVE  \E T \in C : \A U \in C : Cardinality(T) <= Cardinality(U)
<1> DEFINE sizes == {Cardinality(T) : T \in C}
<1>1. sizes \in SUBSET Nat /\ sizes # {}
  BY FS_CardinalityType
<1>2. PICK n \in sizes : \A m \in sizes : n <= m
  BY <1>1, SmallestExists
<1> QED BY <1>2

\* The element that a fold takes next, and what the fold computes for every
\* subset of S.
Drawn(s) == CHOOSE x \in s : TRUE
Folding(f, S, g) ==
  g = [s \in SUBSET S |-> IF s = {} THEN 0 ELSE f[Drawn(s)] + g[s \ {Drawn(s)}]]

LEMMA DrawnIsIn ==
  ASSUME NEW s, s # {}, IsFiniteSet(s)
  PROVE  /\ Drawn(s) \in s
         /\ IsFiniteSet(s \ {Drawn(s)}) /\ Cardinality(s \ {Drawn(s)}) = Cardinality(s) - 1
<1>1. Drawn(s) \in s
  BY DEF Drawn
<1> QED BY <1>1, FS_RemoveElement

LEMMA FoldExists == ASSUME NEW f, NEW S, IsFiniteSet(S) PROVE \E g : Folding(f, S, g)
<1> DEFINE Part(n) == {s \in SUBSET S : Cardinality(s) <= n}
           UpTo(n, g) == g = [s \in Part(n) |->
                                IF s = {} THEN 0 ELSE f[Drawn(s)] + g[s \ {Drawn(s)}]]
           bad == {n \in Nat : ~ \E g : UpTo(n, g)}
<1>1. \A s \in SUBSET S : IsFiniteSet(s) /\ Cardinality(s) \in Nat
  BY FS_Subset, FS_CardinalityType
<1>2. ASSUME NEW n \in Nat, NEW g, n = 0 \/ UpTo(n - 1, g) PROVE \E h : UpTo(n, h)
  <2> DEFINE h == [s \in Part(n) |-> IF s = {} THEN 0 ELSE f[Drawn(s)] + g[s \ {Drawn(s)}]]
  <2>1. ASSUME NEW s \in Part(n), s # {} PROVE g[s \ {Drawn(s)}] = h[s \ {Drawn(s)}]
    <3> DEFINE t == s \ {Drawn(s)}
    <3>1. /\ Cardinality(s) <= n /\ Cardinality(s) \in Nat /\ Cardinality(t) \in Nat
          /\ Cardinality(t) = Cardinality(s) - 1 /\ t \in SUBSET S
      BY <1>1, <2>1, DrawnIsIn, FS_CardinalityType
    <3>2. n # 0 /\ t \in Part(n - 1) /\ t \in Part(n)
      BY <3>1
    <3>3. UpTo(n - 1, g)
      BY <1>2, <3>2
    <3> HIDE DEF t
    <3>4. g[t] = IF t = {} THEN 0 ELSE f[Drawn(t)] + g[t \ {Drawn(t)}]
      BY <3>2, <3>3
    <3>5. h[t] = IF t = {} THEN 0 ELSE f[Drawn(t)] + g[t \ {Drawn(t)}]
      BY <3>2
    <3> QED BY <3>4, <3>5 DEF t
  <2>2. UpTo(n, h)
    <3>1. h = [s \in Part(n) |-> h[s]]
      OBVIOUS
    <3>2. ASSUME NEW s \in Part(n)
          PROVE  h[s] = IF s = {} THEN 0 ELSE f[Drawn(s)] + h[s \ {Drawn(s)}]
      <4>1. h[s] = IF s = {} THEN 0 ELSE f[Drawn(s)] + g[s \ {Drawn(s)}]
        OBVIOUS
      <4> HIDE DEF h, Part
      <4> QED BY <2>1, <4>1
    <3> HIDE DEF h, Part
    <3> QED BY <3>1, <3>2
  <2> QED BY <2>2
<1>3. bad = {}
  <2> SUFFICES ASSUME bad # {} PROVE FALSE
    OBVIOUS
  <2>1. bad \in SUBSET Nat /\ \A n \in Nat : n \in bad \/ \E g : UpTo(n, g)
    OBVIOUS
  <2>2. \A n \in bad : ~ \E g : UpTo(n, g)
    OBVIOUS
  <2> HIDE DEF bad, UpTo
  <2>3. PICK n \in bad : \A m \in bad : n <= m
    BY <2>1, SmallestExists
  <2>4. n \in Nat /\ (n = 0 \/ (n - 1 \in Nat /\ n - 1 \notin bad))
    BY <2>1, <2>3
  <2>5. \E g : n = 0 \/ UpTo(n - 1, g)
    BY <2>1, <2>4
  <2> QED BY <1>2, <2>2, <2>4, <2>5
<1>4. Cardinality(S) \in Nat /\ Part(Cardinality(S)) = SUBSET S
  BY FS_Subset, FS_CardinalityType
<1>5. \E g : UpTo(Cardinality(S), g)
  BY <1>3, <1>4
<1> HIDE DEF Part
<1> QED BY <1>4, <1>5 DEF Folding

\* The fold over a set does on a subset what the fold over the subset does.
LEMMA FoldsAgree ==
  ASSUME NEW f, NEW S, IsFiniteSet(S), NEW U \in SUBSET S,
         NEW g, Folding(f, S, g), NEW h, Folding(f, U, h), NEW r \in SUBSET U
  PROVE  g[r] = h[r]
<1> DEFINE bad == {s \in SUBSET U : g[s] # h[s]}
<1> SUFFICES ASSUME bad # {} PROVE FALSE
  OBVIOUS
<1>1. \A s \in SUBSET U : IsFiniteSet(s) /\ Cardinality(s) \in Nat
  BY FS_Subset, FS_CardinalityType
<1>2. PICK s \in bad : \A t \in bad : Cardinality(s) <= Cardinality(t)
  BY <1>1, SmallestSet
<1>3. /\ g[s] = IF s = {} THEN 0 ELSE f[Drawn(s)] + g[s \ {Drawn(s)}]
      /\ h[s] = IF s = {} THEN 0 ELSE f[Drawn(s)] + h[s \ {Drawn(s)}]
  BY DEF Folding
<1>4. s # {}
  BY <1>3
<1>5. s \ {Drawn(s)} \in SUBSET U /\ Cardinality(s \ {Drawn(s)}) < Cardinality(s)
  BY <1>1, <1>4, DrawnIsIn
<1>6. g[s \ {Drawn(s)}] = h[s \ {Drawn(s)}]
  BY <1>1, <1>2, <1>5
<1> QED BY <1>3, <1>6

LEMMA SumIsFold ==
  ASSUME NEW f, NEW S
  PROVE  SumFunctionOnSet(f, S) = (CHOOSE g : Folding(f, S, g))[S]
BY DEF SumFunctionOnSet, FoldFunctionOnSet, MapThenFoldSet, Folding, Drawn

LEMMA SumStep ==
  ASSUME NEW f, NEW S, IsFiniteSet(S)
  PROVE  SumFunctionOnSet(f, S) =
           IF S = {} THEN 0 ELSE f[Drawn(S)] + SumFunctionOnSet(f, S \ {Drawn(S)})
<1> DEFINE U == S \ {Drawn(S)}
           g == CHOOSE e : Folding(f, S, e)
           h == CHOOSE e : Folding(f, U, e)
<1>1. IsFiniteSet(U) /\ U \in SUBSET S
  BY FS_Subset
<1>2. Folding(f, S, g)
  BY FoldExists
<1>3. Folding(f, U, h)
  BY <1>1, FoldExists
<1>4. SumFunctionOnSet(f, S) = g[S] /\ SumFunctionOnSet(f, U) = h[U]
  BY SumIsFold
<1> HIDE DEF g, h
<1>5. g[U] = h[U]
  <2> HIDE DEF U
  <2>1. U \in SUBSET U
    OBVIOUS
  <2> QED BY <1>1, <1>2, <1>3, <2>1, FoldsAgree
<1>6. g[S] = IF S = {} THEN 0 ELSE f[Drawn(S)] + g[U]
  BY <1>2 DEF Folding
<1> QED BY <1>4, <1>5, <1>6

LEMMA SumIsNat ==
  ASSUME NEW f, NEW S, IsFiniteSet(S), \A x \in S : f[x] \in Nat
  PROVE  \A T \in SUBSET S : SumFunctionOnSet(f, T) \in Nat
<1> DEFINE bad == {T \in SUBSET S : SumFunctionOnSet(f, T) \notin Nat}
<1> SUFFICES ASSUME bad # {} PROVE FALSE
  OBVIOUS
<1>1. \A T \in SUBSET S : IsFiniteSet(T) /\ Cardinality(T) \in Nat
  BY FS_Subset, FS_CardinalityType
<1>2. PICK T \in bad : \A U \in bad : Cardinality(T) <= Cardinality(U)
  BY <1>1, SmallestSet
<1>3. SumFunctionOnSet(f, T) =
        IF T = {} THEN 0 ELSE f[Drawn(T)] + SumFunctionOnSet(f, T \ {Drawn(T)})
  BY <1>1, SumStep
<1>4. T # {}
  BY <1>3
<1>5. /\ T \ {Drawn(T)} \in SUBSET S /\ Cardinality(T \ {Drawn(T)}) < Cardinality(T)
      /\ Drawn(T) \in S
  BY <1>1, <1>4, DrawnIsIn
<1>6. SumFunctionOnSet(f, T \ {Drawn(T)}) \in Nat
  BY <1>1, <1>2, <1>5
<1> QED BY <1>3, <1>5, <1>6

\* A sum does not depend on the order in which the fold takes the elements.
LEMMA SumAnyOrder ==
  ASSUME NEW f, NEW S, IsFiniteSet(S), \A x \in S : f[x] \in Nat
  PROVE  \A T \in SUBSET S : \A x \in T :
           SumFunctionOnSet(f, T) = f[x] + SumFunctionOnSet(f, T \ {x})
<1> DEFINE Whole(T) == SumFunctionOnSet(f, T)
           bad == {T \in SUBSET S : \E x \in T : Whole(T) # f[x] + Whole(T \ {x})}
<1> SUFFICES ASSUME bad # {} PROVE FALSE
  OBVIOUS
<1>1. \A T \in SUBSET S : IsFiniteSet(T) /\ Cardinality(T) \in Nat
  BY FS_Subset, FS_CardinalityType
<1>2. PICK T \in bad : \A U \in bad : Cardinality(T) <= Cardinality(U)
  BY <1>1, SmallestSet
<1>3. PICK x \in T : Whole(T) # f[x] + Whole(T \ {x})
  OBVIOUS
<1> DEFINE y == Drawn(T)
<1>4. y \in T /\ Whole(T) = f[y] + Whole(T \ {y})
  BY <1>1, <1>3, SumStep, DrawnIsIn
<1>5. x # y
  BY <1>3, <1>4
<1> HIDE DEF y
<1>6. ASSUME NEW z \in T, NEW w \in T \ {z}
      PROVE  Whole(T \ {z}) = f[w] + Whole((T \ {z}) \ {w})
  <2> DEFINE V == T \ {z}
  <2>1. Cardinality(V) = Cardinality(T) - 1
    BY <1>1, FS_RemoveElement
  <2>2. V \in SUBSET S /\ T \in SUBSET S /\ w \in V
    OBVIOUS
  <2> HIDE DEF V
  <2>3. Cardinality(V) \in Nat /\ Cardinality(T) \in Nat
    BY <1>1, <2>2
  <2>4. ~(Cardinality(T) <= Cardinality(V))
    BY <2>1, <2>3
  <2>5. V \notin bad
    BY <1>2, <2>4
  <2>6. Whole(V) = f[w] + Whole(V \ {w})
    BY <2>2, <2>5
  <2> QED BY <2>6 DEF V
<1>7. Whole(T \ {y}) = f[x] + Whole((T \ {y}) \ {x})
  BY <1>4, <1>5, <1>6
<1>8. Whole(T \ {x}) = f[y] + Whole((T \ {x}) \ {y})
  BY <1>4, <1>5, <1>6
<1>9. (T \ {y}) \ {x} = (T \ {x}) \ {y}
  OBVIOUS
<1>10. f[x] \in Nat /\ f[y] \in Nat /\ Whole((T \ {x}) \ {y}) \in Nat
  BY <1>4, SumIsNat
<1> DEFINE all == Whole(T)  rest == Whole((T \ {x}) \ {y})
<1>11. /\ all # f[x] + Whole(T \ {x}) /\ all = f[y] + Whole(T \ {y})
       /\ Whole(T \ {y}) = f[x] + rest /\ Whole(T \ {x}) = f[y] + rest
  BY <1>3, <1>4, <1>7, <1>8, <1>9
<1>12. rest \in Nat
  BY <1>10
<1> HIDE DEF Whole, all, rest
<1> QED BY <1>10, <1>11, <1>12

LEMMA SumAdds ==
  ASSUME NEW f, NEW S, IsFiniteSet(S), \A x \in S : f[x] \in Nat,
         NEW T \in SUBSET S, NEW x \in S, x \notin T
  PROVE  SumFunctionOnSet(f, T \union {x}) = SumFunctionOnSet(f, T) + f[x]
<1> DEFINE U == T \union {x}
<1>1. U \in SUBSET S /\ x \in U /\ U \ {x} = T
  OBVIOUS
<1> HIDE DEF U
<1>2. SumFunctionOnSet(f, U) = f[x] + SumFunctionOnSet(f, U \ {x})
  BY <1>1, SumAnyOrder
<1>3. f[x] \in Nat /\ SumFunctionOnSet(f, T) \in Nat
  BY SumIsNat
<1>4. SumFunctionOnSet(f, U) = SumFunctionOnSet(f, T) + f[x]
  BY <1>1, <1>2, <1>3
<1> QED BY <1>4 DEF U

LEMMA SumGrows ==
  ASSUME NEW f, NEW S, IsFiniteSet(S), \A x \in S : f[x] \in Nat, NEW T \in SUBSET S
  PROVE  SumFunctionOnSet(f, T) <= SumFunctionOnSet(f, S)
<1> DEFINE Whole(U) == SumFunctionOnSet(f, U)
           bad == {U \in SUBSET S : T \subseteq U /\ ~(Whole(T) <= Whole(U))}
<1> SUFFICES ASSUME bad # {} PROVE FALSE
  OBVIOUS
<1>1. \A U \in SUBSET S : IsFiniteSet(U) /\ Cardinality(U) \in Nat /\ Whole(U) \in Nat
  BY FS_Subset, FS_CardinalityType, SumIsNat
<1>2. PICK U \in bad : \A V \in bad : Cardinality(U) <= Cardinality(V)
  BY <1>1, SmallestSet
<1>3. PICK x \in U \ T : TRUE
  BY <1>1
<1>4. U \ {x} \in SUBSET S /\ T \subseteq U \ {x} /\ Cardinality(U \ {x}) < Cardinality(U)
  BY <1>1, <1>3, FS_RemoveElement
<1>5. Whole(T) <= Whole(U \ {x})
  BY <1>1, <1>2, <1>4
<1>6. Whole(U) = f[x] + Whole(U \ {x})
  BY <1>3, SumAnyOrder
<1>7. f[x] \in Nat /\ Whole(U \ {x}) \in Nat /\ Whole(T) \in Nat
  BY <1>1, <1>3, <1>4
<1> HIDE DEF Whole
<1> QED BY <1>5, <1>6, <1>7

-----------------------------------------------------------------------------
(* Extraction                                                              *)

Files == {path \in DOMAIN tree : IsFile(path)}
Blocks(paths) == SumFunctionOnSet(tree, paths)

\* The files among the entries before n.
FilesBefore(n) == {path \in Files : \E k \in 1 .. n - 1 : archive[k] = path}

\* The total is counted exactly.
Counted == limit < WordMax \/ Blocks(Files) <= WordMax

Archived ==
  outcome \in {"ready", "unpack", "Ok", "Limit"} \/ (outcome = "Io" /\ attempts > 0)

ExtractTypeOK ==
  /\ IsFiniteSet(DOMAIN tree) /\ tree \in [DOMAIN tree -> TreeSizes]
  /\ archive \in Seq(DOMAIN tree)
  /\ limit \in 0 .. WordMax /\ total \in Nat /\ attempts \in Nat
  /\ next \in Nat /\ next >= 1 /\ next <= Len(archive) + 1
  /\ DOMAIN disk = DOMAIN tree

\* An archive has no path twice, no special file, and unless a tail was lost
\* every path.
ArchiveIsTree ==
  /\ \A j, k \in 1 .. Len(archive) : archive[j] = archive[k] => j = k
  /\ \A k \in 1 .. Len(archive) : tree[archive[k]] # Special
  /\ Archived /\ ~lossy =>
       \A path \in DOMAIN tree : tree[path] # Special =>
         \E k \in 1 .. Len(archive) : archive[k] = path
  /\ outcome = "pack" => attempts = 0 /\ archive = <<>> /\ next = 1 /\ total = 0

UnpackSoFar ==
  outcome = "unpack" =>
    /\ total <= limit /\ total <= Blocks(FilesBefore(next))
    /\ Counted =>
         /\ total = Blocks(FilesBefore(next))
         /\ ~lossy => \A k \in 1 .. next - 1 : disk[archive[k]] = tree[archive[k]]

ExtractInv == ExtractTypeOK /\ ArchiveIsTree /\ UnpackSoFar /\ LimitsHold

LEMMA ExtractStarts == ToolkitInit => ExtractInv
<1> SUFFICES ASSUME ToolkitInit PROVE ExtractInv
  OBVIOUS
<1> DEFINE inputs == ExtractInputs(Trees)
<1>1. inputs # {}
  <2>1. PICK t \in Trees : TRUE
    BY ToolkitAssumption DEF ToolkitAssumption
  <2>2. [recipe |-> "tar", tree |-> t, sparse |-> {}] \in inputs
    BY <2>1 DEF ExtractInputs, Recipes, Tars
  <2> QED BY <2>2
<1> HIDE DEF inputs
<1>2. PICK i \in inputs : ExtractStart(i)
  BY <1>1, GivenIsInput DEF ToolkitInit, inputs
<1>3. tree \in Trees
  BY <1>2 DEF inputs, ExtractInputs, ExtractStart
<1>4. IsFiniteSet(DOMAIN tree) /\ tree \in [DOMAIN tree -> TreeSizes]
  BY <1>3, ToolkitAssumption DEF ToolkitAssumption
<1>5. /\ archive = <<>> /\ limit = 0 /\ next = 1 /\ total = 0 /\ outcome = "pack"
      /\ attempts = 0 /\ DOMAIN disk = DOMAIN tree
  BY <1>2 DEF ExtractStart
<1>6. WordMax \in Nat
  BY ExtractionAssumption DEF ExtractionAssumption
<1>7. ExtractTypeOK
  BY <1>4, <1>5, <1>6 DEF ExtractTypeOK
<1>8. LimitsHold
  BY <1>5, <1>6 DEF LimitsHold, SatAdd
<1> QED BY <1>5, <1>7, <1>8 DEF ExtractInv, ArchiveIsTree, UnpackSoFar, Archived

\* What the files of a tree sum up to.
LEMMA BlocksFacts ==
  ASSUME ExtractTypeOK
  PROVE  /\ IsFiniteSet(Files) /\ \A path \in Files : tree[path] \in Nat
         /\ \A paths \in SUBSET Files :
              Blocks(paths) \in Nat /\ Blocks(paths) <= Blocks(Files)
         /\ Blocks({}) = 0
<1>1. IsFiniteSet(Files)
  BY FS_Subset DEF Files, ExtractTypeOK
<1>2. \A path \in Files : tree[path] \in Nat
  BY DEF Files, IsFile, HasBytes, ExtractTypeOK, TreeSizes, Dir, Special
<1>3. ASSUME NEW paths \in SUBSET Files
      PROVE  Blocks(paths) \in Nat /\ Blocks(paths) <= Blocks(Files)
  <2>1. \A T \in SUBSET Files : SumFunctionOnSet(tree, T) \in Nat
    BY <1>1, <1>2, SumIsNat
  <2> QED BY <1>1, <1>2, <2>1, SumGrows DEF Blocks
<1>4. Blocks({}) = 0
  <2>1. IsFiniteSet({})
    BY FS_EmptySet
  <2> QED BY <2>1, SumStep DEF Blocks
<1> QED BY <1>1, <1>2, <1>3, <1>4

\* One more entry before n.
LEMMA FilesBeforeNext ==
  ASSUME ExtractTypeOK, ArchiveIsTree, next <= Len(archive)
  PROVE  /\ archive[next] \in DOMAIN tree /\ FilesBefore(next) \in SUBSET Files
         /\ IsFile(archive[next]) =>
              /\ archive[next] \in Files /\ archive[next] \notin FilesBefore(next)
              /\ FilesBefore(next + 1) = FilesBefore(next) \union {archive[next]}
              /\ Blocks(FilesBefore(next + 1)) = Blocks(FilesBefore(next)) + tree[archive[next]]
         /\ ~IsFile(archive[next]) => FilesBefore(next + 1) = FilesBefore(next)
<1>1. next \in 1 .. Len(archive) /\ next \in Nat /\ Len(archive) \in Nat
  BY DEF ExtractTypeOK
<1>2. archive[next] \in DOMAIN tree
  BY <1>1 DEF ExtractTypeOK
<1>3. FilesBefore(next) \in SUBSET Files
  BY DEF FilesBefore
<1>4. \A k : k \in 1 .. (next + 1) - 1 <=> (k \in 1 .. next - 1 \/ k = next)
  BY <1>1
<1>5. ASSUME IsFile(archive[next])
      PROVE  /\ archive[next] \in Files /\ archive[next] \notin FilesBefore(next)
             /\ FilesBefore(next + 1) = FilesBefore(next) \union {archive[next]}
             /\ Blocks(FilesBefore(next + 1)) = Blocks(FilesBefore(next)) + tree[archive[next]]
  <2>1. archive[next] \in Files
    BY <1>2, <1>5 DEF Files
  <2>2. archive[next] \notin FilesBefore(next)
    <3>1. \A k \in 1 .. next - 1 : k \in 1 .. Len(archive) /\ k # next
      BY <1>1
    <3> QED BY <1>1, <3>1 DEF FilesBefore, ArchiveIsTree
  <2>3. FilesBefore(next + 1) = FilesBefore(next) \union {archive[next]}
    BY <1>4, <2>1 DEF FilesBefore
  <2>4. Blocks(FilesBefore(next) \union {archive[next]})
          = Blocks(FilesBefore(next)) + tree[archive[next]]
    BY <1>3, <2>1, <2>2, BlocksFacts, SumAdds DEF Blocks
  <2> QED BY <2>1, <2>2, <2>3, <2>4
<1>6. ASSUME ~IsFile(archive[next]) PROVE FilesBefore(next + 1) = FilesBefore(next)
  <2>1. archive[next] \notin Files
    BY <1>6 DEF Files
  <2> QED BY <1>4, <2>1 DEF FilesBefore
<1> QED BY <1>2, <1>3, <1>5, <1>6

\* The archive lists what it packs, each path once.
LEMMA PackKeeps == ASSUME ExtractInv, Pack PROVE ExtractInv'
<1> DEFINE packed == {path \in DOMAIN tree : tree[path] # Special}
<1>1. /\ outcome = "pack" /\ outcome' = "ready"
      /\ UNCHANGED <<tree, sparse, limit, next, total, disk, attempts>>
  BY DEF Pack, fixed
<1>2. PICK order \in SetToSeqs(packed) :
        \/ archive' = order /\ lossy' = lossy
        \/ archive' = Front(order) /\ lossy' = TRUE
  BY DEF Pack
<1>3. ExtractTypeOK /\ next = 1 /\ total = 0 /\ WordMax \in Nat
  BY <1>1, ExtractionAssumption DEF ExtractInv, ArchiveIsTree, ExtractionAssumption
<1>4. IsFiniteSet(packed) /\ Cardinality(packed) \in Nat
  BY <1>3, FS_Subset, FS_CardinalityType DEF ExtractTypeOK
<1> DEFINE n == Cardinality(packed)
<1>5. order \in [1 .. n -> packed] /\ \A i, j \in 1 .. n : i # j => order[i] # order[j]
  BY <1>2 DEF SetToSeqs
<1>6. \A path \in packed : \E k \in 1 .. n : order[k] = path
  <2>1. order \in Injection(1 .. n, packed)
    BY <1>5 DEF Injection, IsInjective
  <2>2. IsFiniteSet(1 .. n) /\ Cardinality(1 .. n) = n
    BY <1>4, FS_Interval
  <2>3. order \in Surjection(1 .. n, packed)
    BY <1>4, <2>1, <2>2, FS_Injection
  <2> QED BY <2>3 DEF Surjection
<1>7. packed \subseteq DOMAIN tree /\ \A path \in packed : tree[path] # Special
  OBVIOUS
<1>8. \A path \in DOMAIN tree : tree[path] # Special => path \in packed
  OBVIOUS
<1> HIDE DEF packed
<1>9. order \in Seq(DOMAIN tree) /\ Len(order) = n
  BY <1>4, <1>5, <1>7
<1>10. /\ archive' \in Seq(DOMAIN tree) /\ Len(archive') <= n
       /\ \A k \in 1 .. Len(archive') : archive'[k] = order[k]
       /\ ~lossy' => archive' = order
  <2>1. CASE archive' = order /\ lossy' = lossy
    BY <1>4, <1>9, <2>1
  <2>2. CASE archive' = Front(order) /\ lossy' = TRUE
    <3>1. archive' = SubSeq(order, 1, n - 1)
      BY <1>9, <2>2 DEF Front
    <3>2. CASE n # 0
      <4>1. /\ archive' \in Seq(DOMAIN tree) /\ Len(archive') = n - 1
            /\ \A k \in 1 .. n - 1 : archive'[k] = order[k]
        BY <1>4, <1>9, <3>1, <3>2, SubSeqProperties
      <4> QED BY <1>4, <2>2, <4>1
    <3>3. CASE n = 0
      <4>1. archive' = <<>>
        BY <1>9, <3>1, <3>3
      <4> QED BY <1>4, <2>2, <4>1
    <3> QED BY <3>2, <3>3
  <2> QED BY <1>2, <2>1, <2>2
<1>11. \A k \in 1 .. Len(archive') : k \in 1 .. n
  BY <1>4, <1>10
<1>12. ExtractTypeOK'
  BY <1>1, <1>3, <1>10 DEF ExtractTypeOK
<1>13. ArchiveIsTree'
  <2>1. \A j, k \in 1 .. Len(archive') : archive'[j] = archive'[k] => j = k
    BY <1>5, <1>10, <1>11
  <2>2. \A k \in 1 .. Len(archive') : tree[archive'[k]] # Special
    BY <1>5, <1>7, <1>10, <1>11
  <2>3. ~lossy' => \A path \in DOMAIN tree : tree[path] # Special =>
                     \E k \in 1 .. Len(archive') : archive'[k] = path
    BY <1>6, <1>8, <1>9, <1>10
  <2> QED BY <1>1, <2>1, <2>2, <2>3 DEF ArchiveIsTree
<1>14. LimitsHold'
  BY <1>1 DEF ExtractInv, LimitsHold, SatAdd
<1> QED BY <1>1, <1>12, <1>13, <1>14 DEF ExtractInv, UnpackSoFar

LEMMA PackFailsKeeps == ASSUME ExtractInv, PackFails PROVE ExtractInv'
<1>1. /\ outcome = "pack" /\ outcome' \in {"Io", "InvalidSource"}
      /\ UNCHANGED <<tree, sparse, archive, limit, next, total, disk, lossy, attempts>>
  BY DEF PackFails, fixed
<1>2. attempts = 0
  BY <1>1 DEF ExtractInv, ArchiveIsTree
<1>3. ExtractTypeOK'
  BY <1>1 DEF ExtractInv, ExtractTypeOK
<1>4. ArchiveIsTree'
  BY <1>1, <1>2 DEF ExtractInv, ArchiveIsTree, Archived
<1>5. LimitsHold'
  BY <1>1 DEF ExtractInv, LimitsHold, SatAdd
<1> QED BY <1>1, <1>3, <1>4, <1>5 DEF ExtractInv, UnpackSoFar

LEMMA SatAddIsNat ==
  ASSUME NEW a \in Nat
  PROVE  SatAdd(a, 1) \in Nat /\ 0 <= SatAdd(a, 1)
BY ExtractionAssumption DEF SatAdd, ExtractionAssumption

LEMMA ExtractKeeps == ASSUME ExtractInv, Extract PROVE ExtractInv'
<1>1. /\ Archived /\ attempts' = attempts + 1 /\ limit' \in 0 .. WordMax /\ next' = 1
      /\ total' = 0 /\ outcome' = "unpack" /\ UNCHANGED <<tree, sparse, archive, disk, lossy>>
  BY DEF Extract, fixed, Archived
<1>2. WordMax \in Nat /\ ExtractTypeOK
  BY ExtractionAssumption DEF ExtractionAssumption, ExtractInv
<1>3. ExtractTypeOK'
  BY <1>1, <1>2 DEF ExtractTypeOK
<1>4. ArchiveIsTree'
  BY <1>1 DEF ExtractInv, ArchiveIsTree
<1>5. Blocks(FilesBefore(1))' = 0
  <2>1. FilesBefore(1)' = {}
    BY <1>1 DEF FilesBefore
  <2>2. Blocks({})' = 0
    BY <1>1, <1>2, BlocksFacts DEF Blocks
  <2> QED BY <2>1, <2>2 DEF Blocks
<1>6. UnpackSoFar'
  BY <1>1, <1>2, <1>5 DEF UnpackSoFar
<1>7. LimitsHold'
  <2>1. limit' \in Nat
    BY <1>2, <1>3 DEF ExtractTypeOK
  <2>2. PICK l \in Nat : l = limit'
    BY <2>1
  <2>3. SatAdd(limit, 1)' = SatAdd(l, 1)
    BY <2>2 DEF SatAdd
  <2>4. total' <= SatAdd(limit, 1)'
    BY <1>1, <2>3, SatAddIsNat
  <2> QED BY <1>1, <2>4 DEF LimitsHold
<1> QED BY <1>3, <1>4, <1>6, <1>7 DEF ExtractInv

LEMMA MinOfTwo ==
  ASSUME NEW a \in Int, NEW b \in Int
  PROVE  Min({a, b}) = IF a <= b THEN a ELSE b
BY DEF Min

LEMMA CopyFileKeeps == ASSUME ExtractInv, CopyFile PROVE ExtractInv'
<1> DEFINE path == archive[next]
           written == Min({tree[path], Allowance})
<1>1. /\ outcome = "unpack" /\ next <= Len(archive) /\ IsFile(path)
      /\ total' = SatAdd(total, written)
      /\ IF total' > limit THEN outcome' = "Limit" /\ next' = next
         ELSE next' = next + 1 /\ outcome' = outcome
      /\ UNCHANGED <<tree, sparse, archive, limit, attempts>>
  BY DEF CopyFile, fixed, Path, Writes
<1>2. PICK kept \in {written, SatSub(written, 1)} :
        /\ disk' = [disk EXCEPT ![path] = kept]
        /\ lossy' = (lossy \/ kept < written)
  BY <1>1 DEF CopyFile, Path, Writes
<1>3. /\ ExtractTypeOK /\ ArchiveIsTree /\ WordMax \in Nat /\ limit \in Nat /\ limit <= WordMax
      /\ total \in Nat /\ total <= limit /\ total <= Blocks(FilesBefore(next))
  BY <1>1, ExtractionAssumption DEF ExtractInv, ExtractTypeOK, UnpackSoFar, ExtractionAssumption
<1>4. /\ path \in Files /\ tree[path] \in Nat /\ FilesBefore(next) \in SUBSET Files
      /\ Blocks(FilesBefore(next + 1)) = Blocks(FilesBefore(next)) + tree[path]
      /\ FilesBefore(next + 1) \in SUBSET Files /\ path \in DOMAIN tree
  BY <1>1, <1>3, FilesBeforeNext, BlocksFacts DEF FilesBefore
<1>5. /\ Blocks(FilesBefore(next)) \in Nat /\ Blocks(Files) \in Nat
      /\ Blocks(FilesBefore(next)) + tree[path] <= Blocks(Files)
  BY <1>3, <1>4, BlocksFacts
<1> DEFINE blocks == tree[path]
           before == Blocks(FilesBefore(next))
           all == Blocks(Files)
<1>6. Allowance = IF limit - total + 1 > WordMax THEN WordMax ELSE limit - total + 1
  BY <1>3 DEF Allowance, SatAdd, SatSub
<1>7. /\ written = IF blocks <= Allowance THEN blocks ELSE Allowance
      /\ Allowance \in Nat
  <2>1. Allowance \in Nat
    BY <1>3, <1>6
  <2> QED BY <1>4, <2>1, MinOfTwo
<1>8. /\ blocks \in Nat /\ before \in Nat /\ all \in Nat /\ before + blocks <= all
      /\ total <= before
  BY <1>3, <1>4, <1>5
<1> HIDE DEF blocks, before, all
<1>9. /\ written \in Nat /\ written <= blocks /\ written <= limit - total + 1
  BY <1>3, <1>6, <1>7, <1>8
<1>10. total' = IF total + written > WordMax THEN WordMax ELSE total + written
  BY <1>1 DEF SatAdd
<1> DEFINE w == written
<1>11. w \in Nat /\ w <= blocks /\ w <= limit - total + 1 /\ total' \in Nat
       /\ total' = IF total + w > WordMax THEN WordMax ELSE total + w
  BY <1>3, <1>9, <1>10
<1>12. total' <= total + w /\ total' <= before + blocks
  <2> HIDE DEF w
  <2> QED BY <1>3, <1>8, <1>11
<1>13. total' <= SatAdd(limit, 1)
  <2> HIDE DEF w
  <2> QED BY <1>3, <1>11 DEF SatAdd
<1>14. ASSUME total' <= limit, limit < WordMax \/ all <= WordMax
       PROVE  w = blocks /\ total' = total + blocks
  <2>1. Allowance = IF limit - total + 1 > WordMax THEN WordMax ELSE limit - total + 1
    BY <1>6
  <2>2. w = IF blocks <= Allowance THEN blocks ELSE Allowance
    BY <1>7
  <2>3. total + blocks <= all \/ total > before
    BY <1>3, <1>8
  <2> HIDE DEF w
  <2>4. CASE limit < WordMax
    BY <1>3, <1>8, <1>11, <1>14, <2>1, <2>2, <2>4
  <2>5. CASE all <= WordMax /\ limit = WordMax
    <3>1. total + blocks <= WordMax
      BY <1>3, <1>8, <2>5
    <3>2. blocks <= Allowance
      BY <1>3, <1>8, <2>1, <2>5, <3>1
    <3> QED BY <1>3, <1>8, <1>11, <2>2, <3>1, <3>2
  <2> QED BY <1>3, <1>14, <2>4, <2>5
<1>15. ExtractTypeOK'
  <2>1. next' \in Nat /\ next' >= 1 /\ next' <= Len(archive) + 1
    BY <1>1, <1>3 DEF ExtractTypeOK
  <2>2. DOMAIN disk' = DOMAIN tree
    BY <1>2, <1>3 DEF ExtractTypeOK
  <2> QED BY <1>1, <1>3, <1>11, <2>1, <2>2 DEF ExtractTypeOK
<1>16. ~lossy' => ~lossy /\ (disk' = [disk EXCEPT ![path] = w])
  <2>1. SatSub(w, 1) \in Nat /\ (SatSub(w, 1) < w \/ SatSub(w, 1) = w)
    <3> HIDE DEF w
    <3> QED BY <1>11 DEF SatSub
  <2>2. kept = w \/ kept < w
    BY <2>1
  <2> QED BY <1>2, <2>2
<1>17. ArchiveIsTree'
  BY <1>1, <1>3, <1>16 DEF ArchiveIsTree, Archived
<1>18. CASE total' > limit
  <2>1. outcome' = "Limit" /\ next' = next
    BY <1>1, <1>18
  <2>2. SumFunctionOnSet(tree', {p \in DOMAIN tree' : IsFile(p)'}) = all
    BY <1>1 DEF all, Blocks, Files, IsFile, HasBytes
  <2>3. all > limit'
    BY <1>1, <1>3, <1>8, <1>11, <1>12, <1>18
  <2>4. total' <= SatAdd(limit, 1)'
    BY <1>1, <1>13 DEF SatAdd
  <2>5. LimitsHold'
    BY <2>1, <2>2, <2>3, <2>4 DEF LimitsHold, IsFile, HasBytes
  <2> QED BY <1>15, <1>17, <2>1, <2>5 DEF ExtractInv, UnpackSoFar
<1>19. CASE ~(total' > limit)
  <2>1. /\ outcome' = "unpack" /\ next' = next + 1 /\ total' <= limit
    BY <1>1, <1>3, <1>11, <1>19
  <2>2. Blocks(FilesBefore(next))' = before + blocks
    BY <1>1, <1>4, <2>1 DEF Blocks, FilesBefore, Files, IsFile, HasBytes, before, blocks
  <2>3. Counted' => limit < WordMax \/ all <= WordMax
    BY <1>1 DEF Counted, all, Blocks, Files, IsFile, HasBytes
  <2>4. ASSUME Counted' PROVE total' = before + blocks /\ w = blocks
    <3>1. w = blocks /\ total' = total + blocks
      BY <1>14, <2>1, <2>3, <2>4
    <3>2. total = before
      <4>1. Counted
        BY <1>1, <2>4 DEF Counted, Blocks, Files, IsFile, HasBytes
      <4> QED BY <1>1, <4>1 DEF ExtractInv, UnpackSoFar, before
    <3> QED BY <3>1, <3>2
  <2>5. ASSUME Counted', ~lossy', NEW k \in 1 .. next' - 1
        PROVE  disk'[archive'[k]] = tree'[archive'[k]]
    <3>1. k \in 1 .. next - 1 \/ k = next
      BY <1>3, <2>1 DEF ExtractTypeOK
    <3>2. Counted /\ ~lossy /\ disk' = [disk EXCEPT ![path] = blocks]
      BY <1>1, <1>16, <2>4, <2>5 DEF Counted, Blocks, Files, IsFile, HasBytes
    <3>3. CASE k = next
      BY <1>1, <1>3, <1>4, <3>2, <3>3 DEF ExtractTypeOK, blocks
    <3>4. CASE k \in 1 .. next - 1
      <4>1. disk[archive[k]] = tree[archive[k]]
        BY <1>1, <3>2, <3>4 DEF ExtractInv, UnpackSoFar
      <4>2. k \in 1 .. Len(archive) /\ next \in 1 .. Len(archive) /\ k # next
        BY <1>1, <1>3, <3>4 DEF ExtractTypeOK
      <4>3. archive[k] # path /\ archive[k] \in DOMAIN disk
        BY <1>3, <4>2 DEF ArchiveIsTree, ExtractTypeOK
      <4> QED BY <1>1, <3>2, <4>1, <4>3
    <3> QED BY <3>1, <3>3, <3>4
  <2>6. UnpackSoFar'
    BY <1>1, <1>12, <2>1, <2>2, <2>4, <2>5 DEF UnpackSoFar
  <2>7. LimitsHold'
    <3>1. total' <= SatAdd(limit, 1)'
      BY <1>1, <1>13 DEF SatAdd
    <3> QED BY <2>1, <3>1 DEF LimitsHold
  <2> QED BY <1>15, <1>17, <2>6, <2>7 DEF ExtractInv
<1> QED BY <1>18, <1>19

LEMMA UnpackEntryKeeps == ASSUME ExtractInv, UnpackEntry PROVE ExtractInv'
<1> DEFINE path == archive[next]
<1>1. /\ outcome = "unpack" /\ next <= Len(archive) /\ ~IsFile(path)
      /\ disk' = [disk EXCEPT ![path] = tree[path]] /\ next' = next + 1
      /\ UNCHANGED <<tree, sparse, archive, limit, total, outcome, lossy, attempts>>
  BY DEF UnpackEntry, fixed, Path
<1>2. ExtractTypeOK /\ ArchiveIsTree
  BY DEF ExtractInv
<1>3. FilesBefore(next + 1) = FilesBefore(next) /\ path \in DOMAIN tree
  BY <1>1, <1>2, FilesBeforeNext
<1>4. next \in 1 .. Len(archive) /\ next \in Nat /\ Len(archive) \in Nat
  BY <1>1, <1>2 DEF ExtractTypeOK
<1>5. ExtractTypeOK'
  BY <1>1, <1>2, <1>4 DEF ExtractTypeOK
<1>6. ArchiveIsTree'
  BY <1>1, <1>2 DEF ArchiveIsTree, Archived
<1>7. Counted' <=> Counted
  BY <1>1 DEF Counted, Blocks, Files, IsFile, HasBytes
<1>8. Blocks(FilesBefore(next))' = Blocks(FilesBefore(next))
  <2>1. FilesBefore(next)' = FilesBefore(next + 1)
    BY <1>1 DEF FilesBefore, Files, IsFile, HasBytes
  <2> QED BY <1>1, <1>3, <2>1 DEF Blocks
<1>9. ASSUME Counted, ~lossy, NEW k \in 1 .. next' - 1
       PROVE  disk'[archive'[k]] = tree'[archive'[k]]
  <2>1. k \in 1 .. next - 1 \/ k = next
    BY <1>1, <1>4
  <2>2. CASE k = next
    BY <1>1, <1>2, <1>3, <2>2 DEF ExtractTypeOK
  <2>3. CASE k \in 1 .. next - 1
    <3>1. disk[archive[k]] = tree[archive[k]]
      BY <1>1, <1>9, <2>3 DEF ExtractInv, UnpackSoFar
    <3>2. k \in 1 .. Len(archive) /\ k # next
      BY <1>1, <1>4, <2>3
    <3>3. archive[k] # path /\ archive[k] \in DOMAIN disk
      BY <1>2, <1>4, <3>2 DEF ArchiveIsTree, ExtractTypeOK
    <3> QED BY <1>1, <3>1, <3>3
  <2> QED BY <2>1, <2>2, <2>3
<1>10. UnpackSoFar'
  BY <1>1, <1>7, <1>8, <1>9 DEF ExtractInv, UnpackSoFar
<1>11. LimitsHold'
  <2>1. total' <= SatAdd(limit, 1)'
    BY <1>1 DEF ExtractInv, LimitsHold, SatAdd
  <2> QED BY <1>1, <2>1 DEF LimitsHold
<1> QED BY <1>5, <1>6, <1>10, <1>11 DEF ExtractInv

LEMMA UnpackFailsKeeps == ASSUME ExtractInv, UnpackFails PROVE ExtractInv'
<1>1. /\ outcome = "unpack" /\ outcome' = "Io" /\ DOMAIN disk' = DOMAIN disk
      /\ UNCHANGED <<tree, sparse, archive, limit, next, total, lossy, attempts>>
  BY DEF UnpackFails, fixed
<1>2. ExtractTypeOK'
  BY <1>1 DEF ExtractInv, ExtractTypeOK
<1>3. ArchiveIsTree'
  BY <1>1 DEF ExtractInv, ArchiveIsTree, Archived
<1>4. LimitsHold'
  <2>1. total' <= SatAdd(limit, 1)'
    BY <1>1 DEF ExtractInv, LimitsHold, SatAdd
  <2> QED BY <1>1, <2>1 DEF LimitsHold
<1> QED BY <1>1, <1>2, <1>3, <1>4 DEF ExtractInv, UnpackSoFar

\* At the end of the archive, every file of it has been counted.
LEMMA UnpackedKeeps == ASSUME ExtractInv, Unpacked PROVE ExtractInv'
<1>1. /\ outcome = "unpack" /\ next > Len(archive) /\ outcome' = "Ok"
      /\ UNCHANGED <<tree, sparse, archive, limit, next, total, disk, lossy, attempts>>
  BY DEF Unpacked, fixed
<1>2. ExtractTypeOK /\ ArchiveIsTree /\ next - 1 = Len(archive)
  BY <1>1 DEF ExtractInv, ExtractTypeOK
<1>3. ExtractTypeOK'
  BY <1>1, <1>2 DEF ExtractTypeOK
<1>4. ArchiveIsTree'
  BY <1>1, <1>2 DEF ArchiveIsTree, Archived
<1>5. ASSUME ~lossy, Counted
      PROVE  /\ \A path \in DOMAIN tree : tree[path] # Special => disk[path] = tree[path]
             /\ Blocks(Files) <= limit
  <2>1. \A path \in DOMAIN tree : tree[path] # Special =>
          \E k \in 1 .. next - 1 : archive[k] = path
    BY <1>1, <1>2, <1>5 DEF ArchiveIsTree, Archived
  <2>2. FilesBefore(next) = Files
    BY <2>1 DEF FilesBefore, Files, IsFile, HasBytes, Special
  <2>3. /\ total = Blocks(FilesBefore(next)) /\ total <= limit
        /\ \A k \in 1 .. next - 1 : disk[archive[k]] = tree[archive[k]]
    BY <1>1, <1>5 DEF ExtractInv, UnpackSoFar
  <2> QED BY <2>1, <2>2, <2>3
<1>6. LimitsHold'
  <2>1. total' <= SatAdd(limit, 1)'
    BY <1>1 DEF ExtractInv, LimitsHold, SatAdd
  <2>2. /\ Blocks(Files) = SumFunctionOnSet(tree', {path \in DOMAIN tree' : IsFile(path)'})
        /\ Counted <=> limit' < WordMax \/ Blocks(Files) <= WordMax
    BY <1>1 DEF Blocks, Files, IsFile, HasBytes, Counted
  <2> QED BY <1>1, <1>5, <2>1, <2>2 DEF LimitsHold, IsFile, HasBytes
<1> QED BY <1>1, <1>3, <1>4, <1>6 DEF ExtractInv, UnpackSoFar

LEMMA ExtractSteps == ExtractInv /\ [ExtractNext]_extractVars => ExtractInv'
<1> SUFFICES ASSUME ExtractInv, [ExtractNext]_extractVars PROVE ExtractInv'
  OBVIOUS
<1>1. CASE UNCHANGED extractVars
  <2>1. /\ tree' = tree /\ sparse' = sparse /\ archive' = archive /\ limit' = limit /\ next' = next
        /\ total' = total /\ disk' = disk /\ outcome' = outcome /\ lossy' = lossy
        /\ attempts' = attempts
    BY <1>1 DEF extractVars
  <2>2. ExtractTypeOK' <=> ExtractTypeOK
    BY <2>1 DEF ExtractTypeOK
  <2>3. ArchiveIsTree' <=> ArchiveIsTree
    BY <2>1 DEF ArchiveIsTree, Archived
  <2>4. UnpackSoFar' <=> UnpackSoFar
    BY <2>1 DEF UnpackSoFar, Blocks, FilesBefore, Files, IsFile, HasBytes, Counted
  <2>5. LimitsHold' <=> LimitsHold
    BY <2>1 DEF LimitsHold, SatAdd, IsFile, HasBytes
  <2> QED BY <2>2, <2>3, <2>4, <2>5 DEF ExtractInv
<1> QED BY <1>1, PackKeeps, PackFailsKeeps, ExtractKeeps, CopyFileKeeps, UnpackEntryKeeps,
           UnpackFailsKeeps, UnpackedKeeps DEF ExtractNext

\* For any tree of finitely many paths, any of its files sparse, any limits and
\* any number of attempts: an Ok leaves the whole tree at its full size and what
\* was counted within the limit, a limit that is reported is exceeded by what
\* is counted, and no attempt counts more than a block beyond it.
THEOREM LimitsAreKept == ToolkitSpec => []LimitsHold
<1>1. ExtractInv /\ [ToolkitNext]_toolkitVars => ExtractInv'
  BY PartsStep, ExtractSteps
<1>2. ExtractInv => LimitsHold
  BY DEF ExtractInv
<1> QED BY ExtractStarts, <1>1, <1>2, PTL DEF ToolkitSpec, toolkitVars

-----------------------------------------------------------------------------
(* Induction, with the set of what is proved so far in the place of an     *)
(* operator                                                                *)

LEMMA NatFromSet ==
  ASSUME NEW G, 0 \in G, \A n \in Nat : n \in G => n + 1 \in G
  PROVE  \A n \in Nat : n \in G
<1> SUFFICES ASSUME Nat \ G # {} PROVE FALSE
  OBVIOUS
<1>1. PICK n \in Nat \ G : \A m \in Nat \ G : n <= m
  BY SmallestExists
<1>2. n # 0 /\ n - 1 \in Nat /\ n - 1 \in G
  BY <1>1
<1> QED BY <1>1, <1>2

LEMMA SeqFromSet ==
  ASSUME NEW T, NEW G, <<>> \in G,
         \A s \in Seq(T) : \A e \in T : s \in G => Append(s, e) \in G
  PROVE  \A s \in Seq(T) : s \in G
<1> DEFINE Upto == {n \in Nat : \A s \in Seq(T) : Len(s) = n => s \in G}
<1>1. 0 \in Upto
  <2>1. \A s \in Seq(T) : Len(s) = 0 => s = <<>>
    BY EmptySeq
  <2> QED BY <2>1
<1>2. ASSUME NEW n \in Nat, n \in Upto PROVE n + 1 \in Upto
  <2> SUFFICES ASSUME NEW s \in Seq(T), Len(s) = n + 1 PROVE s \in G
    OBVIOUS
  <2>1. s # <<>>
    OBVIOUS
  <2>2. PICK f \in Seq(T), e \in T : s = Append(f, e)
    BY <2>1, SequenceEmptyOrAppend
  <2>3. Len(f) = n
    BY <2>2, AppendProperties
  <2> QED BY <1>2, <2>2, <2>3
<1> HIDE DEF Upto
<1>3. \A n \in Nat : n \in Upto
  BY <1>1, <1>2, NatFromSet
<1>4. \A s \in Seq(T) : Len(s) \in Upto
  BY <1>3
<1> QED BY <1>4 DEF Upto

-----------------------------------------------------------------------------
(* Concatenations of all members of a sequence                             *)

Unfolding(ss, f) == f = [i \in 1 .. Len(ss) |-> IF i = 1 THEN ss[i] ELSE f[i - 1] \o ss[i]]

LEMMA UnfoldingGrows ==
  ASSUME NEW U, NEW ss \in Seq(U), NEW s \in U, NEW f, Unfolding(ss, f)
  PROVE  LET n == Len(ss)
             g == [i \in 1 .. n + 1 |-> IF i <= n THEN f[i]
                                        ELSE IF n = 0 THEN s ELSE f[n] \o s]
         IN  Unfolding(Append(ss, s), g)
<1> DEFINE n == Len(ss)
           tt == Append(ss, s)
           g == [i \in 1 .. n + 1 |-> IF i <= n THEN f[i] ELSE IF n = 0 THEN s ELSE f[n] \o s]
<1>1. n \in Nat /\ Len(tt) = n + 1 /\ \A i \in 1 .. n : tt[i] = ss[i]
  BY AppendProperties
<1>2. tt[n + 1] = s
  BY AppendProperties
<1>3. \A i \in 1 .. n : f[i] = IF i = 1 THEN ss[i] ELSE f[i - 1] \o ss[i]
  BY DEF Unfolding
<1> HIDE DEF tt, n
<1>4. ASSUME NEW i \in 1 .. n + 1
      PROVE  g[i] = IF i = 1 THEN tt[i] ELSE g[i - 1] \o tt[i]
  <2>1. CASE i <= n
    <3>1. i \in 1 .. n /\ g[i] = f[i] /\ (i # 1 => i - 1 \in 1 .. n + 1 /\ g[i - 1] = f[i - 1])
      BY <1>1, <2>1
    <3> HIDE DEF g
    <3> QED BY <1>1, <1>3, <3>1
  <2>2. CASE i = n + 1
    <3>1. /\ g[i] = IF n = 0 THEN s ELSE f[n] \o s
          /\ n # 0 => i - 1 = n /\ g[i - 1] = f[n]
      BY <1>1, <2>2
    <3> HIDE DEF g
    <3> QED BY <1>1, <1>2, <2>2, <3>1
  <2> QED BY <1>1, <2>1, <2>2
<1>5. g = [i \in 1 .. n + 1 |-> g[i]]
  OBVIOUS
<1> HIDE DEF g
<1>6. Unfolding(tt, g)
  BY <1>1, <1>4, <1>5 DEF Unfolding
<1> QED BY <1>6 DEF g, tt, n

LEMMA UnfoldingExists ==
  ASSUME NEW U
  PROVE  \A ss \in Seq(U) : \E f : Unfolding(ss, f)
<1> DEFINE G == {ss \in Seq(U) : \E f : Unfolding(ss, f)}
<1>1. <<>> \in G
  <2>1. Unfolding(<<>>, <<>>)
    BY DEF Unfolding
  <2> QED BY <2>1
<1>2. ASSUME NEW ss \in Seq(U), NEW e \in U, ss \in G PROVE Append(ss, e) \in G
  <2>1. PICK f : Unfolding(ss, f)
    BY <1>2
  <2>2. \E g : Unfolding(Append(ss, e), g)
    BY <2>1, UnfoldingGrows
  <2> QED BY <2>2, AppendProperties
<1> HIDE DEF G
<1>3. \A ss \in Seq(U) : ss \in G
  BY <1>1, <1>2, SeqFromSet
<1> QED BY <1>3 DEF G

LEMMA UnfoldingsAgree ==
  ASSUME NEW U, NEW ss \in Seq(U), NEW e \in U, NEW f, Unfolding(ss, f),
         NEW g, Unfolding(Append(ss, e), g)
  PROVE  /\ \A i \in 1 .. Len(ss) : g[i] = f[i]
         /\ g[Len(ss) + 1] = IF ss = <<>> THEN e ELSE f[Len(ss)] \o e
<1> DEFINE n == Len(ss)
           G == {i \in Nat : i \in 1 .. n => g[i] = f[i]}
<1>1. /\ n \in Nat /\ Len(Append(ss, e)) = n + 1
      /\ \A i \in 1 .. n : Append(ss, e)[i] = ss[i]
      /\ Append(ss, e)[n + 1] = e
  BY AppendProperties
<1>2. /\ \A i \in 1 .. n : f[i] = IF i = 1 THEN ss[i] ELSE f[i - 1] \o ss[i]
      /\ \A i \in 1 .. n + 1 :
           g[i] = IF i = 1 THEN Append(ss, e)[i] ELSE g[i - 1] \o Append(ss, e)[i]
  BY <1>1 DEF Unfolding
<1>3. 0 \in G
  OBVIOUS
<1>4. ASSUME NEW i \in Nat, i \in G PROVE i + 1 \in G
  <2> SUFFICES ASSUME i + 1 \in 1 .. n PROVE g[i + 1] = f[i + 1]
    OBVIOUS
  <2>1. i + 1 = 1 \/ (i \in 1 .. n /\ g[i] = f[i] /\ (i + 1) - 1 = i)
    BY <1>4
  <2>2. i + 1 \in 1 .. n + 1 /\ Append(ss, e)[i + 1] = ss[i + 1]
    BY <1>1
  <2> HIDE DEF G, n
  <2>3. f[i + 1] = IF i + 1 = 1 THEN ss[i + 1] ELSE f[(i + 1) - 1] \o ss[i + 1]
    BY <1>2
  <2>4. g[i + 1] = IF i + 1 = 1 THEN ss[i + 1] ELSE g[(i + 1) - 1] \o ss[i + 1]
    BY <1>2, <2>2
  <2> QED BY <2>1, <2>3, <2>4
<1> HIDE DEF G
<1>5. \A i \in Nat : i \in G
  BY <1>3, <1>4, NatFromSet
<1>6. \A i \in 1 .. n : g[i] = f[i]
  BY <1>1, <1>5 DEF G
<1>7. g[n + 1] = IF n = 0 THEN e ELSE f[n] \o e
  BY <1>1, <1>2, <1>6
<1>8. n = 0 <=> ss = <<>>
  BY EmptySeq
<1> QED BY <1>6, <1>7, <1>8

LEMMA FlattenIs ==
  ASSUME NEW U, NEW ss \in Seq(U)
  PROVE  \E f : Unfolding(ss, f) /\ FlattenSeq(ss) = IF ss = <<>> THEN <<>> ELSE f[Len(ss)]
<1> DEFINE f == CHOOSE g : Unfolding(ss, g)
<1>1. Unfolding(ss, f)
  BY UnfoldingExists
<1>2. FlattenSeq(ss) = IF Len(ss) = 0 THEN ss ELSE f[Len(ss)]
  BY DEF FlattenSeq, Unfolding
<1>3. Len(ss) = 0 <=> ss = <<>>
  BY EmptySeq
<1> QED BY <1>1, <1>2, <1>3

LEMMA FlattenEmpty == FlattenSeq(<<>>) = <<>>
BY DEF FlattenSeq

LEMMA FlattenGrows ==
  ASSUME NEW T, NEW ss \in Seq(Seq(T)), NEW e \in Seq(T)
  PROVE  FlattenSeq(Append(ss, e)) = FlattenSeq(ss) \o e
<1>1. PICK f : Unfolding(ss, f) /\ FlattenSeq(ss) = IF ss = <<>> THEN <<>> ELSE f[Len(ss)]
  BY FlattenIs
<1>2. Append(ss, e) \in Seq(Seq(T)) /\ Append(ss, e) # <<>> /\ Len(Append(ss, e)) = Len(ss) + 1
  BY AppendProperties
<1>3. PICK g : /\ Unfolding(Append(ss, e), g)
               /\ FlattenSeq(Append(ss, e)) = g[Len(ss) + 1]
  BY <1>2, FlattenIs
<1>4. g[Len(ss) + 1] = IF ss = <<>> THEN e ELSE f[Len(ss)] \o e
  BY <1>1, <1>3, UnfoldingsAgree
<1>5. <<>> \o e = e
  BY ConcatEmptySeq
<1> QED BY <1>1, <1>3, <1>4, <1>5

LEMMA FlattenIsSeq ==
  ASSUME NEW T
  PROVE  \A ss \in Seq(Seq(T)) : FlattenSeq(ss) \in Seq(T)
<1> DEFINE G == {ss \in Seq(Seq(T)) : FlattenSeq(ss) \in Seq(T)}
<1>1. <<>> \in G
  <2>1. <<>> \in Seq(Seq(T)) /\ <<>> \in Seq(T)
    BY EmptySeq
  <2> QED BY <2>1, FlattenEmpty
<1>2. ASSUME NEW ss \in Seq(Seq(T)), NEW e \in Seq(T), ss \in G PROVE Append(ss, e) \in G
  <2>1. FlattenSeq(Append(ss, e)) = FlattenSeq(ss) \o e /\ FlattenSeq(ss) \in Seq(T)
    BY <1>2, FlattenGrows
  <2>2. Append(ss, e) \in Seq(Seq(T))
    BY AppendProperties
  <2> QED BY <2>1, <2>2, ConcatProperties
<1> HIDE DEF G
<1>3. \A ss \in Seq(Seq(T)) : ss \in G
  BY <1>1, <1>2, SeqFromSet
<1> QED BY <1>3 DEF G

-----------------------------------------------------------------------------
(* str::replace.  Cat and Add are names that the provers do not unfold.    *)

Cat(a, b) == a \o b
Add(s, x) == Append(s, x)

LEMMA CatFacts ==
  ASSUME NEW T
  PROVE  /\ \A a, b \in Seq(T) : Cat(a, b) \in Seq(T)
         /\ \A a, b, c \in Seq(T) : Cat(Cat(a, b), c) = Cat(a, Cat(b, c))
         /\ \A a \in Seq(T) : Cat(a, <<>>) = a /\ Cat(<<>>, a) = a
         /\ \A a \in Seq(T) : \A x \in T : Add(a, x) = Cat(a, <<x>>) /\ Add(a, x) \in Seq(T)
         /\ \A x \in T : <<x>> \in Seq(T) /\ Add(<<>>, x) = <<x>>
         /\ <<>> \in Seq(T)
<1>1. \A a, b \in Seq(T) : a \o b \in Seq(T)
  BY ConcatProperties
<1>2. \A a, b, c \in Seq(T) : (a \o b) \o c = a \o (b \o c)
  BY ConcatAssociative
<1>3. \A a \in Seq(T) : a \o <<>> = a /\ <<>> \o a = a
  BY ConcatEmptySeq
<1>4. \A a \in Seq(T) : \A x \in T : Append(a, x) = a \o <<x>> /\ Append(a, x) \in Seq(T)
  BY AppendIsConcat, AppendProperties
<1>5. \A x \in T : <<x>> \in Seq(T) /\ Append(<<>>, x) = <<x>>
  OBVIOUS
<1>6. <<>> \in Seq(T)
  BY EmptySeq
<1> QED BY <1>1, <1>2, <1>3, <1>4, <1>5, <1>6 DEF Cat, Add

LEMMA SeqFromAdd ==
  ASSUME NEW T, NEW G, <<>> \in G,
         \A s \in Seq(T) : \A e \in T : s \in G => Add(s, e) \in G
  PROVE  \A s \in Seq(T) : s \in G
BY SeqFromSet DEF Add

LEMMA FlattenAdd ==
  ASSUME NEW T
  PROVE  \A ss \in Seq(Seq(T)) : \A e \in Seq(T) :
           FlattenSeq(Add(ss, e)) = Cat(FlattenSeq(ss), e)
BY FlattenGrows DEF Cat, Add

\* What each piece becomes.
Becomes(x, p, v) == IF x = p THEN v ELSE <<x>>
Pieces(s, p, v) == [k \in DOMAIN s |-> Becomes(s[k], p, v)]

LEMMA ReplaceIs ==
  ASSUME NEW s, NEW p, NEW v
  PROVE  Replace(s, p, v) = FlattenSeq(Pieces(s, p, v))
BY DEF Replace, Pieces, Becomes

LEMMA PiecesAreSeq ==
  ASSUME NEW T, NEW s \in Seq(T), NEW p, NEW v \in Seq(T)
  PROVE  Pieces(s, p, v) \in Seq(Seq(T)) /\ Len(Pieces(s, p, v)) = Len(s)
<1>1. DOMAIN s = 1 .. Len(s) /\ Len(s) \in Nat /\ \A k \in 1 .. Len(s) : s[k] \in T
  OBVIOUS
<1>2. \A k \in 1 .. Len(s) : Becomes(s[k], p, v) \in Seq(T)
  BY <1>1 DEF Becomes
<1> QED BY <1>1, <1>2 DEF Pieces

LEMMA ReplaceIsSeq ==
  ASSUME NEW T, NEW s \in Seq(T), NEW p, NEW v \in Seq(T)
  PROVE  Replace(s, p, v) \in Seq(T)
BY PiecesAreSeq, FlattenIsSeq, ReplaceIs

LEMMA ReplaceEmpty == ASSUME NEW p, NEW v PROVE Replace(<<>>, p, v) = <<>>
<1>1. Pieces(<<>>, p, v) = <<>>
  BY DEF Pieces
<1> QED BY <1>1, FlattenEmpty, ReplaceIs

LEMMA ReplaceAdd ==
  ASSUME NEW T, NEW s \in Seq(T), NEW x \in T, NEW p, NEW v \in Seq(T)
  PROVE  Replace(Add(s, x), p, v) = Cat(Replace(s, p, v), Becomes(x, p, v))
<1> DEFINE one == Becomes(x, p, v)
           t == Add(s, x)
           r == Pieces(s, p, v)
           q == Pieces(t, p, v)
           U == Seq(T)
<1>1. /\ t \in Seq(T) /\ Len(t) = Len(s) + 1 /\ t[Len(s) + 1] = x
      /\ \A k \in 1 .. Len(s) : t[k] = s[k]
  BY AppendProperties DEF Add
<1>2. one \in U
  BY DEF Becomes
<1> HIDE DEF t
<1>3. /\ \A k \in 1 .. Len(s) : q[k] = r[k]
      /\ q[Len(s) + 1] = one
  BY <1>1 DEF Pieces
<1>4. r \in Seq(U) /\ q \in Seq(U) /\ Len(r) = Len(s) /\ Len(q) = Len(s) + 1
  BY <1>1, PiecesAreSeq
<1>5. Replace(t, p, v) = FlattenSeq(q) /\ Replace(s, p, v) = FlattenSeq(r)
  BY ReplaceIs
<1> HIDE DEF r, q, one, U
<1>6. q = Append(r, one)
  <2>1. /\ Append(r, one) \in Seq(U) /\ Len(Append(r, one)) = Len(s) + 1
        /\ \A k \in 1 .. Len(s) : Append(r, one)[k] = r[k]
        /\ Append(r, one)[Len(s) + 1] = one
    BY <1>2, <1>4, AppendProperties
  <2>2. \A k \in 1 .. Len(q) : q[k] = Append(r, one)[k]
    BY <1>3, <1>4, <2>1
  <2> QED BY <1>4, <2>1, <2>2, SeqEqual
<1>7. q = Add(r, one)
  BY <1>6 DEF Add
<1>8. FlattenSeq(q) = Cat(FlattenSeq(r), one)
  BY <1>2, <1>4, <1>7, FlattenAdd DEF U
<1> QED BY <1>5, <1>8 DEF t, one

LEMMA BecomesSeq ==
  ASSUME NEW T, NEW x \in T, NEW p, NEW v \in Seq(T)
  PROVE  Becomes(x, p, v) \in Seq(T)
BY DEF Becomes

LEMMA ReplaceOne ==
  ASSUME NEW T, NEW x \in T, NEW p, NEW v \in Seq(T)
  PROVE  Replace(<<x>>, p, v) = Becomes(x, p, v)
<1> DEFINE none == <<>>
           one == Becomes(x, p, v)
<1>1. none \in Seq(T) /\ one \in Seq(T) /\ Add(none, x) = <<x>> /\ Cat(none, one) = one
  <2>1. one \in Seq(T)
    BY BecomesSeq
  <2> HIDE DEF one
  <2>2. Cat(none, one) = one /\ Add(none, x) = <<x>> /\ none \in Seq(T)
    BY <2>1, CatFacts
  <2> QED BY <2>1, <2>2
<1>2. Replace(none, p, v) = none
  BY ReplaceEmpty
<1> HIDE DEF none, one
<1>3. Replace(Add(none, x), p, v) = Cat(Replace(none, p, v), Becomes(x, p, v))
  BY <1>1, ReplaceAdd
<1> QED BY <1>1, <1>2, <1>3 DEF one

LEMMA ReplaceCat ==
  ASSUME NEW T, NEW a \in Seq(T), NEW p, NEW v \in Seq(T)
  PROVE  \A b \in Seq(T) : Replace(Cat(a, b), p, v) = Cat(Replace(a, p, v), Replace(b, p, v))
<1> DEFINE P(b) == Replace(Cat(a, b), p, v) = Cat(Replace(a, p, v), Replace(b, p, v))
           G == {b \in Seq(T) : P(b)}
<1>1. \A s \in Seq(T) : Replace(s, p, v) \in Seq(T)
  BY ReplaceIsSeq
<1>2. P(<<>>)
  <2>1. Cat(a, <<>>) = a /\ Cat(Replace(a, p, v), <<>>) = Replace(a, p, v)
    BY <1>1, CatFacts
  <2>2. Replace(<<>>, p, v) = <<>>
    BY ReplaceEmpty
  <2> QED BY <2>1, <2>2
<1>3. ASSUME NEW b \in Seq(T), NEW x \in T, P(b) PROVE P(Add(b, x))
  <2> DEFINE one == Becomes(x, p, v)
             ab == Cat(a, b)
             ra == Replace(a, p, v)
             rb == Replace(b, p, v)
  <2>1. ab \in Seq(T) /\ Add(b, x) \in Seq(T) /\ one \in Seq(T) /\ ra \in Seq(T) /\ rb \in Seq(T)
    BY <1>1, CatFacts, BecomesSeq
  <2>2. Cat(a, Add(b, x)) = Add(ab, x)
    <3> DEFINE last == <<x>>
    <3>1. last \in Seq(T) /\ Add(b, x) = Cat(b, last) /\ Add(ab, x) = Cat(ab, last)
      BY <2>1, CatFacts
    <3> HIDE DEF last
    <3> QED BY <3>1, CatFacts
  <2>3. Replace(Add(ab, x), p, v) = Cat(Replace(ab, p, v), one)
    BY <2>1, ReplaceAdd
  <2>4. Replace(Add(b, x), p, v) = Cat(rb, one)
    BY <2>1, ReplaceAdd
  <2>5. Replace(ab, p, v) = Cat(ra, rb)
    BY <1>3
  <2>6. Cat(Cat(ra, rb), one) = Cat(ra, Cat(rb, one))
    BY <2>1, CatFacts
  <2> QED BY <2>2, <2>3, <2>4, <2>5, <2>6
<1>4. <<>> \in G /\ \A b \in Seq(T) : \A x \in T : b \in G => Add(b, x) \in G
  BY <1>2, <1>3, CatFacts
<1> HIDE DEF G
<1>5. \A b \in Seq(T) : b \in G
  BY <1>4, SeqFromAdd
<1> QED BY <1>5 DEF G

\* Nothing happens to a text without the piece.
LEMMA ReplaceAbsent ==
  ASSUME NEW T, NEW p, p \notin T, NEW v \in Seq(T)
  PROVE  \A s \in Seq(T) : Replace(s, p, v) = s
<1> DEFINE G == {s \in Seq(T) : Replace(s, p, v) = s}
<1>1. <<>> \in G
  BY CatFacts, ReplaceEmpty
<1>2. ASSUME NEW s \in Seq(T), NEW x \in T, s \in G PROVE Add(s, x) \in G
  <2>1. Replace(Add(s, x), p, v) = Cat(Replace(s, p, v), Becomes(x, p, v))
    BY ReplaceAdd
  <2>2. Becomes(x, p, v) = <<x>> /\ Replace(s, p, v) = s
    BY <1>2 DEF Becomes
  <2>3. Add(s, x) \in Seq(T) /\ Cat(s, <<x>>) = Add(s, x)
    BY CatFacts
  <2> QED BY <2>1, <2>2, <2>3
<1> HIDE DEF G
<1>3. \A s \in Seq(T) : s \in G
  BY <1>1, <1>2, SeqFromAdd
<1> QED BY <1>3 DEF G

-----------------------------------------------------------------------------
(* Filling a template: with values that hold no placeholder, the keys are  *)
(* in effect replaced all at once.                                         *)

\* What the loop of SubstituteTemplate does for one key.
Filled(acc, k, values) == Replace(Replace(acc, Dot(k), values[k]), Bare(k), values[k])

\* What a piece is in the end when the keys of K have been replaced.
Final(x, K, values) == IF x[1] \in {"dot", "bare"} /\ x[2] \in K THEN values[x[2]] ELSE <<x>>
Finals(s, K, values) == [i \in DOMAIN s |-> Final(s[i], K, values)]
Substituted(s, K, values) == FlattenSeq(Finals(s, K, values))

\* The pieces of the text (T), literals that values are made of (L), and the
\* values of the keys K.
Literals(T, L) ==
  /\ L \subseteq T
  /\ \A x \in T : x[1] \in {"dot", "bare"} => x \in {Dot(x[2]), Bare(x[2])}
  /\ \A x \in L : x[1] \notin {"dot", "bare"}

LEMMA FinalIsSeq ==
  ASSUME NEW T, NEW x \in T, NEW K, NEW values, \A k \in K : values[k] \in Seq(T)
  PROVE  Final(x, K, values) \in Seq(T)
<1>1. <<x>> \in Seq(T)
  BY CatFacts
<1> QED BY <1>1 DEF Final

LEMMA FinalsAreSeq ==
  ASSUME NEW T, NEW s \in Seq(T), NEW K, NEW values, \A k \in K : values[k] \in Seq(T)
  PROVE  Finals(s, K, values) \in Seq(Seq(T)) /\ Len(Finals(s, K, values)) = Len(s)
<1>1. DOMAIN s = 1 .. Len(s) /\ Len(s) \in Nat /\ \A k \in 1 .. Len(s) : s[k] \in T
  OBVIOUS
<1>2. \A i \in 1 .. Len(s) : Final(s[i], K, values) \in Seq(T)
  BY <1>1, FinalIsSeq
<1> QED BY <1>1, <1>2 DEF Finals

LEMMA SubstitutedIsSeq ==
  ASSUME NEW T, NEW s \in Seq(T), NEW K, NEW values, \A k \in K : values[k] \in Seq(T)
  PROVE  Substituted(s, K, values) \in Seq(T)
BY FinalsAreSeq, FlattenIsSeq DEF Substituted

LEMMA SubstitutedEmpty ==
  ASSUME NEW K, NEW values PROVE Substituted(<<>>, K, values) = <<>>
<1>1. Finals(<<>>, K, values) = <<>>
  BY DEF Finals
<1> QED BY <1>1, FlattenEmpty DEF Substituted

\* A sequence of texts that is one longer.
LEMMA FlattenLast ==
  ASSUME NEW T, NEW r \in Seq(Seq(T)), NEW q \in Seq(Seq(T)), Len(q) = Len(r) + 1,
         \A k \in 1 .. Len(r) : q[k] = r[k]
  PROVE  FlattenSeq(q) = Cat(FlattenSeq(r), q[Len(r) + 1])
<1> DEFINE U == Seq(T)
           one == q[Len(r) + 1]
<1>1. one \in U /\ r \in Seq(U) /\ q \in Seq(U) /\ Len(r) \in Nat
  OBVIOUS
<1> HIDE DEF U, one
<1>2. /\ Append(r, one) \in Seq(U) /\ Len(Append(r, one)) = Len(r) + 1
      /\ \A k \in 1 .. Len(r) : Append(r, one)[k] = r[k]
      /\ Append(r, one)[Len(r) + 1] = one
  BY <1>1, AppendProperties
<1>3. q[Len(r) + 1] = one
  BY DEF one
<1>4. \A k \in 1 .. Len(q) : q[k] = Append(r, one)[k]
  BY <1>1, <1>2, <1>3
<1>5. q = Add(r, one)
  BY <1>1, <1>2, <1>4, SeqEqual DEF Add
<1>6. FlattenSeq(q) = Cat(FlattenSeq(r), one)
  BY <1>1, <1>5, FlattenAdd DEF U
<1> QED BY <1>6 DEF one

LEMMA SubstitutedAdd ==
  ASSUME NEW T, NEW s \in Seq(T), NEW x \in T, NEW K, NEW values,
         \A k \in K : values[k] \in Seq(T)
  PROVE  Substituted(Add(s, x), K, values)
           = Cat(Substituted(s, K, values), Final(x, K, values))
<1> DEFINE t == Add(s, x)
           r == Finals(s, K, values)
           q == Finals(t, K, values)
<1>1. /\ t \in Seq(T) /\ Len(t) = Len(s) + 1 /\ t[Len(s) + 1] = x
      /\ \A k \in 1 .. Len(s) : t[k] = s[k]
  BY AppendProperties DEF Add
<1> HIDE DEF t
<1>2. /\ \A k \in 1 .. Len(s) : q[k] = r[k]
      /\ q[Len(s) + 1] = Final(x, K, values)
  BY <1>1 DEF Finals
<1>3. r \in Seq(Seq(T)) /\ q \in Seq(Seq(T)) /\ Len(r) = Len(s) /\ Len(q) = Len(s) + 1
  BY <1>1, FinalsAreSeq
<1> HIDE DEF r, q
<1>4. FlattenSeq(q) = Cat(FlattenSeq(r), q[Len(r) + 1])
  BY <1>2, <1>3, FlattenLast
<1> QED BY <1>2, <1>3, <1>4 DEF t, r, q, Substituted

LEMMA FilledOne ==
  ASSUME NEW T, NEW L, Literals(T, L), NEW K, NEW k, NEW values,
         \A i \in K \union {k} : values[i] \in Seq(L), NEW x \in T
  PROVE  Filled(Final(x, K, values), k, values) = Final(x, K \union {k}, values)
<1> DEFINE v == values[k]
<1>1. Dot(k) \notin L /\ Bare(k) \notin L /\ Dot(k) # Bare(k)
  BY DEF Literals, Dot, Bare
<1>2. \A s \in Seq(L) : Replace(s, Dot(k), v) = s /\ Replace(s, Bare(k), v) = s
  BY <1>1, ReplaceAbsent
<1>3. v \in Seq(L) /\ v \in Seq(T)
  BY DEF Literals
<1> HIDE DEF v
<1>4. \A y \in T : Replace(<<y>>, Dot(k), v) = Becomes(y, Dot(k), v)
                   /\ Replace(<<y>>, Bare(k), v) = Becomes(y, Bare(k), v)
  BY <1>3, ReplaceOne
<1>5. CASE x[1] \in {"dot", "bare"} /\ x[2] \in K
  <2>1. /\ Final(x, K, values) = values[x[2]] /\ values[x[2]] \in Seq(L)
        /\ Final(x, K \union {k}, values) = values[x[2]]
    BY <1>5 DEF Final
  <2> QED BY <1>2, <2>1 DEF Filled, v
<1>6. CASE ~(x[1] \in {"dot", "bare"} /\ x[2] \in K)
  <2>1. Final(x, K, values) = <<x>>
    BY <1>6 DEF Final
  <2>2. CASE x = Dot(k)
    <3>1. Final(x, K \union {k}, values) = v
      BY <2>2 DEF Final, Dot, v
    <3>2. Replace(<<x>>, Dot(k), v) = v /\ Replace(v, Bare(k), v) = v
      BY <1>2, <1>3, <1>4, <2>2 DEF Becomes
    <3> QED BY <2>1, <3>1, <3>2 DEF Filled, v
  <2>3. CASE x = Bare(k)
    <3>1. Final(x, K \union {k}, values) = v
      BY <2>3 DEF Final, Bare, v
    <3>2. Replace(<<x>>, Dot(k), v) = <<x>> /\ Replace(<<x>>, Bare(k), v) = v
      BY <1>1, <1>4, <2>3 DEF Becomes
    <3> QED BY <2>1, <3>1, <3>2 DEF Filled, v
  <2>4. CASE x # Dot(k) /\ x # Bare(k)
    <3>1. Final(x, K \union {k}, values) = <<x>>
      BY <1>6, <2>4 DEF Final, Literals
    <3>2. Replace(<<x>>, Dot(k), v) = <<x>> /\ Replace(<<x>>, Bare(k), v) = <<x>>
      BY <1>4, <2>4 DEF Becomes
    <3> QED BY <2>1, <3>1, <3>2 DEF Filled, v
  <2> QED BY <2>2, <2>3, <2>4
<1> QED BY <1>5, <1>6

LEMMA FilledCat ==
  ASSUME NEW T, NEW a \in Seq(T), NEW b \in Seq(T), NEW k, NEW values, values[k] \in Seq(T)
  PROVE  Filled(Cat(a, b), k, values) = Cat(Filled(a, k, values), Filled(b, k, values))
<1> DEFINE v == values[k]
           ra == Replace(a, Dot(k), v)
           rb == Replace(b, Dot(k), v)
<1>1. v \in Seq(T)
  OBVIOUS
<1> HIDE DEF v
<1>2. ra \in Seq(T) /\ rb \in Seq(T)
  BY <1>1, ReplaceIsSeq
<1>3. Replace(Cat(a, b), Dot(k), v) = Cat(ra, rb)
  BY <1>1, ReplaceCat
<1> HIDE DEF ra, rb
<1>4. Replace(Cat(ra, rb), Bare(k), v) = Cat(Replace(ra, Bare(k), v), Replace(rb, Bare(k), v))
  BY <1>1, <1>2, ReplaceCat
<1> QED BY <1>3, <1>4 DEF Filled, v, ra, rb

\* One more key.
LEMMA FillsOneMore ==
  ASSUME NEW T, NEW L, Literals(T, L), NEW K, NEW k, NEW values,
         \A i \in K \union {k} : values[i] \in Seq(L)
  PROVE  \A s \in Seq(T) :
           Filled(Substituted(s, K, values), k, values) = Substituted(s, K \union {k}, values)
<1> DEFINE M == K \union {k}
           P(s) == Filled(Substituted(s, K, values), k, values) = Substituted(s, M, values)
           G == {s \in Seq(T) : P(s)}
<1>1. \A i \in M : values[i] \in Seq(T)
  BY DEF Literals
<1>2. k \in M /\ K \subseteq M
  OBVIOUS
<1>3. P(<<>>)
  <2>1. /\ Replace(<<>>, Dot(k), values[k]) = <<>>
        /\ Replace(<<>>, Bare(k), values[k]) = <<>>
    BY ReplaceEmpty
  <2> QED BY <2>1, SubstitutedEmpty DEF Filled
<1>4. \A x \in T : Filled(Final(x, K, values), k, values) = Final(x, M, values)
  BY FilledOne
<1> HIDE DEF M
<1>5. ASSUME NEW s \in Seq(T), NEW x \in T, P(s) PROVE P(Add(s, x))
  <2> DEFINE a == Substituted(s, K, values)
             b == Final(x, K, values)
  <2>1. a \in Seq(T) /\ b \in Seq(T)
    BY <1>1, <1>2, SubstitutedIsSeq, FinalIsSeq
  <2>2. /\ Substituted(Add(s, x), K, values) = Cat(a, b)
        /\ Substituted(Add(s, x), M, values)
             = Cat(Substituted(s, M, values), Final(x, M, values))
    BY <1>1, <1>2, SubstitutedAdd
  <2> HIDE DEF a, b
  <2>3. Filled(Cat(a, b), k, values) = Cat(Filled(a, k, values), Filled(b, k, values))
    BY <1>1, <1>2, <2>1, FilledCat
  <2>4. Filled(a, k, values) = Substituted(s, M, values)
    BY <1>5 DEF a
  <2>5. Filled(b, k, values) = Final(x, M, values)
    BY <1>4 DEF b
  <2> QED BY <2>2, <2>3, <2>4, <2>5
<1>6. <<>> \in G /\ \A s \in Seq(T) : \A x \in T : s \in G => Add(s, x) \in G
  BY <1>3, <1>5, CatFacts
<1> HIDE DEF G
<1>7. \A s \in Seq(T) : s \in G
  BY <1>6, SeqFromAdd
<1> QED BY <1>7 DEF G, M

-----------------------------------------------------------------------------
(* Folds over a sequence                                                   *)

\* The fold of the step function st from base, over every set of positions,
\* the last one first.
Descent(st, base, order, D, g) ==
  \A s \in SUBSET D :
    g[s] = IF s = {} THEN base ELSE st[<<g[s \ {Max(s)}], order[Max(s)]>>]

Descends(A, st, base, order, n) ==
  \E g \in [SUBSET (1 .. n) -> A] : Descent(st, base, order, 1 .. n, g)

LEMMA MaxOf ==
  ASSUME NEW n \in Nat, NEW s \in SUBSET (1 .. n + 1), n + 1 \in s
  PROVE  Max(s) = n + 1
<1>1. \A y \in s : n + 1 >= y
  OBVIOUS
<1>2. \A x \in s : (\A y \in s : x >= y) => x = n + 1
  OBVIOUS
<1> QED BY <1>1, <1>2 DEF Max

LEMMA GreatestExists ==
  ASSUME NEW n \in Nat, NEW s \in SUBSET (1 .. n), s # {}
  PROVE  \E x \in s : \A y \in s : x >= y
<1> DEFINE above == {m \in Nat : \A y \in s : m >= y}
<1>1. above \in SUBSET Nat /\ n \in above
  OBVIOUS
<1>2. PICK m \in above : \A k \in above : m <= k
  BY <1>1, SmallestExists
<1>3. m \in s
  <2> SUFFICES ASSUME m \notin s PROVE FALSE
    OBVIOUS
  <2>1. \A y \in s : y \in 1 .. n /\ m >= y /\ y # m
    OBVIOUS
  <2>2. \A y \in s : y \in Nat \ {0} /\ m - 1 >= y
    BY <2>1
  <2>3. m - 1 \in Nat
    <3>1. PICK y \in s : TRUE
      OBVIOUS
    <3>2. y \in Nat /\ y # 0 /\ m - 1 >= y /\ m \in Nat
      BY <2>2, <3>1
    <3> QED BY <3>2
  <2>4. m - 1 \in above
    BY <2>2, <2>3
  <2> QED BY <1>2, <2>4
<1> QED BY <1>3

LEMMA MaxIsIn ==
  ASSUME NEW n \in Nat PROVE \A t \in SUBSET (1 .. n) : t # {} => Max(t) \in t
<1> SUFFICES ASSUME NEW t \in SUBSET (1 .. n), t # {} PROVE Max(t) \in t
  OBVIOUS
<1> QED BY GreatestExists DEF Max

LEMMA PrefixFacts ==
  ASSUME NEW n \in Nat, NEW j \in 1 .. n
  PROVE  /\ j - 1 \in 0 .. n /\ j \in 0 .. n
         /\ 1 .. j \in SUBSET (1 .. n) /\ 1 .. j # {} /\ (1 .. j) \ {j} = 1 .. j - 1
         /\ Max(1 .. j) = j
<1>1. j - 1 \in Nat /\ j - 1 \in 0 .. n /\ j \in 0 .. n
  OBVIOUS
<1>2. 1 .. j \in SUBSET (1 .. n) /\ j \in 1 .. j
  OBVIOUS
<1>3. (1 .. j) \ {j} = 1 .. j - 1
  OBVIOUS
<1>4. Max(1 .. j) = j
  <2>1. PICK i \in Nat : i = j - 1
    BY <1>1
  <2> DEFINE t == 1 .. j
  <2>2. t \in SUBSET (1 .. i + 1) /\ i + 1 \in t /\ i + 1 = j
    BY <2>1
  <2> HIDE DEF t
  <2>3. Max(t) = i + 1
    BY <2>2, MaxOf
  <2> QED BY <2>2, <2>3 DEF t
<1> QED BY <1>1, <1>2, <1>3, <1>4

LEMMA DescentExists ==
  ASSUME NEW A, NEW K, NEW base \in A, NEW order \in Seq(K), NEW st \in [A \X K -> A]
  PROVE  \A n \in Nat : n <= Len(order) => Descends(A, st, base, order, n)
<1> DEFINE P(n) == \E g \in [SUBSET (1 .. n) -> A] : Descent(st, base, order, 1 .. n, g)
           G == {n \in Nat : n <= Len(order) => P(n)}
<1>1. P(0)
  <2> DEFINE g == [s \in SUBSET (1 .. 0) |-> base]
  <2>1. g \in [SUBSET (1 .. 0) -> A] /\ Descent(st, base, order, 1 .. 0, g)
    BY DEF Descent
  <2> QED BY <2>1
<1>2. ASSUME NEW n \in Nat, P(n), n + 1 <= Len(order) PROVE P(n + 1)
  <2>1. PICK g \in [SUBSET (1 .. n) -> A] : Descent(st, base, order, 1 .. n, g)
    BY <1>2
  <2> DEFINE m == n + 1
             h == [s \in SUBSET (1 .. m) |-> IF m \in s THEN st[<<g[s \ {m}], order[m]>>]
                                             ELSE g[s]]
  <2>2. m \in 1 .. Len(order) /\ order[m] \in K
    BY <1>2
  <2>3. \A s \in SUBSET (1 .. m) : s \ {m} \in SUBSET (1 .. n) /\ (m \notin s => s \in SUBSET (1 .. n))
    <3>1. \A i \in 1 .. m : i # m => i \in 1 .. n
      OBVIOUS
    <3> HIDE DEF m
    <3> QED BY <3>1
  <2>4. \A s \in SUBSET (1 .. m) :
          h[s] = IF m \in s THEN st[<<g[s \ {m}], order[m]>>] ELSE g[s]
    OBVIOUS
  <2>5. h = [s \in SUBSET (1 .. m) |-> h[s]]
    OBVIOUS
  <2> HIDE DEF m, h
  <2>6. \A s \in SUBSET (1 .. m) : h[s] \in A
    <3> TAKE s \in SUBSET (1 .. m)
    <3>1. s \ {m} \in SUBSET (1 .. n) /\ (m \notin s => s \in SUBSET (1 .. n))
      BY <2>3
    <3>2. g[s \ {m}] \in A /\ (m \notin s => g[s] \in A)
      BY <3>1
    <3>3. <<g[s \ {m}], order[m]>> \in A \X K
      BY <2>2, <3>2
    <3> QED BY <2>4, <3>2, <3>3
  <2>7. h \in [SUBSET (1 .. m) -> A]
    BY <2>5, <2>6
  <2>8. ASSUME NEW s \in SUBSET (1 .. m)
        PROVE  h[s] = IF s = {} THEN base ELSE st[<<h[s \ {Max(s)}], order[Max(s)]>>]
    <3>1. CASE m \in s
      <4>1. Max(s) = m
        BY <3>1, MaxOf DEF m
      <4>2. s \ {m} \in SUBSET (1 .. m) /\ m \notin s \ {m}
        OBVIOUS
      <4>3. h[s \ {m}] = g[s \ {m}]
        BY <2>4, <4>2
      <4> QED BY <2>4, <3>1, <4>1, <4>3
    <3>2. CASE m \notin s
      <4>1. s \in SUBSET (1 .. n) /\ h[s] = g[s]
        BY <2>3, <2>4, <3>2
      <4>2. s \ {Max(s)} \in SUBSET (1 .. m) /\ m \notin s \ {Max(s)}
        BY <3>2
      <4>3. h[s \ {Max(s)}] = g[s \ {Max(s)}]
        BY <2>4, <4>2
      <4> QED BY <2>1, <4>1, <4>3 DEF Descent
    <3> QED BY <3>1, <3>2
  <2>9. Descent(st, base, order, 1 .. m, h)
    BY <2>8 DEF Descent
  <2> QED BY <2>7, <2>9 DEF m
<1> HIDE DEF P
<1>3. 0 \in G
  BY <1>1
<1>4. ASSUME NEW n \in Nat, n \in G PROVE n + 1 \in G
  <2> SUFFICES ASSUME n + 1 <= Len(order) PROVE P(n + 1)
    OBVIOUS
  <2>1. P(n)
    BY <1>4
  <2> QED BY <1>2, <2>1
<1> HIDE DEF G
<1>5. \A n \in Nat : n \in G
  BY <1>3, <1>4, NatFromSet
<1> QED BY <1>5 DEF G, P, Descends

-----------------------------------------------------------------------------
(* The text of a task                                                      *)

\* The steps of filling the texts of T with values.
FillStep(T, K, values) == [a \in Seq(T) \X K |-> Filled(a[1], a[2], values)]

LEMMA FillStepType ==
  ASSUME NEW T, NEW K, NEW values, \A k \in K : values[k] \in Seq(T)
  PROVE  FillStep(T, K, values) \in [Seq(T) \X K -> Seq(T)]
<1>1. ASSUME NEW a \in Seq(T), NEW k \in K PROVE Filled(a, k, values) \in Seq(T)
  <2>1. Replace(a, Dot(k), values[k]) \in Seq(T)
    BY ReplaceIsSeq
  <2> QED BY <2>1, ReplaceIsSeq DEF Filled
<1> QED BY <1>1 DEF FillStep

\* What SubstituteTemplate starts from, and its fold.
FixedPart(s, item, index) == Replace(Replace(s, Item, item), Index, <<Lit(ToString(index))>>)
Fills(s, values, order, g) ==
  g = [t \in SUBSET (DOMAIN order) |->
         IF t = {} THEN s ELSE Filled(g[t \ {Max(t)}], order[Max(t)], values)]
FilledBy(s, values, order) == (CHOOSE g : Fills(s, values, order, g))[DOMAIN order]

LEMMA SubstituteIs ==
  ASSUME NEW s, NEW item, NEW index, NEW values, NEW order
  PROVE  SubstituteTemplate(s, item, index, values, order)
           = FilledBy(FixedPart(s, item, index), values, order)
BY DEF SubstituteTemplate, FoldLeft, MapThenFoldSet, FilledBy, Fills, Filled, FixedPart

LEMMA FillsCourse ==
  ASSUME NEW T, NEW K, NEW values, \A k \in K : values[k] \in Seq(T),
         NEW order \in Seq(K), NEW s \in Seq(T)
  PROVE  \E h : /\ h[0] = s
                /\ \A j \in 1 .. Len(order) : h[j] = Filled(h[j - 1], order[j], values)
                /\ FilledBy(s, values, order) = h[Len(order)]
<1> DEFINE st == FillStep(T, K, values)
           n == Len(order)
           D == 1 .. n
           c == CHOOSE g : Fills(s, values, order, g)
<1>1. st \in [Seq(T) \X K -> Seq(T)]
  BY FillStepType
<1>2. n \in Nat /\ DOMAIN order = D /\ \A i \in D : order[i] \in K
  OBVIOUS
<1>3. \A a \in Seq(T), k \in K : st[<<a, k>>] = Filled(a, k, values)
  BY DEF FillStep
<1>4. PICK g \in [SUBSET D -> Seq(T)] : Descent(st, s, order, D, g)
  <2>1. n \in Nat /\ n <= Len(order)
    BY DEF n
  <2> HIDE DEF n
  <2>2. \A m \in Nat : m <= Len(order) =>
          \E g \in [SUBSET (1 .. m) -> Seq(T)] : Descent(st, s, order, 1 .. m, g)
    <3>1. s \in Seq(T) /\ order \in Seq(K)
      OBVIOUS
    <3> DEFINE A == Seq(T)
    <3>2. s \in A /\ st \in [A \X K -> A]
      BY <1>1
    <3> HIDE DEF A
    <3>3. \A m \in Nat : m <= Len(order) => Descends(A, st, s, order, m)
      BY <3>1, <3>2, DescentExists
    <3> QED BY <3>3 DEF A, Descends
  <2> QED BY <2>1, <2>2
<1> HIDE DEF st, n
<1>5. \A t \in SUBSET D : t # {} => Max(t) \in t
  BY <1>2, MaxIsIn
<1>6. \A t \in SUBSET D :
        g[t] = IF t = {} THEN s ELSE Filled(g[t \ {Max(t)}], order[Max(t)], values)
  <2> TAKE t \in SUBSET D
  <2>1. CASE t = {}
    BY <1>4, <2>1 DEF Descent
  <2>2. CASE t # {}
    <3>1. order[Max(t)] \in K /\ t \ {Max(t)} \in SUBSET D
      BY <1>2, <1>5, <2>2
    <3>2. g[t \ {Max(t)}] \in Seq(T)
      BY <3>1
    <3> QED BY <1>3, <1>4, <2>2, <3>1, <3>2 DEF Descent
  <2> QED BY <2>1, <2>2
<1>7. g = [t \in SUBSET D |-> g[t]]
  OBVIOUS
<1>8. Fills(s, values, order, g)
  BY <1>2, <1>6, <1>7 DEF Fills
<1>9. Fills(s, values, order, c)
  BY <1>8
<1> HIDE DEF c
<1> DEFINE h == [j \in 0 .. n |-> c[1 .. j]]
<1>10. \A j \in 0 .. n : h[j] = c[1 .. j]
  OBVIOUS
<1> HIDE DEF h
<1>11. \A t \in SUBSET D :
         c[t] = IF t = {} THEN s ELSE Filled(c[t \ {Max(t)}], order[Max(t)], values)
  BY <1>2, <1>9 DEF Fills
<1>12. h[0] = s
  <2>1. 1 .. 0 = {} /\ 0 \in 0 .. n /\ {} \in SUBSET D
    BY <1>2
  <2>2. c[{}] = s
    BY <1>11
  <2> QED BY <1>10, <2>1, <2>2
<1>13. ASSUME NEW j \in 1 .. n PROVE h[j] = Filled(h[j - 1], order[j], values)
  <2>1. /\ j - 1 \in 0 .. n /\ j \in 0 .. n
        /\ 1 .. j \in SUBSET D /\ 1 .. j # {} /\ (1 .. j) \ {j} = 1 .. j - 1 /\ Max(1 .. j) = j
    BY <1>2, PrefixFacts
  <2>2. c[1 .. j] = Filled(c[(1 .. j) \ {j}], order[j], values)
    BY <1>11, <2>1
  <2> QED BY <1>10, <2>1, <2>2
<1>14. h[n] = c[DOMAIN order]
  BY <1>2, <1>10
<1> QED BY <1>12, <1>13, <1>14 DEF c, n, FilledBy

LEMMA NothingSubstituted ==
  ASSUME NEW T, NEW values PROVE \A s \in Seq(T) : Substituted(s, {}, values) = s
<1> DEFINE G == {s \in Seq(T) : Substituted(s, {}, values) = s}
<1>1. <<>> \in G
  BY CatFacts, SubstitutedEmpty
<1>2. ASSUME NEW s \in Seq(T), NEW x \in T, s \in G PROVE Add(s, x) \in G
  <2>1. \A k \in {} : values[k] \in Seq(T)
    OBVIOUS
  <2>2. Substituted(Add(s, x), {}, values) = Cat(Substituted(s, {}, values), Final(x, {}, values))
    BY <2>1, SubstitutedAdd
  <2>3. Final(x, {}, values) = <<x>> /\ Substituted(s, {}, values) = s
    BY <1>2 DEF Final
  <2>4. Add(s, x) \in Seq(T) /\ Cat(s, <<x>>) = Add(s, x)
    BY CatFacts
  <2> QED BY <2>2, <2>3, <2>4
<1> HIDE DEF G
<1>3. \A s \in Seq(T) : s \in G
  BY <1>1, <1>2, SeqFromAdd
<1> QED BY <1>3 DEF G

\* The first j members.
Firsts(order, j) == {order[i] : i \in 1 .. j}

\* In whatever order the keys come.
LEMMA FilledAtOnce ==
  ASSUME NEW T, NEW L, Literals(T, L), NEW K, NEW values, \A k \in K : values[k] \in Seq(L),
         NEW order \in Seq(K), Firsts(order, Len(order)) = K, NEW s \in Seq(T)
  PROVE  FilledBy(s, values, order) = Substituted(s, K, values)
<1> DEFINE n == Len(order)
           filled == FilledBy(s, values, order)
<1>1. \A k \in K : values[k] \in Seq(T)
  BY DEF Literals
<1>2. PICK h : /\ h[0] = s
               /\ \A j \in 1 .. n : h[j] = Filled(h[j - 1], order[j], values)
               /\ filled = h[n]
  BY <1>1, FillsCourse
<1>3. n \in Nat /\ \A i \in 1 .. n : order[i] \in K
  OBVIOUS
<1> HIDE DEF n, filled
<1> DEFINE G == {j \in Nat : j <= n => h[j] = Substituted(s, Firsts(order, j), values)}
<1>4. 0 \in G
  <2>1. Firsts(order, 0) = {}
    BY DEF Firsts
  <2>2. Substituted(s, {}, values) = s
    BY NothingSubstituted
  <2> QED BY <1>2, <2>1, <2>2
<1>5. ASSUME NEW j \in Nat, j \in G PROVE j + 1 \in G
  <2> SUFFICES ASSUME j + 1 <= n PROVE h[j + 1] = Substituted(s, Firsts(order, j + 1), values)
    OBVIOUS
  <2>1. h[j] = Substituted(s, Firsts(order, j), values)
    BY <1>3, <1>5
  <2>2. j + 1 \in 1 .. n /\ (j + 1) - 1 = j
    BY <1>3
  <2>3. h[j + 1] = Filled(h[j], order[j + 1], values)
    BY <1>2, <2>2
  <2>4. Firsts(order, j + 1) = Firsts(order, j) \union {order[j + 1]} /\ Firsts(order, j + 1) \subseteq K
    <3>1. 1 .. j + 1 = (1 .. j) \union {j + 1} /\ 1 .. j + 1 \subseteq 1 .. n
      BY <1>3, <2>2
    <3> QED BY <1>3, <3>1 DEF Firsts
  <2> DEFINE M == Firsts(order, j)
             k == order[j + 1]
  <2>5. \A i \in M \union {k} : values[i] \in Seq(L)
    BY <2>4
  <2> HIDE DEF M, k
  <2>6. Filled(Substituted(s, M, values), k, values) = Substituted(s, M \union {k}, values)
    BY <2>5, FillsOneMore
  <2> QED BY <2>1, <2>3, <2>4, <2>6 DEF M, k
<1> HIDE DEF G
<1>6. \A j \in Nat : j \in G
  BY <1>4, <1>5, NatFromSet
<1>7. h[n] = Substituted(s, Firsts(order, n), values)
  BY <1>3, <1>6 DEF G
<1> QED BY <1>2, <1>7 DEF n, filled

-----------------------------------------------------------------------------
(* The orders of a map                                                     *)

LEMMA OrderIsWhole ==
  ASSUME NEW map, IsFiniteSet(DOMAIN map), NEW order \in Orders(map)
  PROVE  /\ order \in Seq(DOMAIN map) /\ Len(order) = Cardinality(DOMAIN map)
         /\ Firsts(order, Len(order)) = DOMAIN map
         /\ \A i, j \in 1 .. Len(order) : i # j => order[i] # order[j]
<1> DEFINE K == DOMAIN map
           n == Cardinality(K)
<1>1. n \in Nat
  BY FS_CardinalityType
<1>2. order \in [1 .. n -> K] /\ \A i, j \in 1 .. n : i # j => order[i] # order[j]
  BY DEF Orders, SetToSeqs
<1> HIDE DEF K, n
<1>3. order \in Injection(1 .. n, K)
  BY <1>2 DEF Injection, IsInjective
<1>4. IsFiniteSet(1 .. n) /\ Cardinality(1 .. n) = n
  BY <1>1, FS_Interval
<1>5. order \in Surjection(1 .. n, K)
  BY <1>3, <1>4, FS_Injection DEF K, n
<1>6. \A k \in K : \E i \in 1 .. n : order[i] = k
  BY <1>5 DEF Surjection
<1>7. order \in Seq(K) /\ Len(order) = n
  BY <1>1, <1>2
<1>8. \A i \in 1 .. n : order[i] \in K
  BY <1>2
<1>9. Firsts(order, n) = K
  BY <1>6, <1>8 DEF Firsts
<1> QED BY <1>2, <1>7, <1>9 DEF K, n

LEMMA SortedIsOrder ==
  ASSUME NEW map, NEW n \in Nat, DOMAIN map = 1 .. n
  PROVE  SortedKeys(map) \in Orders(map)
<1> DEFINE order == [i \in 1 .. n |-> i]
<1>1. Cardinality(1 .. n) = n
  BY FS_Interval
<1>2. order \in [1 .. n -> 1 .. n] /\ \A i, j \in 1 .. n : i # j => order[i] # order[j]
  OBVIOUS
<1>3. order \in Orders(map) /\ \A i, j \in DOMAIN order : i < j => order[i] < order[j]
  BY <1>1, <1>2 DEF Orders, SetToSeqs
<1> QED BY <1>3 DEF SortedKeys

-----------------------------------------------------------------------------
(* Listings: sequences that have every member of a set, and, where once is *)
(* true, none of them twice                                                *)

Listing(s, S, once) ==
  /\ s \in Seq(S)
  /\ \A x \in S : \E i \in 1 .. Len(s) : s[i] = x
  /\ once = TRUE => \A i, j \in 1 .. Len(s) : s[i] = s[j] => i = j

LEMMA ListingCovers ==
  ASSUME NEW once, NEW s, NEW S, Listing(s, S, once) PROVE ToSet(s) = S
<1>1. /\ DOMAIN s = 1 .. Len(s) /\ \A i \in 1 .. Len(s) : s[i] \in S
      /\ \A x \in S : \E i \in 1 .. Len(s) : s[i] = x
  BY DEF Listing
<1> QED BY <1>1 DEF ToSet

LEMMA ListingCounts ==
  ASSUME NEW s, NEW S, Listing(s, S, TRUE)
  PROVE  IsFiniteSet(S) /\ Cardinality(S) = Len(s)
<1> DEFINE n == Len(s)
<1>1. /\ n \in Nat /\ DOMAIN s = 1 .. n /\ s \in [1 .. n -> S]
      /\ \A x \in S : \E i \in 1 .. n : s[i] = x
      /\ \A i, j \in 1 .. n : s[i] = s[j] => i = j
  BY DEF Listing
<1> HIDE DEF n
<1>2. s \in Injection(1 .. n, S) /\ s \in Surjection(1 .. n, S)
  BY <1>1 DEF Injection, Surjection, IsInjective
<1>3. IsFiniteSet(1 .. n) /\ Cardinality(1 .. n) = n
  BY <1>1, FS_Interval
<1> QED BY <1>2, <1>3, FS_Surjection DEF n

LEMMA CatIs ==
  ASSUME NEW T, NEW a \in Seq(T), NEW b \in Seq(T)
  PROVE  /\ Len(Cat(a, b)) = Len(a) + Len(b)
         /\ \A i \in 1 .. Len(a) : Cat(a, b)[i] = a[i]
         /\ \A i \in 1 .. Len(b) : Cat(a, b)[Len(a) + i] = b[i]
<1>1. /\ Len(a \o b) = Len(a) + Len(b)
      /\ \A i \in 1 .. Len(a) + Len(b) :
           (a \o b)[i] = IF i <= Len(a) THEN a[i] ELSE b[i - Len(a)]
  BY ConcatProperties
<1>2. Len(a) \in Nat /\ Len(b) \in Nat
  OBVIOUS
<1>3. \A i \in 1 .. Len(b) : /\ Len(a) + i \in 1 .. Len(a) + Len(b)
                             /\ ~ Len(a) + i <= Len(a) /\ (Len(a) + i) - Len(a) = i
  BY <1>2
<1> QED BY <1>1, <1>2, <1>3 DEF Cat

LEMMA ListingsJoin ==
  ASSUME NEW once, NEW T, NEW A \in SUBSET T, NEW B \in SUBSET T,
         once = TRUE => A \cap B = {},
         NEW a, Listing(a, A, once), NEW b, Listing(b, B, once)
  PROVE  Listing(Cat(a, b), A \union B, once)
<1> DEFINE n == Len(a)
           m == Len(b)
           c == Cat(a, b)
           U == A \union B
<1>1. a \in Seq(A) /\ b \in Seq(B) /\ a \in Seq(U) /\ b \in Seq(U) /\ n \in Nat /\ m \in Nat
  BY DEF Listing
<1>2. c \in Seq(U) /\ Len(c) = n + m
  BY <1>1, CatFacts, CatIs
<1>3. /\ \A i \in 1 .. n : c[i] = a[i]
      /\ \A i \in 1 .. m : c[n + i] = b[i]
  BY <1>1, CatIs
<1>4. /\ \A i \in 1 .. n : a[i] \in A
      /\ \A i \in 1 .. m : b[i] \in B
  BY <1>1
<1>5. /\ \A x \in A : \E i \in 1 .. n : a[i] = x
      /\ \A x \in B : \E i \in 1 .. m : b[i] = x
      /\ once = TRUE => /\ \A i, j \in 1 .. n : a[i] = a[j] => i = j
                        /\ \A i, j \in 1 .. m : b[i] = b[j] => i = j
  BY DEF Listing
<1> HIDE DEF n, m, c
<1>6. ASSUME NEW x \in U PROVE \E i \in 1 .. n + m : c[i] = x
  <2>1. CASE x \in A
    <3>1. PICK i \in 1 .. n : a[i] = x
      BY <1>5, <2>1
    <3>2. i \in 1 .. n + m /\ c[i] = x
      BY <1>1, <1>3, <3>1
    <3> QED BY <3>2
  <2>2. CASE x \in B
    <3>1. PICK i \in 1 .. m : b[i] = x
      BY <1>5, <2>2
    <3>2. n + i \in 1 .. n + m /\ c[n + i] = x
      BY <1>1, <1>3, <3>1
    <3> QED BY <3>2
  <2> QED BY <2>1, <2>2
<1>7. ASSUME NEW i \in 1 .. n + m
      PROVE  \/ i \in 1 .. n /\ c[i] = a[i] /\ c[i] \in A
             \/ i - n \in 1 .. m /\ c[i] = b[i - n] /\ c[i] \in B
  <2>1. CASE i <= n
    <3>1. i \in 1 .. n
      BY <1>1, <2>1
    <3> QED BY <1>3, <1>4, <3>1
  <2>2. CASE i > n
    <3>1. i - n \in 1 .. m /\ n + (i - n) = i
      BY <1>1, <2>2
    <3> QED BY <1>3, <1>4, <3>1
  <2> QED BY <1>1, <2>1, <2>2
<1>8. ASSUME once = TRUE, NEW i \in 1 .. n + m, NEW j \in 1 .. n + m, c[i] = c[j]
      PROVE  i = j
  <2>1. CASE i \in 1 .. n /\ c[i] = a[i] /\ c[i] \in A
    <3>1. j \in 1 .. n /\ c[j] = a[j]
      BY <1>7, <1>8, <2>1
    <3>2. a[i] = a[j]
      BY <1>8, <2>1, <3>1, Zenon
    <3> QED BY <1>5, <1>8, <2>1, <3>1, <3>2
  <2>2. CASE i - n \in 1 .. m /\ c[i] = b[i - n] /\ c[i] \in B
    <3>1. j - n \in 1 .. m /\ c[j] = b[j - n]
      BY <1>7, <1>8, <2>2
    <3>2. i - n = j - n
      BY <1>5, <1>8, <2>2, <3>1
    <3> QED BY <1>1, <3>2
  <2> QED BY <1>7, <2>1, <2>2
<1> QED BY <1>2, <1>6, <1>8 DEF Listing, n, m, c

\* Pairwise disjoint listings, one after the other.
Members(parts, n) == UNION {parts[i] : i \in 1 .. n}

LEMMA ListingsFlatten ==
  ASSUME NEW once, NEW T, NEW parts,
         once = TRUE => \A i, j \in DOMAIN parts : i # j => parts[i] \cap parts[j] = {}
  PROVE  \A ss \in Seq(Seq(T)) :
           (\A i \in 1 .. Len(ss) : i \in DOMAIN parts /\ parts[i] \subseteq T
                                    /\ Listing(ss[i], parts[i], once))
           => Listing(FlattenSeq(ss), Members(parts, Len(ss)), once)
<1> DEFINE U == Seq(T)
           H(ss) == \A i \in 1 .. Len(ss) : i \in DOMAIN parts /\ parts[i] \subseteq T
                                            /\ Listing(ss[i], parts[i], once)
           P(ss) == Listing(FlattenSeq(ss), Members(parts, Len(ss)), once)
           G == {ss \in Seq(U) : H(ss) => P(ss)}
<1>1. P(<<>>)
  <2>1. FlattenSeq(<<>>) = <<>> /\ Len(<<>>) = 0 /\ Members(parts, 0) = {}
    BY FlattenEmpty DEF Members
  <2>2. Listing(<<>>, {}, once)
    BY DEF Listing
  <2> QED BY <2>1, <2>2
<1>2. ASSUME NEW ss \in Seq(U), NEW e \in U, H(ss) => P(ss), H(Add(ss, e))
      PROVE  P(Add(ss, e))
  <2> DEFINE n == Len(ss)
             tt == Add(ss, e)
  <2>1. /\ n \in Nat /\ tt \in Seq(U) /\ Len(tt) = n + 1 /\ tt[n + 1] = e
        /\ \A i \in 1 .. n : tt[i] = ss[i]
    BY AppendProperties DEF Add
  <2>2. FlattenSeq(tt) = Cat(FlattenSeq(ss), e)
    BY FlattenAdd
  <2> HIDE DEF tt
  <2>3. H(tt)
    BY <1>2 DEF tt
  <2>4. n + 1 \in 1 .. Len(tt) /\ \A i \in 1 .. n : i \in 1 .. Len(tt)
    BY <2>1
  <2>5. n + 1 \in DOMAIN parts /\ parts[n + 1] \subseteq T /\ Listing(e, parts[n + 1], once)
    BY <2>1, <2>3, <2>4
  <2>6. ASSUME NEW i \in 1 .. n
        PROVE  /\ i \in DOMAIN parts /\ parts[i] \subseteq T /\ Listing(ss[i], parts[i], once)
               /\ i # n + 1
    BY <2>1, <2>3, <2>4
  <2>7. P(ss)
    BY <1>2, <2>6
  <2> DEFINE A == Members(parts, n)
             B == parts[n + 1]
  <2>8. A \in SUBSET T /\ B \in SUBSET T /\ (once = TRUE => A \cap B = {})
    BY <2>5, <2>6 DEF Members
  <2>9. Members(parts, n + 1) = A \union B
    <3>1. 1 .. n + 1 = (1 .. n) \union {n + 1}
      BY <2>1
    <3> QED BY <3>1 DEF Members
  <2>10. Listing(FlattenSeq(ss), A, once) /\ Listing(e, B, once)
    BY <2>5, <2>7
  <2> HIDE DEF A, B
  <2>11. Listing(Cat(FlattenSeq(ss), e), A \union B, once)
    BY <2>8, <2>10, ListingsJoin
  <2>12. Listing(FlattenSeq(tt), Members(parts, Len(tt)), once)
    BY <2>1, <2>2, <2>9, <2>11
  <2> QED BY <2>12 DEF tt
<1> HIDE DEF U, H, P
<1>3. <<>> \in G
  BY <1>1, CatFacts
<1>4. ASSUME NEW ss \in Seq(U), NEW e \in U, ss \in G PROVE Add(ss, e) \in G
  BY <1>2, <1>4, CatFacts
<1> HIDE DEF G
<1>5. \A ss \in Seq(U) : ss \in G
  BY <1>3, <1>4, SeqFromAdd
<1> QED BY <1>5 DEF G, U, H, P

-----------------------------------------------------------------------------
(* The combinations of a map                                               *)

AllValues(map) == UNION {ToSet(map[k]) : k \in DOMAIN map}

\* The choices for the keys of D.
Chosen(map, D) == {f \in [D -> AllValues(map)] : \A k \in D : f[k] \in ToSet(map[k])}
SomeChosen(map) == UNION {Chosen(map, D) : D \in SUBSET DOMAIN map}

\* What one more key makes of a combination, and of all of them.
WithKey(map, f, k) == [v \in DOMAIN map[k] |-> Insert(f, k, map[k][v])]
AllWithKey(map, acc, k) == [c \in DOMAIN acc |-> WithKey(map, acc[c], k)]
Deepened(map, acc, k) == FlattenSeq(AllWithKey(map, acc, k))

IsParams(map) ==
  /\ \E n \in Nat : DOMAIN map = 1 .. n
  /\ \A k \in DOMAIN map : \E U : map[k] \in Seq(U)
Distinct(map) == \A k \in DOMAIN map : IsInjective(map[k])

LEMMA KeyFacts ==
  ASSUME NEW map, IsParams(map), NEW k \in DOMAIN map
  PROVE  /\ Len(map[k]) \in Nat /\ DOMAIN map[k] = 1 .. Len(map[k])
         /\ \A i \in 1 .. Len(map[k]) : map[k][i] \in ToSet(map[k])
         /\ \A x \in ToSet(map[k]) : \E i \in 1 .. Len(map[k]) : map[k][i] = x
         /\ ToSet(map[k]) \subseteq AllValues(map)
<1> DEFINE s == map[k]
<1>1. PICK U : s \in Seq(U)
  BY DEF IsParams
<1>2. ToSet(s) \subseteq AllValues(map)
  BY DEF AllValues
<1> HIDE DEF s
<1>3. Len(s) \in Nat /\ DOMAIN s = 1 .. Len(s)
  BY <1>1
<1>4. ToSet(s) = {s[i] : i \in 1 .. Len(s)}
  BY <1>3 DEF ToSet
<1> QED BY <1>2, <1>3, <1>4 DEF s

LEMMA InsertChooses ==
  ASSUME NEW map, IsParams(map), NEW D \in SUBSET DOMAIN map, NEW k \in DOMAIN map, k \notin D,
         NEW f \in Chosen(map, D), NEW x \in ToSet(map[k])
  PROVE  /\ Insert(f, k, x) \in Chosen(map, D \union {k})
         /\ DOMAIN Insert(f, k, x) = D \union {k}
         /\ Insert(f, k, x)[k] = x /\ \A i \in D : Insert(f, k, x)[i] = f[i]
<1> DEFINE g == Insert(f, k, x)
<1>1. f \in [D -> AllValues(map)] /\ \A i \in D : f[i] \in ToSet(map[i])
  BY DEF Chosen
<1>2. DOMAIN f = D
  BY <1>1
<1>3. /\ g = [i \in D \union {k} |-> g[i]]
      /\ g[k] = x /\ \A i \in D : g[i] = f[i]
  BY <1>2 DEF Insert
<1>4. x \in AllValues(map)
  BY KeyFacts
<1> HIDE DEF g
<1>5. \A i \in D \union {k} : g[i] \in AllValues(map) /\ g[i] \in ToSet(map[i])
  BY <1>1, <1>3, <1>4
<1>6. g \in Chosen(map, D \union {k})
  BY <1>3, <1>5 DEF Chosen
<1> QED BY <1>3, <1>6 DEF g

LEMMA WithKeyLists ==
  ASSUME NEW once, NEW map, IsParams(map), once = TRUE => Distinct(map),
         NEW D \in SUBSET DOMAIN map, NEW k \in DOMAIN map, k \notin D,
         NEW f \in Chosen(map, D)
  PROVE  Listing(WithKey(map, f, k), {Insert(f, k, x) : x \in ToSet(map[k])}, once)
<1> DEFINE n == Len(map[k])
           S == {Insert(f, k, x) : x \in ToSet(map[k])}
           b == WithKey(map, f, k)
<1>1. n \in Nat /\ DOMAIN map[k] = 1 .. n
  BY KeyFacts
<1>2. b = [v \in 1 .. n |-> b[v]] /\ \A v \in 1 .. n : b[v] = Insert(f, k, map[k][v])
  BY <1>1 DEF WithKey
<1>3. /\ \A i \in 1 .. n : map[k][i] \in ToSet(map[k])
      /\ \A x \in ToSet(map[k]) : \E i \in 1 .. n : map[k][i] = x
  BY KeyFacts
<1>10. once = TRUE => \A i, j \in 1 .. n : map[k][i] = map[k][j] => i = j
  BY <1>1 DEF Distinct, IsInjective
<1> HIDE DEF n, b
<1>4. \A v \in 1 .. n : b[v] \in S
  BY <1>2, <1>3
<1>5. \A y \in S : \E i \in 1 .. n : b[i] = y
  BY <1>2, <1>3
<1>6. ASSUME NEW v \in 1 .. n PROVE b[v][k] = map[k][v]
  <2> DEFINE x == map[k][v]
  <2>1. x \in ToSet(map[k]) /\ b[v] = Insert(f, k, x)
    BY <1>2, <1>3
  <2> HIDE DEF x
  <2>2. Insert(f, k, x)[k] = x
    BY DEF Insert
  <2> QED BY <2>1, <2>2 DEF x
<1>7. once = TRUE => \A i, j \in 1 .. n : b[i] = b[j] => i = j
  BY <1>6, <1>10
<1> HIDE DEF S
<1>8. b \in Seq(S) /\ Len(b) = n
  BY <1>1, <1>2, <1>4
<1>9. Listing(b, S, once)
  BY <1>5, <1>7, <1>8 DEF Listing
<1> QED BY <1>9 DEF b, S

LEMMA DeepenedLists ==
  ASSUME NEW once, NEW map, IsParams(map), once = TRUE => Distinct(map),
         NEW D \in SUBSET DOMAIN map, NEW k \in DOMAIN map, k \notin D,
         NEW acc, Listing(acc, Chosen(map, D), once)
  PROVE  Listing(Deepened(map, acc, k), Chosen(map, D \union {k}), once)
<1> DEFINE n == Len(acc)
           C == Chosen(map, D)
           E == Chosen(map, D \union {k})
           ss == AllWithKey(map, acc, k)
           longer(f) == {Insert(f, k, x) : x \in ToSet(map[k])}
           parts == [c \in 1 .. n |-> longer(acc[c])]
<1>1. /\ n \in Nat /\ DOMAIN acc = 1 .. n /\ \A c \in 1 .. n : acc[c] \in C
      /\ \A f \in C : \E c \in 1 .. n : acc[c] = f
      /\ once = TRUE => \A i, j \in 1 .. n : acc[i] = acc[j] => i = j
  BY DEF Listing
<1>2. \A f \in C : /\ longer(f) \subseteq E
                   /\ Listing(WithKey(map, f, k), longer(f), once)
  <2> TAKE f \in C
  <2>1. longer(f) \subseteq E
    BY InsertChooses
  <2>2. Listing(WithKey(map, f, k), longer(f), once)
    BY WithKeyLists
  <2> QED BY <2>1, <2>2
<1>3. ss = [c \in 1 .. n |-> ss[c]] /\ \A c \in 1 .. n : ss[c] = WithKey(map, acc[c], k)
  BY <1>1 DEF AllWithKey
<1>4. DOMAIN parts = 1 .. n /\ \A c \in 1 .. n : parts[c] = longer(acc[c])
  OBVIOUS
<1>5. ASSUME NEW f \in C, NEW g \in longer(f) PROVE \A i \in D : g[i] = f[i]
  <2>1. PICK x \in ToSet(map[k]) : g = Insert(f, k, x)
    OBVIOUS
  <2>2. DOMAIN f = D
    BY DEF Chosen
  <2> QED BY <2>1, <2>2 DEF Insert
<1>6. \A f \in C : f \in [D -> AllValues(map)]
  BY DEF Chosen
<1> HIDE DEF longer, parts, n, C, ss
<1>7. \A c \in 1 .. n : parts[c] \subseteq E /\ Listing(ss[c], parts[c], once)
  BY <1>1, <1>2, <1>3, <1>4
<1>8. ASSUME once = TRUE, NEW i \in 1 .. n, NEW j \in 1 .. n, i # j
      PROVE  parts[i] \cap parts[j] = {}
  <2> SUFFICES ASSUME NEW g \in parts[i], g \in parts[j] PROVE FALSE
    OBVIOUS
  <2>1. \A x \in D : acc[i][x] = acc[j][x]
    BY <1>1, <1>4, <1>5
  <2>2. acc[i] = acc[j]
    <3>1. acc[i] \in [D -> AllValues(map)] /\ acc[j] \in [D -> AllValues(map)]
      BY <1>1, <1>6
    <3> QED BY <2>1, <3>1
  <2> QED BY <1>1, <1>8, <2>2
<1>9. ss \in Seq(Seq(E)) /\ Len(ss) = n
  <2>1. \A c \in 1 .. n : ss[c] \in Seq(parts[c])
    BY <1>7 DEF Listing
  <2>2. \A c \in 1 .. n : ss[c] \in Seq(E)
    <3> TAKE c \in 1 .. n
    <3>1. parts[c] \subseteq E /\ ss[c] \in Seq(parts[c])
      BY <1>7, <2>1
    <3> HIDE DEF E
    <3> QED BY <3>1
  <2> HIDE DEF E
  <2> QED BY <1>1, <1>3, <2>2
<1>10. Listing(FlattenSeq(ss), Members(parts, n), once)
  BY <1>4, <1>7, <1>8, <1>9, ListingsFlatten
<1>11. Members(parts, n) = E
  <2>1. Members(parts, n) \subseteq E
    BY <1>7 DEF Members
  <2>2. ASSUME NEW g \in E PROVE g \in Members(parts, n)
    <3> DEFINE f == [i \in D |-> g[i]]
    <3>1. /\ g \in [D \union {k} -> AllValues(map)]
          /\ \A i \in D \union {k} : g[i] \in ToSet(map[i])
      BY DEF Chosen
    <3>2. f \in C
      BY <3>1 DEF Chosen, C
    <3>3. g = Insert(f, k, g[k])
      BY <3>1 DEF Insert
    <3>4. g \in longer(f)
      BY <3>1, <3>3 DEF longer
    <3> HIDE DEF f
    <3>5. PICK c \in 1 .. n : acc[c] = f
      BY <1>1, <3>2
    <3> QED BY <1>4, <3>4, <3>5 DEF Members
  <2> QED BY <2>1, <2>2
<1> QED BY <1>10, <1>11 DEF ss, Deepened

\* The fold of Combinations.
Deepens(map, order, g) ==
  g = [t \in SUBSET (DOMAIN order) |->
         IF t = {} THEN << <<>> >> ELSE Deepened(map, g[t \ {Max(t)}], order[Max(t)])]
DeepenedBy(map, order) == (CHOOSE g : Deepens(map, order, g))[DOMAIN order]

LEMMA CombinationsIs ==
  ASSUME NEW map, map # <<>>
  PROVE  Combinations(map) = DeepenedBy(map, SortedKeys(map))
BY DEF Combinations, FoldLeft, MapThenFoldSet, DeepenedBy, Deepens, Deepened, AllWithKey, WithKey

LEMMA NoCombinations == Combinations(<<>>) = <<>>
BY Zenon DEF Combinations

LEMMA InsertStays ==
  ASSUME NEW map, IsParams(map), NEW k \in DOMAIN map,
         NEW f \in SomeChosen(map), NEW x \in ToSet(map[k])
  PROVE  Insert(f, k, x) \in SomeChosen(map)
<1>1. PICK D \in SUBSET DOMAIN map : f \in Chosen(map, D)
  BY DEF SomeChosen
<1> DEFINE g == Insert(f, k, x)
           E == D \union {k}
<1>2. f \in [D -> AllValues(map)] /\ \A i \in D : f[i] \in ToSet(map[i])
  BY <1>1 DEF Chosen
<1>3. x \in AllValues(map)
  BY KeyFacts
<1>4. DOMAIN f = D
  BY <1>2
<1>5. /\ g = [i \in E |-> g[i]] /\ g[k] = x
      /\ \A i \in E : i # k => g[i] = f[i]
  BY <1>4 DEF Insert
<1> HIDE DEF g
<1>6. \A i \in E : g[i] \in AllValues(map) /\ g[i] \in ToSet(map[i])
  BY <1>2, <1>3, <1>5
<1>7. g \in Chosen(map, E)
  BY <1>5, <1>6 DEF Chosen
<1>8. E \in SUBSET DOMAIN map
  OBVIOUS
<1> HIDE DEF E
<1>9. g \in SomeChosen(map)
  BY <1>7, <1>8 DEF SomeChosen
<1> QED BY <1>9 DEF g

LEMMA DeepenedType ==
  ASSUME NEW map, IsParams(map), NEW k \in DOMAIN map, NEW acc \in Seq(SomeChosen(map))
  PROVE  Deepened(map, acc, k) \in Seq(SomeChosen(map))
<1> DEFINE F == SomeChosen(map)
           n == Len(acc)
           m == Len(map[k])
           ss == AllWithKey(map, acc, k)
<1>1. n \in Nat /\ DOMAIN acc = 1 .. n /\ \A c \in 1 .. n : acc[c] \in F
  OBVIOUS
<1>2. /\ m \in Nat /\ DOMAIN map[k] = 1 .. m
      /\ \A v \in 1 .. m : map[k][v] \in ToSet(map[k])
  BY KeyFacts
<1>3. \A f \in F : \A x \in ToSet(map[k]) : Insert(f, k, x) \in F
  BY InsertStays
<1>4. ss = [c \in 1 .. n |-> WithKey(map, acc[c], k)]
  BY <1>1 DEF AllWithKey
<1> HIDE DEF F, n, m
<1>5. ASSUME NEW f \in F PROVE WithKey(map, f, k) \in Seq(F)
  <2>1. WithKey(map, f, k) = [v \in 1 .. m |-> Insert(f, k, map[k][v])]
    BY <1>2 DEF WithKey
  <2>2. \A v \in 1 .. m : Insert(f, k, map[k][v]) \in F
    BY <1>2, <1>3
  <2> QED BY <1>2, <2>1, <2>2
<1>6. \A c \in 1 .. n : WithKey(map, acc[c], k) \in Seq(F)
  BY <1>1, <1>5
<1> DEFINE U == Seq(F)
<1>7. \A c \in 1 .. n : WithKey(map, acc[c], k) \in U
  BY <1>6
<1> HIDE DEF U, ss
<1>8. ss \in Seq(U)
  BY <1>1, <1>4, <1>7
<1>9. FlattenSeq(ss) \in Seq(F)
  BY <1>8, FlattenIsSeq DEF U
<1> QED BY <1>9 DEF ss, F, Deepened

\* The table of the steps.
DeepStep(map) == [a \in Seq(SomeChosen(map)) \X DOMAIN map |-> Deepened(map, a[1], a[2])]

LEMMA FirstCombination ==
  ASSUME NEW once, NEW map
  PROVE  Listing(<< <<>> >>, Chosen(map, {}), once) /\ << <<>> >> \in Seq(SomeChosen(map))
<1>1. Chosen(map, {}) = {<<>>}
  <2> DEFINE V == AllValues(map)
  <2>1. <<>> \in [{} -> V] /\ \A f \in [{} -> V] : f = <<>>
    OBVIOUS
  <2>2. Chosen(map, {}) = [{} -> V]
    BY DEF Chosen
  <2> HIDE DEF V
  <2> QED BY <2>1, <2>2
<1>2. <<>> \in SomeChosen(map)
  BY <1>1 DEF SomeChosen
<1> DEFINE none == <<>>
<1>3. Chosen(map, {}) = {none} /\ none \in SomeChosen(map)
  BY <1>1, <1>2
<1> HIDE DEF none
<1>4. Listing(<<none>>, {none}, once) /\ <<none>> \in Seq(SomeChosen(map))
  BY <1>3 DEF Listing
<1> QED BY <1>3, <1>4 DEF none

LEMMA DeepensCourse ==
  ASSUME NEW map, IsParams(map), NEW order \in Seq(DOMAIN map)
  PROVE  \E h : /\ h[0] = << <<>> >>
                /\ \A j \in 1 .. Len(order) : h[j] = Deepened(map, h[j - 1], order[j])
                /\ DeepenedBy(map, order) = h[Len(order)]
<1> DEFINE st == DeepStep(map)
           A == Seq(SomeChosen(map))
           K == DOMAIN map
           one == << <<>> >>
           n == Len(order)
           D == 1 .. n
           c == CHOOSE g : Deepens(map, order, g)
<1>1. st \in [A \X K -> A] /\ \A a \in A, k \in K : st[<<a, k>>] = Deepened(map, a, k)
  <2>1. \A a \in A, k \in K : Deepened(map, a, k) \in A
    BY DeepenedType
  <2> HIDE DEF A
  <2>2. st = [a \in A \X K |-> Deepened(map, a[1], a[2])]
    BY DEF DeepStep, A
  <2> HIDE DEF st, K
  <2> QED BY <2>1, <2>2
<1>2. n \in Nat /\ DOMAIN order = D /\ \A i \in D : order[i] \in K
  OBVIOUS
<1>3. one \in A
  BY FirstCombination
<1>4. order \in Seq(K) /\ n <= Len(order)
  OBVIOUS
<1>5. \A t : Deepens(map, order, t) <=>
             t = [u \in SUBSET (DOMAIN order) |->
                    IF u = {} THEN one ELSE Deepened(map, t[u \ {Max(u)}], order[Max(u)])]
  BY DEF Deepens
<1> HIDE DEF st, n, A, K, one
<1>6. PICK g \in [SUBSET D -> A] : Descent(st, one, order, D, g)
  <2>1. Descends(A, st, one, order, n)
    BY <1>1, <1>2, <1>3, <1>4, DescentExists
  <2> QED BY <2>1 DEF Descends
<1>7. \A t \in SUBSET D : t # {} => Max(t) \in t
  BY <1>2, MaxIsIn
<1>8. \A t \in SUBSET D :
        g[t] = IF t = {} THEN one ELSE Deepened(map, g[t \ {Max(t)}], order[Max(t)])
  <2> TAKE t \in SUBSET D
  <2>1. CASE t = {}
    BY <1>6, <2>1 DEF Descent
  <2>2. CASE t # {}
    <3>1. order[Max(t)] \in K /\ t \ {Max(t)} \in SUBSET D
      BY <1>2, <1>7, <2>2
    <3>2. g[t \ {Max(t)}] \in A
      BY <3>1
    <3> QED BY <1>1, <1>6, <2>2, <3>1, <3>2 DEF Descent
  <2> QED BY <2>1, <2>2
<1>9. g = [t \in SUBSET D |-> g[t]]
  OBVIOUS
<1>10. Deepens(map, order, g)
  BY <1>2, <1>5, <1>8, <1>9
<1>11. Deepens(map, order, c)
  BY <1>10
<1> HIDE DEF c
<1> DEFINE h == [j \in 0 .. n |-> c[1 .. j]]
<1>12. \A j \in 0 .. n : h[j] = c[1 .. j]
  OBVIOUS
<1> HIDE DEF h
<1>13. \A t \in SUBSET D :
         c[t] = IF t = {} THEN one ELSE Deepened(map, c[t \ {Max(t)}], order[Max(t)])
  <2>1. c = [u \in SUBSET D |->
               IF u = {} THEN one ELSE Deepened(map, c[u \ {Max(u)}], order[Max(u)])]
    BY <1>2, <1>5, <1>11
  <2> TAKE t \in SUBSET D
  <2> HIDE DEF D
  <2> QED BY <2>1
<1>14. h[0] = one
  <2>1. 1 .. 0 = {} /\ 0 \in 0 .. n /\ {} \in SUBSET D
    BY <1>2
  <2>2. c[{}] = one
    BY <1>13
  <2> QED BY <1>12, <2>1, <2>2
<1>15. ASSUME NEW j \in 1 .. n PROVE h[j] = Deepened(map, h[j - 1], order[j])
  <2>1. /\ j - 1 \in 0 .. n /\ j \in 0 .. n
        /\ 1 .. j \in SUBSET D /\ 1 .. j # {} /\ (1 .. j) \ {j} = 1 .. j - 1 /\ Max(1 .. j) = j
    BY <1>2, PrefixFacts
  <2>2. c[1 .. j] = Deepened(map, c[(1 .. j) \ {j}], order[j])
    BY <1>13, <2>1
  <2> QED BY <1>12, <2>1, <2>2
<1>16. h[n] = c[DOMAIN order]
  BY <1>2, <1>12
<1> QED BY <1>14, <1>15, <1>16 DEF c, n, one, DeepenedBy

\* Every choice of values, and once if no key has a value twice.
LEMMA CombinationsList ==
  ASSUME NEW once, NEW map, IsParams(map), once = TRUE => Distinct(map), map # <<>>
  PROVE  Listing(Combinations(map), Chosen(map, DOMAIN map), once)
<1> DEFINE order == SortedKeys(map)
           n == Len(order)
           K == DOMAIN map
           one == << <<>> >>
<1>1. PICK last \in Nat : K = 1 .. last
  BY DEF IsParams
<1>2. IsFiniteSet(K) /\ order \in Orders(map)
  BY <1>1, FS_Interval, SortedIsOrder
<1>3. /\ order \in Seq(K) /\ Firsts(order, n) = K
      /\ \A i, j \in 1 .. n : i # j => order[i] # order[j]
  BY <1>2, OrderIsWhole
<1>4. n \in Nat /\ \A i \in 1 .. n : order[i] \in K
  BY <1>3
<1>5. PICK h : /\ h[0] = one
               /\ \A j \in 1 .. n : h[j] = Deepened(map, h[j - 1], order[j])
               /\ Combinations(map) = h[n]
  <2>1. Combinations(map) = DeepenedBy(map, order) /\ order \in Seq(DOMAIN map)
    BY <1>3, CombinationsIs
  <2> HIDE DEF order
  <2>2. \E h : /\ h[0] = one
               /\ \A j \in 1 .. n : h[j] = Deepened(map, h[j - 1], order[j])
               /\ DeepenedBy(map, order) = h[n]
    BY <2>1, DeepensCourse
  <2> QED BY <2>1, <2>2
<1>6. Listing(one, Chosen(map, {}), once)
  BY FirstCombination
<1> HIDE DEF order, n, K, one
<1> DEFINE G == {j \in Nat : j <= n => Listing(h[j], Chosen(map, Firsts(order, j)), once)}
<1>7. 0 \in G
  <2>1. Firsts(order, 0) = {}
    BY DEF Firsts
  <2> QED BY <1>5, <1>6, <2>1
<1>8. ASSUME NEW j \in Nat, j \in G PROVE j + 1 \in G
  <2> SUFFICES ASSUME j + 1 <= n
               PROVE  Listing(h[j + 1], Chosen(map, Firsts(order, j + 1)), once)
    OBVIOUS
  <2> DEFINE D == Firsts(order, j)
             k == order[j + 1]
             acc == h[j]
  <2>1. Listing(acc, Chosen(map, D), once)
    BY <1>4, <1>8
  <2>2. j + 1 \in 1 .. n /\ (j + 1) - 1 = j /\ 1 .. j \subseteq 1 .. n
        /\ 1 .. j + 1 = (1 .. j) \union {j + 1} /\ \A i \in 1 .. j : i # j + 1
    BY <1>4
  <2>3. h[j + 1] = Deepened(map, acc, k)
    BY <1>5, <2>2
  <2>4. D \in SUBSET K /\ k \in K /\ k \notin D
    BY <1>3, <1>4, <2>2 DEF Firsts
  <2>5. Firsts(order, j + 1) = D \union {k}
    BY <2>2 DEF Firsts
  <2> HIDE DEF D, k, acc
  <2>6. Listing(Deepened(map, acc, k), Chosen(map, D \union {k}), once)
    BY <2>1, <2>4, DeepenedLists DEF K
  <2> QED BY <2>3, <2>5, <2>6
<1> HIDE DEF G
<1>9. \A j \in Nat : j \in G
  BY <1>7, <1>8, NatFromSet
<1>10. Listing(h[n], Chosen(map, Firsts(order, n)), once)
  BY <1>4, <1>9 DEF G
<1> QED BY <1>3, <1>5, <1>10 DEF K

-----------------------------------------------------------------------------
(* The replay of a loop's tasks                                            *)

Plain(map) ==
  \A k \in DOMAIN map : \A v \in DOMAIN map[k] :
    \A i \in DOMAIN map[k][v] : map[k][v][i][1] = "lit"

IsMap(map) == map \in Seq(Seq(Seq(Piece)))

TaskOf(text_, map, n, order) ==
  SubstituteTemplate(text_, <<>>, n - 1, Combinations(map)[n], order)

LEMMA MapFacts ==
  ASSUME NEW map, IsMap(map)
  PROVE  /\ IsParams(map) /\ IsFiniteSet(DOMAIN map) /\ DOMAIN map = 1 .. Len(map)
         /\ Len(map) \in Nat /\ \A k \in DOMAIN map : map[k] \in Seq(Seq(Piece))
<1> DEFINE T == Seq(Seq(Piece))
<1>1. map \in Seq(T)
  BY DEF IsMap
<1> HIDE DEF T
<1>2. Len(map) \in Nat /\ DOMAIN map = 1 .. Len(map) /\ \A k \in DOMAIN map : map[k] \in T
  BY <1>1
<1>3. IsFiniteSet(DOMAIN map)
  <2> DEFINE n == Len(map)
  <2>1. n \in Nat /\ DOMAIN map = 1 .. n
    BY <1>2
  <2> HIDE DEF n
  <2>2. IsFiniteSet(1 .. n)
    BY <2>1, FS_Interval
  <2> QED BY <2>1, <2>2
<1>4. IsParams(map)
  BY <1>2 DEF IsParams, T
<1> QED BY <1>2, <1>3, <1>4 DEF T

LEMMA PlainValues ==
  ASSUME NEW map, IsMap(map), Plain(map), NEW k \in DOMAIN map, NEW v \in ToSet(map[k])
  PROVE  v \in Seq({"lit"} \X STRING)
<1>1. map[k] \in Seq(Seq(Piece))
  BY MapFacts
<1>2. PICK i \in DOMAIN map[k] : v = map[k][i]
  BY DEF ToSet
<1>3. v \in Seq(Piece)
  BY <1>1, <1>2
<1>4. \A j \in DOMAIN v : v[j] \in Piece /\ v[j][1] = "lit"
  BY <1>2, <1>3 DEF Plain
<1>5. \A j \in DOMAIN v : v[j] \in {"lit"} \X STRING
  <2> TAKE j \in DOMAIN v
  <2> DEFINE x == v[j]
  <2>1. x \in Piece /\ x[1] = "lit"
    BY <1>4
  <2> HIDE DEF x
  <2>2. x \in {"lit"} \X STRING
    BY <2>1 DEF Piece
  <2> QED BY <2>2 DEF x
<1> QED BY <1>3, <1>5

LEMMA SameTask ==
  ASSUME NEW map, IsMap(map), Plain(map), NEW text_ \in Seq(Piece),
         NEW n \in 1 .. Len(Combinations(map)), NEW order \in Orders(map), NEW other \in Orders(map)
  PROVE  TaskOf(text_, map, n, order) = TaskOf(text_, map, n, other)
<1> DEFINE K == DOMAIN map
           values == Combinations(map)[n]
           number == Lit(ToString(n - 1))
           T == Piece \union {number}
           L == {"lit"} \X STRING
           s == FixedPart(text_, <<>>, n - 1)
<1>1. map # <<>>
  BY NoCombinations
<1>2. Listing(Combinations(map), Chosen(map, K), FALSE) /\ IsFiniteSet(K)
  BY <1>1, MapFacts, CombinationsList
<1>3. values \in Chosen(map, K)
  BY <1>2 DEF Listing
<1>4. \A k \in K : values[k] \in Seq(L)
  BY <1>3, PlainValues DEF Chosen
<1>5. number[1] = "lit"
  BY DEF Lit
<1> HIDE DEF number
<1>6. Literals(T, L)
  BY <1>5 DEF Literals, Piece, Dot, Bare
<1>7. s \in Seq(T)
  <2>1. text_ \in Seq(T) /\ <<>> \in Seq(T) /\ <<number>> \in Seq(T)
    BY CatFacts
  <2>2. Replace(text_, Item, <<>>) \in Seq(T)
    BY <2>1, ReplaceIsSeq
  <2>3. Replace(Replace(text_, Item, <<>>), Index, <<number>>) \in Seq(T)
    BY <2>1, <2>2, ReplaceIsSeq
  <2> QED BY <2>3 DEF FixedPart, number
<1> HIDE DEF s, T, L, values, K
<1>8. ASSUME NEW o \in Orders(map)
      PROVE  FilledBy(s, values, o) = Substituted(s, K, values)
  <2>1. o \in Seq(K) /\ Firsts(o, Len(o)) = K
    BY <1>2, OrderIsWhole DEF K
  <2> QED BY <1>4, <1>6, <1>7, <2>1, FilledAtOnce, SMTT(30)
<1>9. \A o \in Orders(map) :
        TaskOf(text_, map, n, o) = FilledBy(s, values, o)
  BY SubstituteIs DEF TaskOf, s, values
<1> QED BY <1>8, <1>9

Dispatches(tasks, text_, map) ==
  /\ tasks \in Seq({TaskOf(text_, map, n, order) : n \in Nat, order \in Orders(map)})
  /\ Len(tasks) <= Len(Combinations(map))
  /\ \A n \in 1 .. Len(tasks) : \E order \in Orders(map) :
       tasks[n] = TaskOf(text_, map, n, order)

\* Both sides have dispatched the first tasks of the loop, each with some
\* order of the keys.
ExpansionInv ==
  /\ IsMap(params)
  /\ template \in Seq(Piece)
  /\ Dispatches(dispatched, template, params)
  /\ Dispatches(replayed, template, params)

LEMMA CombinationsLen == ASSUME NEW map, IsMap(map) PROVE Len(Combinations(map)) \in Nat
<1>1. CASE map = <<>>
  BY <1>1, NoCombinations
<1>2. CASE map # <<>>
  <2>1. Listing(Combinations(map), Chosen(map, DOMAIN map), FALSE)
    BY <1>2, MapFacts, CombinationsList
  <2> QED BY <2>1 DEF Listing
<1> QED BY <1>1, <1>2

LEMMA DispatchesNone ==
  ASSUME NEW text_, NEW map, IsMap(map) PROVE Dispatches(<<>>, text_, map)
BY CombinationsLen DEF Dispatches

LEMMA DispatchesNext ==
  ASSUME NEW tasks, NEW text_, NEW map, IsMap(map), Dispatches(tasks, text_, map),
         Len(tasks) < Len(Combinations(map)), NEW order \in Orders(map)
  PROVE  Dispatches(Append(tasks, TaskOf(text_, map, Len(tasks) + 1, order)), text_, map)
<1> DEFINE T == {TaskOf(text_, map, n, o) : n \in Nat, o \in Orders(map)}
           len == Len(tasks)
           task == TaskOf(text_, map, len + 1, order)
           more_ == Append(tasks, task)
<1>1. tasks \in Seq(T) /\ len \in Nat
  BY DEF Dispatches
<1>2. task \in T
  BY <1>1
<1>3. \A n \in 1 .. len : \E o \in Orders(map) : tasks[n] = TaskOf(text_, map, n, o)
  BY DEF Dispatches
<1> HIDE DEF T
<1>4. /\ more_ \in Seq(T) /\ Len(more_) = len + 1 /\ more_[len + 1] = task
      /\ \A n \in 1 .. len : more_[n] = tasks[n]
  BY <1>1, <1>2, AppendProperties
<1>5. len + 1 <= Len(Combinations(map))
  BY <1>1, CombinationsLen
<1> HIDE DEF more_
<1>6. ASSUME NEW n \in 1 .. len + 1
      PROVE  \E o \in Orders(map) : more_[n] = TaskOf(text_, map, n, o)
  <2>1. CASE n = len + 1
    BY <1>4, <2>1
  <2>2. CASE n # len + 1
    <3>1. n \in 1 .. len
      BY <1>1, <2>2
    <3> QED BY <1>3, <1>4, <3>1
  <2> QED BY <2>1, <2>2
<1>7. Dispatches(more_, text_, map)
  BY <1>4, <1>5, <1>6 DEF Dispatches, T
<1> QED BY <1>7 DEF more_

LEMMA ExpansionStarts == ToolkitInit => ExpansionInv
<1> SUFFICES ASSUME ToolkitInit PROVE ExpansionInv
  OBVIOUS
<1>1. Maps # {} /\ Templates # {}
  BY ToolkitAssumption DEF ToolkitAssumption
<1>2. PICK i \in Maps, j \in Templates : ExpansionStart(i, j)
  BY <1>1, GivenIsInput DEF ToolkitInit
<1>3. IsMap(i) /\ j \in Seq(Piece)
  BY ToolkitAssumption DEF ToolkitAssumption, IsMap
<1>4. params = i /\ template = j /\ dispatched = <<>> /\ replayed = <<>>
  BY <1>2 DEF ExpansionStart
<1> QED BY <1>3, <1>4, DispatchesNone DEF ExpansionInv

LEMMA ExpansionSteps == ExpansionInv /\ [ExpansionNext]_expansionVars => ExpansionInv'
<1> SUFFICES ASSUME ExpansionInv, [ExpansionNext]_expansionVars PROVE ExpansionInv'
  OBVIOUS
<1>1. IsMap(params) /\ UNCHANGED <<params, template>>
  BY DEF ExpansionInv, ExpansionNext, Dispatch, Relocate, Replay, expansionVars
<1>2. CASE Dispatch
  <2>1. PICK order \in Orders(params) :
          dispatched' = Append(dispatched, TaskOf(template, params, Len(dispatched) + 1, order))
    BY <1>2 DEF Dispatch, Task, TaskOf
  <2>2. Len(dispatched) < Len(Combinations(params)) /\ UNCHANGED replayed
    BY <1>2 DEF Dispatch
  <2>3. Dispatches(dispatched', template, params)
    BY <1>1, <2>1, <2>2, DispatchesNext DEF ExpansionInv
  <2> QED BY <1>1, <2>2, <2>3 DEF ExpansionInv
<1>3. CASE Replay
  <2>1. PICK order \in Orders(params) :
          replayed' = Append(replayed, TaskOf(template, params, Len(replayed) + 1, order))
    BY <1>3 DEF Replay, Task, TaskOf
  <2>2. Len(replayed) < Len(Combinations(params)) /\ UNCHANGED dispatched
    BY <1>3 DEF Replay
  <2>3. Dispatches(replayed', template, params)
    BY <1>1, <2>1, <2>2, DispatchesNext DEF ExpansionInv
  <2> QED BY <1>1, <2>2, <2>3 DEF ExpansionInv
<1>4. CASE UNCHANGED <<dispatched, replayed>>
  BY <1>1, <1>4 DEF ExpansionInv
<1> QED BY <1>2, <1>3, <1>4 DEF ExpansionNext, Relocate, expansionVars

LEMMA ExpansionAgrees == ExpansionInv => ReplayAgrees
<1> SUFFICES ASSUME ExpansionInv PROVE ReplayAgrees
  OBVIOUS
<1> DEFINE common == IF Len(replayed) < Len(dispatched) THEN Len(replayed) ELSE Len(dispatched)
<1>1. IsMap(params) /\ template \in Seq(Piece)
  BY DEF ExpansionInv
<1>2. /\ Len(replayed) \in Nat /\ Len(dispatched) \in Nat
      /\ Len(replayed) <= Len(Combinations(params))
      /\ Len(Combinations(params)) \in Nat
  BY CombinationsLen DEF ExpansionInv, Dispatches
<1>6. Dispatches(dispatched, template, params) /\ Dispatches(replayed, template, params)
  BY DEF ExpansionInv
<1>3. ASSUME Plain(params), NEW n \in 1 .. common PROVE replayed[n] = dispatched[n]
  <2>1. n \in 1 .. Len(replayed) /\ n \in 1 .. Len(dispatched)
        /\ n \in 1 .. Len(Combinations(params))
    BY <1>2
  <2>2. PICK o \in Orders(params) : replayed[n] = TaskOf(template, params, n, o)
    BY <1>6, <2>1 DEF Dispatches
  <2>3. PICK p \in Orders(params) : dispatched[n] = TaskOf(template, params, n, p)
    BY <1>6, <2>1 DEF Dispatches
  <2> QED BY <1>1, <1>3, <2>1, <2>2, <2>3, SameTask
<1>4. ASSUME params # <<>>
      PROVE  ToSet(Combinations(params)) = Chosen(params, DOMAIN params)
  <2>1. Listing(Combinations(params), Chosen(params, DOMAIN params), FALSE)
    BY <1>1, <1>4, MapFacts, CombinationsList
  <2> QED BY <2>1, ListingCovers
<1>5. ASSUME params # <<>>, Distinct(params)
      PROVE  Len(Combinations(params)) = Cardinality(Chosen(params, DOMAIN params))
  <2>1. Listing(Combinations(params), Chosen(params, DOMAIN params), TRUE)
    BY <1>1, <1>5, MapFacts, CombinationsList
  <2> QED BY <2>1, ListingCounts
<1> HIDE DEF common
<1> QED BY <1>3, <1>4, <1>5 DEF ReplayAgrees, Plain, Distinct, Chosen, AllValues, common

\* As long as no value holds a placeholder, a replay dispatches the tasks of
\* the execution, whatever the orders in which either walks its maps; and its
\* combinations are all choices of values, for any map and any template.
THEOREM ReplaysAgree == ToolkitSpec => []ReplayAgrees
<1>1. ExpansionInv /\ [ToolkitNext]_toolkitVars => ExpansionInv'
  BY PartsStep, ExpansionSteps
<1> QED BY ExpansionStarts, ExpansionAgrees, <1>1, PTL DEF ToolkitSpec, toolkitVars

-----------------------------------------------------------------------------
(* Division                                                                *)

LEMMA DivFacts ==
  ASSUME NEW n \in Int, NEW b \in Nat \ {0}
  PROVE  /\ n \div b \in Int /\ n % b \in 0 .. b - 1 /\ n = (n \div b) * b + (n % b)
         /\ n \in Nat => n \div b \in Nat
<1>1. n \div b \in Int /\ n % b \in 0 .. b - 1 /\ n = (n \div b) * b + (n % b)
  OBVIOUS
<1>2. n \in Nat => n \div b \in Nat
  BY <1>1
<1> QED BY <1>1, <1>2

LEMMA Multiples ==
  ASSUME NEW x \in Int, NEW y \in Int, NEW b \in Nat, x < y PROVE x * b + b <= y * b
<1>1. y = x + 1 + (y - x - 1) /\ y - x - 1 \in Nat
  OBVIOUS
<1>2. PICK k \in Nat : y = x + 1 + k
  BY <1>1
<1>3. y * b = x * b + b + k * b /\ k * b \in Nat
  BY <1>2
<1> QED BY <1>3

LEMMA DivIs ==
  ASSUME NEW n \in Int, NEW b \in Nat \ {0}, NEW q \in Int, NEW r \in 0 .. b - 1, n = q * b + r
  PROVE  n \div b = q /\ n % b = r
<1> DEFINE p == n \div b
           s == n % b
<1>1. p \in Int /\ s \in 0 .. b - 1 /\ n = p * b + s
  BY DivFacts
<1> HIDE DEF p, s
<1>2. p * b \in Int /\ q * b \in Int /\ p * b + s = q * b + r
  BY <1>1
<1>3. CASE p < q
  <2>1. p * b + b <= q * b
    BY <1>1, <1>3, Multiples
  <2> QED BY <1>1, <1>2, <2>1
<1>4. CASE q < p
  <2>1. q * b + b <= p * b
    BY <1>1, <1>4, Multiples
  <2> QED BY <1>1, <1>2, <2>1
<1>5. p = q
  BY <1>1, <1>3, <1>4
<1>6. s = r
  BY <1>1, <1>2, <1>5
<1> QED BY <1>5, <1>6 DEF p, s

\* One division after the other.
LEMMA DivDiv ==
  ASSUME NEW n \in Nat, NEW a \in Nat \ {0}, NEW b \in Nat \ {0}
  PROVE  a * b \in Nat \ {0} /\ (n \div a) \div b = n \div (a * b)
<1> DEFINE q == n \div a
           r == n % a
           p == q \div b
           s == q % b
<1>1. q \in Nat /\ r \in 0 .. a - 1 /\ n = q * a + r
  <2>1. n \in Int
    OBVIOUS
  <2> QED BY <2>1, DivFacts
<1> HIDE DEF q, r
<1>2. p \in Nat /\ s \in 0 .. b - 1 /\ q = p * b + s
  <2>1. q \in Int
    BY <1>1
  <2> QED BY <1>1, <2>1, DivFacts
<1> HIDE DEF p, s
<1>3. a * b \in Nat \ {0}
  <2>1. a * b >= 1 * b
    BY Multiples
  <2> QED BY <2>1
<1>4. q * a = p * (a * b) + s * a
  BY <1>2
<1>5. s * a + a <= a * b
  <2>1. s * a + a <= b * a
    BY <1>2, Multiples
  <2>2. b * a = a * b
    OBVIOUS
  <2> QED BY <2>1, <2>2
<1>6. s * a + r \in 0 .. a * b - 1 /\ s * a + r \in Nat
  <2>1. s * a \in Nat
    BY <1>2
  <2> QED BY <1>1, <1>3, <1>5, <2>1
<1>7. n = p * (a * b) + (s * a + r)
  <2>1. s * a \in Nat /\ p * (a * b) \in Nat
    BY <1>2, <1>3
  <2> QED BY <1>1, <1>4, <2>1
<1>8. n \div (a * b) = p
  <2> DEFINE m == a * b
             t == s * a + r
  <2>1. m \in Nat \ {0} /\ t \in 0 .. m - 1 /\ n = p * m + t
    BY <1>3, <1>6, <1>7
  <2> HIDE DEF m, t
  <2>2. n \div m = p
    BY <1>2, <2>1, DivIs
  <2> QED BY <2>2 DEF m
<1> QED BY <1>3, <1>8 DEF p, q

-----------------------------------------------------------------------------
(* The numbers that digits write                                           *)

\* The fold that Number is, and the values it goes through.
Horner(digits, base, g) ==
  g = [t \in SUBSET (DOMAIN digits) |->
         IF t = {} THEN 0 ELSE g[t \ {Max(t)}] * base + digits[Max(t)]]
HornerOf(digits, base) == (CHOOSE g : Horner(digits, base, g))[DOMAIN digits]

RunsTo(digits, base, h, n) ==
  h[0] = 0 /\ \A j \in 1 .. n : h[j] = h[j - 1] * base + digits[j]
Running(digits, base, h) == RunsTo(digits, base, h, Len(digits))

LEMMA NumberIs ==
  ASSUME NEW digits, NEW base PROVE Number(digits, base) = HornerOf(digits, base)
BY DEF Number, FoldLeft, MapThenFoldSet, HornerOf, Horner

LEMMA NumberCourse ==
  ASSUME NEW base \in Nat, NEW digits \in Seq(Nat)
  PROVE  \E h : Running(digits, base, h) /\ Number(digits, base) = h[Len(digits)]
<1> DEFINE st == [a \in Nat \X Nat |-> a[1] * base + a[2]]
           n == Len(digits)
           D == 1 .. n
           c == CHOOSE g : Horner(digits, base, g)
<1>1. n \in Nat /\ DOMAIN digits = D /\ \A i \in D : digits[i] \in Nat
  OBVIOUS
<1>2. st \in [Nat \X Nat -> Nat] /\ \A a, d \in Nat : st[<<a, d>>] = a * base + d
  <2> DEFINE Next(a, d) == a * base + d
  <2>1. \A a, d \in Nat : Next(a, d) \in Nat
    <3>1. ASSUME NEW a \in Nat, NEW d \in Nat PROVE Next(a, d) \in Nat
      <4>1. a * base \in Nat
        OBVIOUS
      <4> QED BY <4>1
    <3> QED BY <3>1
  <2>2. st = [a \in Nat \X Nat |-> Next(a[1], a[2])]
    OBVIOUS
  <2> HIDE DEF Next, st
  <2>3. st \in [Nat \X Nat -> Nat] /\ \A a, d \in Nat : st[<<a, d>>] = Next(a, d)
    BY <2>1, <2>2
  <2> QED BY <2>3 DEF Next
<1>3. PICK g \in [SUBSET D -> Nat] : Descent(st, 0, digits, D, g)
  <2>1. n \in Nat /\ n <= Len(digits)
    BY DEF n
  <2>2. 0 \in Nat /\ digits \in Seq(Nat) /\ st \in [Nat \X Nat -> Nat]
    BY <1>2
  <2> HIDE DEF st, n
  <2>3. \A m \in Nat : m <= Len(digits) => Descends(Nat, st, 0, digits, m)
    BY <2>2, DescentExists
  <2> QED BY <2>1, <2>3 DEF Descends
<1> HIDE DEF st, n
<1>4. \A t \in SUBSET D : t # {} => Max(t) \in t
  BY <1>1, MaxIsIn
<1>5. \A t \in SUBSET D :
        g[t] = IF t = {} THEN 0 ELSE g[t \ {Max(t)}] * base + digits[Max(t)]
  <2> TAKE t \in SUBSET D
  <2>1. CASE t = {}
    BY <1>3, <2>1 DEF Descent
  <2>2. CASE t # {}
    <3>1. digits[Max(t)] \in Nat /\ t \ {Max(t)} \in SUBSET D
      BY <1>1, <1>4, <2>2
    <3>2. g[t \ {Max(t)}] \in Nat
      BY <3>1
    <3> QED BY <1>2, <1>3, <2>2, <3>1, <3>2 DEF Descent
  <2> QED BY <2>1, <2>2
<1>6. Horner(digits, base, g)
  <2>1. g = [t \in SUBSET D |-> g[t]]
    OBVIOUS
  <2> QED BY <1>1, <1>5, <2>1 DEF Horner
<1>7. Horner(digits, base, c)
  BY <1>6
<1> HIDE DEF c
<1> DEFINE h == [j \in 0 .. n |-> c[1 .. j]]
<1>8. \A j \in 0 .. n : h[j] = c[1 .. j]
  OBVIOUS
<1> HIDE DEF h
<1>9. \A t \in SUBSET D :
        c[t] = IF t = {} THEN 0 ELSE c[t \ {Max(t)}] * base + digits[Max(t)]
  BY <1>1, <1>7 DEF Horner
<1>10. h[0] = 0
  <2>1. 1 .. 0 = {} /\ 0 \in 0 .. n /\ {} \in SUBSET D
    BY <1>1
  <2>2. c[{}] = 0
    BY <1>9
  <2> QED BY <1>8, <2>1, <2>2
<1>11. ASSUME NEW j \in 1 .. n PROVE h[j] = h[j - 1] * base + digits[j]
  <2>1. /\ j - 1 \in 0 .. n /\ j \in 0 .. n
        /\ 1 .. j \in SUBSET D /\ 1 .. j # {} /\ (1 .. j) \ {j} = 1 .. j - 1 /\ Max(1 .. j) = j
    BY <1>1, PrefixFacts
  <2>2. c[1 .. j] = c[(1 .. j) \ {j}] * base + digits[j]
    BY <1>9, <2>1
  <2> QED BY <1>8, <2>1, <2>2
<1>12. h[n] = c[DOMAIN digits]
  BY <1>1, <1>8
<1>13. Number(digits, base) = h[n]
  BY <1>12, NumberIs DEF c, HornerOf
<1> QED BY <1>10, <1>11, <1>13 DEF Running, RunsTo, n

\* What the running value is, of the digits and of more of them.
LEMMA RunningFacts ==
  ASSUME NEW base \in Nat, NEW s \in Seq(Nat), NEW g, NEW n \in Nat, n <= Len(s),
         RunsTo(s, base, g, n), NEW h, Running(s, base, h)
  PROVE  \A j \in 0 .. n : h[j] \in Nat /\ g[j] = h[j]
<1> DEFINE G == {j \in Nat : j <= n => h[j] \in Nat /\ g[j] = h[j]}
<1>1. 0 \in G
  BY DEF Running, RunsTo
<1>2. ASSUME NEW j \in Nat, j \in G PROVE j + 1 \in G
  <2> SUFFICES ASSUME j + 1 <= n PROVE h[j + 1] \in Nat /\ g[j + 1] = h[j + 1]
    OBVIOUS
  <2>1. j + 1 \in 1 .. n /\ (j + 1) - 1 = j /\ j + 1 \in 1 .. Len(s) /\ h[j] \in Nat /\ g[j] = h[j]
    BY <1>2
  <2>2. s[j + 1] \in Nat
    BY <2>1
  <2>3. h[j + 1] = h[j] * base + s[j + 1] /\ g[j + 1] = g[j] * base + s[j + 1]
    BY <2>1 DEF Running, RunsTo
  <2>4. h[j] * base \in Nat
    BY <2>1
  <2> QED BY <2>1, <2>2, <2>3, <2>4
<1> HIDE DEF G
<1>3. \A j \in Nat : j \in G
  BY <1>1, <1>2, NatFromSet
<1> QED BY <1>3 DEF G

LEMMA NumberFacts ==
  ASSUME NEW base \in Nat
  PROVE  /\ Number(<<>>, base) = 0
         /\ \A s \in Seq(Nat) : Number(s, base) \in Nat
         /\ \A s \in Seq(Nat), d \in Nat : Number(Add(s, d), base) = Number(s, base) * base + d
<1>1. Number(<<>>, base) = 0
  <2>1. <<>> \in Seq(Nat) /\ Len(<<>>) = 0
    OBVIOUS
  <2> QED BY <2>1, NumberCourse DEF Running, RunsTo
<1>2. ASSUME NEW s \in Seq(Nat) PROVE Number(s, base) \in Nat
  <2>1. PICK h : Running(s, base, h) /\ Number(s, base) = h[Len(s)]
    BY NumberCourse
  <2>2. \A j \in 0 .. Len(s) : h[j] \in Nat
    <3> DEFINE m == Len(s)
    <3>1. m \in Nat /\ m <= Len(s)
      OBVIOUS
    <3>2. RunsTo(s, base, h, m)
      BY <2>1 DEF Running
    <3> HIDE DEF m
    <3>3. \A j \in 0 .. m : h[j] \in Nat /\ h[j] = h[j]
      BY <2>1, <3>1, <3>2, RunningFacts
    <3> QED BY <3>3 DEF m
  <2> QED BY <2>1, <2>2
<1>3. ASSUME NEW s \in Seq(Nat), NEW d \in Nat
      PROVE  Number(Add(s, d), base) = Number(s, base) * base + d
  <2> DEFINE a == Add(s, d)
             n == Len(s)
  <2>1. /\ a \in Seq(Nat) /\ Len(a) = n + 1 /\ a[n + 1] = d /\ n \in Nat
        /\ \A j \in 1 .. n : a[j] = s[j]
    BY DEF Add
  <2> HIDE DEF a
  <2>2. PICK h : Running(a, base, h) /\ Number(a, base) = h[n + 1]
    BY <2>1, NumberCourse
  <2>3. PICK g : Running(s, base, g) /\ Number(s, base) = g[n]
    BY NumberCourse
  <2>4. RunsTo(a, base, g, n)
    BY <2>1, <2>3 DEF Running, RunsTo
  <2>5. n <= Len(a)
    BY <2>1
  <2>6. \A j \in 0 .. n : h[j] \in Nat /\ g[j] = h[j]
    <3> HIDE DEF n
    <3> QED BY <2>1, <2>2, <2>4, <2>5, RunningFacts
  <2>7. h[n + 1] = h[(n + 1) - 1] * base + a[n + 1]
    <3>1. n + 1 \in 1 .. n + 1 /\ \A j \in 1 .. n + 1 : h[j] = h[j - 1] * base + a[j]
      BY <2>1, <2>2 DEF Running, RunsTo
    <3> HIDE DEF n
    <3> QED BY <3>1, Zenon
  <2>8. (n + 1) - 1 = n /\ n \in 0 .. n
    BY <2>1
  <2> QED BY <2>1, <2>2, <2>3, <2>6, <2>7, <2>8 DEF a
<1> QED BY <1>1, <1>2, <1>3

-----------------------------------------------------------------------------
(* Powers                                                                  *)

LEMMA PowerStep ==
  ASSUME NEW b \in Nat
  PROVE  /\ Power(b, 0) = 1
         /\ \A n \in Nat : Power(b, n) \in Nat /\ Power(b, n + 1) = Power(b, n) * b
<1> DEFINE one(n) == [k \in 1 .. n + 1 |-> IF k = 1 THEN 1 ELSE 0]
<1>1. \A n \in Nat : one(n) \in Seq(Nat)
  OBVIOUS
<1>2. \A n \in Nat : one(n + 1) = Add(one(n), 0)
  <2> TAKE n \in Nat
  <2> DEFINE p == one(n + 1)
             q == Add(one(n), 0)
  <2>1. /\ Len(one(n)) = n + 1 /\ p \in Seq(Nat) /\ Len(p) = n + 2
        /\ q \in Seq(Nat) /\ Len(q) = n + 2
    BY DEF Add
  <2>2. ASSUME NEW k \in 1 .. n + 2 PROVE p[k] = q[k]
    BY <2>1 DEF Add
  <2> HIDE DEF p, q
  <2>3. p = q
    BY <2>1, <2>2
  <2> QED BY <2>3 DEF p, q
<1>3. one(0) = Add(<<>>, 1)
  <2> DEFINE p == one(0)
             q == Add(<<>>, 1)
  <2>1. p \in Seq(Nat) /\ Len(p) = 1 /\ q \in Seq(Nat) /\ Len(q) = 1 /\ p[1] = 1 /\ q[1] = 1
    BY DEF Add
  <2> HIDE DEF p, q
  <2>2. p = q
    BY <2>1
  <2> QED BY <2>2 DEF p, q
<1>4. \A n \in Nat : Power(b, n) = Number(one(n), b)
  BY DEF Power
<1> HIDE DEF one
<1>5. Power(b, 0) = 1
  <2>1. <<>> \in Seq(Nat) /\ Number(<<>>, b) = 0
    BY NumberFacts
  <2>2. Number(Add(<<>>, 1), b) = 0 * b + 1
    BY <2>1, NumberFacts
  <2> QED BY <1>3, <1>4, <2>2
<1>6. ASSUME NEW n \in Nat PROVE Power(b, n) \in Nat /\ Power(b, n + 1) = Power(b, n) * b
  <2>1. Number(one(n), b) \in Nat
    BY <1>1, NumberFacts
  <2>2. Number(Add(one(n), 0), b) = Number(one(n), b) * b + 0
    BY <1>1, NumberFacts
  <2>3. Power(b, n + 1) = Number(Add(one(n), 0), b)
    BY <1>2, <1>4
  <2> QED BY <1>4, <2>1, <2>2, <2>3
<1> QED BY <1>5, <1>6

LEMMA PowerFacts ==
  ASSUME NEW b \in Nat \ {0}
  PROVE  /\ Power(b, 0) = 1
         /\ \A n \in Nat : Power(b, n) \in Nat \ {0}
         /\ \A n \in Nat : Power(b, n + 1) = Power(b, n) * b
<1> DEFINE G == {n \in Nat : Power(b, n) # 0}
<1>1. 0 \in G
  BY PowerStep
<1>2. ASSUME NEW n \in Nat, n \in G PROVE n + 1 \in G
  <2>1. Power(b, n) \in Nat \ {0} /\ Power(b, n + 1) = Power(b, n) * b
    BY <1>2, PowerStep
  <2> DEFINE p == Power(b, n)
  <2>2. p * b >= 1 * b
    <3>1. p \in Nat /\ p >= 1
      BY <2>1
    <3> HIDE DEF p
    <3>2. p = 1 \/ 1 < p
      BY <3>1
    <3>3. 1 < p => 1 * b + b <= p * b
      BY <3>1, Multiples
    <3>4. p * b \in Int
      BY <3>1
    <3> QED BY <3>2, <3>3, <3>4
  <2>3. p * b # 0
    <3>1. p \in Nat
      BY <2>1
    <3> HIDE DEF p
    <3> QED BY <2>2, <3>1
  <2> QED BY <2>1, <2>3
<1> HIDE DEF G
<1>3. \A n \in Nat : n \in G
  BY <1>1, <1>2, NatFromSet
<1> QED BY <1>3, PowerStep DEF G

LEMMA PowerAdd ==
  ASSUME NEW b \in Nat \ {0}, NEW m \in Nat
  PROVE  \A n \in Nat : Power(b, m + n) = Power(b, m) * Power(b, n)
<1> DEFINE G == {n \in Nat : Power(b, m + n) = Power(b, m) * Power(b, n)}
<1>1. 0 \in G
  <2>1. m + 0 = m /\ Power(b, m) \in Nat /\ Power(b, 0) = 1
    BY PowerFacts
  <2> QED BY <2>1
<1>2. ASSUME NEW n \in Nat, n \in G PROVE n + 1 \in G
  <2>1. m + (n + 1) = (m + n) + 1 /\ m + n \in Nat
    OBVIOUS
  <2>2. Power(b, m + (n + 1)) = Power(b, m + n) * b
    BY <2>1, PowerFacts
  <2>3. Power(b, n + 1) = Power(b, n) * b /\ Power(b, m) \in Nat /\ Power(b, n) \in Nat
    BY PowerFacts
  <2>4. Power(b, m + n) = Power(b, m) * Power(b, n)
    BY <1>2
  <2>5. ASSUME NEW x \in Nat, NEW y \in Nat PROVE (x * y) * b = x * (y * b)
    OBVIOUS
  <2>6. (Power(b, m) * Power(b, n)) * b = Power(b, m) * (Power(b, n) * b)
    BY <2>3, <2>5
  <2> QED BY <2>2, <2>3, <2>4, <2>6
<1> HIDE DEF G
<1>3. \A n \in Nat : n \in G
  BY <1>1, <1>2, NatFromSet
<1> QED BY <1>3 DEF G

LEMMA PowerPower ==
  ASSUME NEW b \in Nat \ {0}, NEW s \in Nat
  PROVE  \A n \in Nat : Power(Power(b, s), n) = Power(b, s * n)
<1> DEFINE c == Power(b, s)
           G == {n \in Nat : Power(c, n) = Power(b, s * n)}
<1>1. c \in Nat \ {0}
  BY PowerFacts
<1>2. 0 \in G
  <2>1. s * 0 = 0
    OBVIOUS
  <2>2. Power(c, 0) = 1 /\ Power(b, 0) = 1
    <3> HIDE DEF c
    <3> QED BY <1>1, PowerFacts
  <2> QED BY <2>1, <2>2
<1>3. ASSUME NEW n \in Nat, n \in G PROVE n + 1 \in G
  <2>1. s * (n + 1) = s * n + s /\ s * n \in Nat
    OBVIOUS
  <2>2. Power(b, s * (n + 1)) = Power(b, s * n) * c
    BY <2>1, PowerAdd
  <2>3. Power(c, n + 1) = Power(c, n) * c
    <3> HIDE DEF c
    <3> QED BY <1>1, PowerFacts
  <2> QED BY <1>3, <2>2, <2>3
<1> HIDE DEF G
<1>4. \A n \in Nat : n \in G
  BY <1>2, <1>3, NatFromSet
<1> QED BY <1>4 DEF G

\* Both factors of a product.
LEMMA Products ==
  ASSUME NEW x \in Nat, NEW y \in Nat, NEW b \in Nat
  PROVE  /\ x * b \in Nat
         /\ x <= y => x * b <= y * b
         /\ x * b = b * x
<1>1. x * b \in Nat /\ y * b \in Nat /\ x * b = b * x
  OBVIOUS
<1>2. CASE x < y
  BY <1>1, <1>2, Multiples
<1> QED BY <1>1, <1>2

LEMMA PowerMono ==
  ASSUME NEW b \in Nat \ {0}, NEW m \in Nat, NEW n \in Nat, m <= n
  PROVE  Power(b, m) <= Power(b, n)
<1>1. n - m \in Nat /\ m + (n - m) = n
  OBVIOUS
<1>2. Power(b, n) = Power(b, m) * Power(b, n - m)
  BY <1>1, PowerAdd
<1>3. Power(b, m) \in Nat /\ Power(b, n - m) \in Nat /\ 1 <= Power(b, n - m)
  <2>1. Power(b, n - m) \in Nat \ {0}
    BY <1>1, PowerFacts
  <2>2. Power(b, m) \in Nat
    BY PowerFacts
  <2> HIDE DEF Power
  <2> QED BY <2>1, <2>2
<1>4. 1 * Power(b, m) <= Power(b, n - m) * Power(b, m)
  BY <1>3, Products
<1>5. Power(b, n - m) * Power(b, m) = Power(b, m) * Power(b, n - m)
  BY <1>3, Products
<1> QED BY <1>2, <1>3, <1>4, <1>5

LEMMA NumberBound ==
  ASSUME NEW b \in Nat \ {0}
  PROVE  \A s \in Seq(0 .. b - 1) : Number(s, b) \in Nat /\ Number(s, b) < Power(b, Len(s))
<1> DEFINE T == 0 .. b - 1
           G == {s \in Seq(T) : Number(s, b) < Power(b, Len(s))}
<1>1. Seq(T) \subseteq Seq(Nat)
  OBVIOUS
<1>2. <<>> \in G
  <2>1. Len(<<>>) = 0 /\ <<>> \in Seq(T)
    OBVIOUS
  <2>2. Number(<<>>, b) = 0 /\ Power(b, 0) = 1
    BY NumberFacts, PowerFacts
  <2> QED BY <2>1, <2>2
<1>3. ASSUME NEW s \in Seq(T), NEW e \in T, s \in G PROVE Add(s, e) \in G
  <2>1. Add(s, e) \in Seq(T) /\ Len(Add(s, e)) = Len(s) + 1 /\ Len(s) \in Nat
    BY DEF Add
  <2>2. Number(Add(s, e), b) = Number(s, b) * b + e /\ Number(s, b) \in Nat
    <3>1. s \in Seq(Nat) /\ e \in Nat
      BY <1>1
    <3> QED BY <3>1, NumberFacts
  <2>3. Power(b, Len(s) + 1) = Power(b, Len(s)) * b /\ Power(b, Len(s)) \in Nat
    BY <2>1, PowerFacts
  <2>4. Number(s, b) < Power(b, Len(s))
    BY <1>3
  <2>5. Number(s, b) * b + b <= Power(b, Len(s)) * b
    <3>1. Number(s, b) \in Int /\ Power(b, Len(s)) \in Int /\ b \in Nat
      BY <2>2, <2>3
    <3> QED BY <2>4, <3>1, Multiples
  <2>6. Number(s, b) * b \in Nat /\ Power(b, Len(s)) * b \in Nat /\ e \in Nat /\ e < b
    BY <2>2, <2>3, Products
  <2>7. Number(s, b) * b + e < Power(b, Len(s)) * b
    BY <2>5, <2>6
  <2> QED BY <2>1, <2>2, <2>3, <2>7
<1> HIDE DEF G, T
<1>4. \A s \in Seq(T) : s \in G
  BY <1>2, <1>3, SeqFromAdd
<1>5. \A s \in Seq(T) : Number(s, b) < Power(b, Len(s))
  BY <1>4 DEF G
<1>6. \A s \in Seq(T) : Number(s, b) \in Nat
  BY <1>1, NumberFacts
<1> QED BY <1>5, <1>6 DEF T

-----------------------------------------------------------------------------
(* Digits                                                                  *)

LEMMA DigitsFacts ==
  ASSUME NEW b \in Nat \ {0}, NEW n \in Nat, NEW len \in Nat
  PROVE  /\ Digits(n, b, len) \in Seq(0 .. b - 1) /\ Len(Digits(n, b, len)) = len
         /\ \A k \in 1 .. len : Digits(n, b, len)[k] = (n \div Power(b, len - k)) % b
<1>1. ASSUME NEW k \in 1 .. len PROVE (n \div Power(b, len - k)) % b \in 0 .. b - 1
  <2>1. len - k \in Nat
    OBVIOUS
  <2>2. Power(b, len - k) \in Nat \ {0}
    BY <2>1, PowerFacts
  <2> DEFINE p == Power(b, len - k)
  <2>3. n \div p \in Int
    <3> HIDE DEF p
    <3>1. p \in Nat \ {0}
      BY <2>2 DEF p
    <3> QED BY <3>1, DivFacts
  <2> DEFINE q == n \div p
  <2>4. q \in Int
    BY <2>3
  <2> HIDE DEF q
  <2>5. q % b \in 0 .. b - 1
    BY <2>4, DivFacts
  <2> QED BY <2>5 DEF q
<1> QED BY <1>1 DEF Digits

LEMMA DigitsMore ==
  ASSUME NEW b \in Nat \ {0}, NEW n \in Nat, NEW len \in Nat
  PROVE  Digits(n, b, len + 1) = Add(Digits(n \div b, b, len), n % b)
<1> DEFINE q == n \div b
           d == n % b
           s == Digits(n, b, len + 1)
           t == Digits(q, b, len)
           a == Add(t, d)
<1>1. q \in Nat /\ d \in 0 .. b - 1
  <2>1. n \in Int
    OBVIOUS
  <2> QED BY <2>1, DivFacts
<1>2. len + 1 \in Nat
  OBVIOUS
<1>3. /\ s \in Seq(0 .. b - 1) /\ Len(s) = len + 1
      /\ \A k \in 1 .. len + 1 : s[k] = (n \div Power(b, (len + 1) - k)) % b
  BY <1>2, DigitsFacts
<1>4. /\ t \in Seq(0 .. b - 1) /\ Len(t) = len
      /\ \A k \in 1 .. len : t[k] = (q \div Power(b, len - k)) % b
  <2> HIDE DEF q
  <2> QED BY <1>1, DigitsFacts
<1>5. /\ a \in Seq(0 .. b - 1) /\ Len(a) = len + 1 /\ a[len + 1] = d
      /\ \A k \in 1 .. len : a[k] = t[k]
  <2> HIDE DEF t, d
  <2> QED BY <1>1, <1>4 DEF Add
<1>6. ASSUME NEW k \in 1 .. len PROVE s[k] = a[k]
  <2> DEFINE p == Power(b, len - k)
  <2>1. len - k \in Nat /\ (len + 1) - k = (len - k) + 1
    OBVIOUS
  <2>2. p \in Nat \ {0} /\ Power(b, (len + 1) - k) = p * b
    BY <2>1, PowerFacts
  <2>3. q \div p = n \div (p * b)
    <3> HIDE DEF p
    <3>1. (n \div b) \div p = n \div (b * p)
      <4>1. p \in Nat \ {0} /\ b \in Nat \ {0} /\ n \in Nat
        BY <2>2
      <4>2. \A x \in Nat, y \in Nat \ {0}, z \in Nat \ {0} : (x \div y) \div z = x \div (y * z)
        BY DivDiv
      <4> QED BY <4>1, <4>2, Zenon
    <3>2. b * p = p * b
      BY <2>2
    <3> QED BY <3>1, <3>2
  <2>4. k \in 1 .. len + 1
    OBVIOUS
  <2>5. s[k] = (n \div Power(b, (len + 1) - k)) % b /\ a[k] = (q \div p) % b
    BY <1>3, <1>4, <1>5, <2>4
  <2> QED BY <2>2, <2>3, <2>5
<1>7. s[len + 1] = a[len + 1]
  <2>1. Power(b, 0) = 1 /\ (len + 1) - (len + 1) = 0 /\ len + 1 \in 1 .. len + 1
    BY PowerFacts
  <2>2. n \div 1 = n
    OBVIOUS
  <2>3. s[len + 1] = (n \div Power(b, (len + 1) - (len + 1))) % b
    BY <1>3, <2>1
  <2> QED BY <1>5, <2>1, <2>2, <2>3
<1> HIDE DEF s, a, t, d, q
<1>8. \A k \in 1 .. len + 1 : s[k] = a[k]
  BY <1>6, <1>7
<1>9. s = a
  BY <1>3, <1>5, <1>8
<1> QED BY <1>9 DEF s, a, t, d, q

\* Digits write the number, where there are enough of them.
LEMMA NumberOfDigits ==
  ASSUME NEW b \in Nat \ {0}
  PROVE  \A len \in Nat : \A n \in Nat :
           n < Power(b, len) => Number(Digits(n, b, len), b) = n
<1> DEFINE G == {len \in Nat : \A n \in Nat :
                   n < Power(b, len) => Number(Digits(n, b, len), b) = n}
<1>1. 0 \in G
  <2>1. ASSUME NEW n \in Nat, n < Power(b, 0) PROVE Number(Digits(n, b, 0), b) = n
    <3>1. n = 0
      BY <2>1, PowerFacts
    <3>2. Digits(n, b, 0) = <<>>
      <4>1. Digits(n, b, 0) \in Seq(0 .. b - 1) /\ Len(Digits(n, b, 0)) = 0
        BY DigitsFacts
      <4> QED BY <4>1
    <3> QED BY <3>1, <3>2, NumberFacts
  <2> QED BY <2>1
<1>2. ASSUME NEW len \in Nat, len \in G PROVE len + 1 \in G
  <2> SUFFICES ASSUME NEW n \in Nat, n < Power(b, len + 1)
               PROVE  Number(Digits(n, b, len + 1), b) = n
    OBVIOUS
  <2> DEFINE q == n \div b
             d == n % b
             p == Power(b, len)
  <2>1. q \in Nat /\ d \in 0 .. b - 1 /\ n = q * b + d
    <3>1. n \in Int
      OBVIOUS
    <3> QED BY <3>1, DivFacts
  <2>2. p \in Nat /\ n < p * b
    BY PowerFacts
  <2> HIDE DEF q, d
  <2>3. q < p
    <3> HIDE DEF p
    <3>1. CASE p <= q
      <4>1. p * b <= q * b /\ q * b \in Nat /\ p * b \in Nat
        BY <2>1, <2>2, <3>1, Products
      <4> QED BY <2>1, <2>2, <4>1
    <3> QED BY <2>1, <2>2, <3>1
  <2>4. Number(Digits(q, b, len), b) = q
    BY <1>2, <2>1, <2>3
  <2>5. Digits(n, b, len + 1) = Add(Digits(q, b, len), d)
    BY DigitsMore DEF q, d
  <2>6. Digits(q, b, len) \in Seq(Nat) /\ d \in Nat
    <3>1. Digits(q, b, len) \in Seq(0 .. b - 1)
      BY <2>1, DigitsFacts
    <3>2. Seq(0 .. b - 1) \subseteq Seq(Nat)
      OBVIOUS
    <3> QED BY <2>1, <3>1, <3>2
  <2>7. Number(Add(Digits(q, b, len), d), b) = q * b + d
    BY <2>4, <2>6, NumberFacts
  <2> QED BY <2>1, <2>5, <2>7
<1> HIDE DEF G
<1>3. \A len \in Nat : len \in G
  BY <1>1, <1>2, NatFromSet
<1> QED BY <1>3 DEF G

\* And the digits of a number are the digits that wrote it.
LEMMA DigitsOfNumber ==
  ASSUME NEW b \in Nat \ {0}
  PROVE  \A s \in Seq(0 .. b - 1) : Digits(Number(s, b), b, Len(s)) = s
<1> DEFINE T == 0 .. b - 1
           G == {s \in Seq(T) : Digits(Number(s, b), b, Len(s)) = s}
<1>1. Seq(T) \subseteq Seq(Nat) /\ T \subseteq Nat
  OBVIOUS
<1>2. <<>> \in G
  <2>1. Len(<<>>) = 0 /\ <<>> \in Seq(T)
    OBVIOUS
  <2>2. Number(<<>>, b) = 0
    BY NumberFacts
  <2>3. Digits(0, b, 0) \in Seq(0 .. b - 1) /\ Len(Digits(0, b, 0)) = 0
    BY DigitsFacts
  <2>4. Digits(0, b, 0) = <<>>
    BY <2>3
  <2> QED BY <2>1, <2>2, <2>4
<1>3. ASSUME NEW s \in Seq(T), NEW e \in T, s \in G PROVE Add(s, e) \in G
  <2>1. Add(s, e) \in Seq(T) /\ Len(Add(s, e)) = Len(s) + 1 /\ Len(s) \in Nat
    BY DEF Add
  <2> DEFINE v == Number(s, b)
             w == v * b + e
  <2>2. Number(Add(s, e), b) = w /\ v \in Nat
    BY <1>1, NumberFacts
  <2>3. e \in 0 .. b - 1 /\ v \in Int
    BY <2>2
  <2> HIDE DEF v
  <2>4. w \div b = v /\ w % b = e /\ w \in Nat
    <3>1. v * b \in Nat
      BY <2>2
    <3>2. w \in Nat
      BY <2>3, <3>1
    <3>3. w \in Int /\ w = v * b + e
      BY <3>2
    <3> HIDE DEF w
    <3>4. w \div b = v /\ w % b = e
      BY <2>3, <3>3, DivIs
    <3> QED BY <3>2, <3>4
  <2> HIDE DEF w
  <2>5. Digits(w, b, Len(s) + 1) = Add(Digits(w \div b, b, Len(s)), w % b)
    BY <2>1, <2>4, DigitsMore
  <2>6. Digits(v, b, Len(s)) = s
    BY <1>3 DEF v
  <2> QED BY <2>1, <2>2, <2>4, <2>5, <2>6
<1> HIDE DEF G, T
<1>4. \A s \in Seq(T) : s \in G
  BY <1>2, <1>3, SeqFromAdd
<1> QED BY <1>4 DEF G, T

-----------------------------------------------------------------------------
(* The widths                                                              *)

LEMMA Widths ==
  /\ Base \in Nat \ {0} /\ Base >= 2 /\ ByteBase \in Nat \ {0} /\ WordLimit \in Nat \ {0}
  /\ CheckBase \in Nat \ {0} /\ Base <= CheckBase
  /\ SymbolBits \in Nat \ {0} /\ ByteBits \in Nat \ {0} /\ SymbolBits <= ByteBits
  /\ Bytes = 0 .. ByteBase - 1
<1>1. /\ SymbolBits \in Nat \ {0} /\ ByteBits \in Nat /\ WordBits \in Nat /\ SymbolBits <= ByteBits
      /\ Alphabet \in Seq(STRING) /\ Len(Alphabet) = Base /\ CheckOnly \in Seq(STRING)
  BY CodecAssumption DEF CodecAssumption
<1>2. Base \in Nat \ {0} /\ ByteBase \in Nat \ {0} /\ WordLimit \in Nat \ {0}
  <2>1. 2 \in Nat \ {0}
    OBVIOUS
  <2>2. \A n \in Nat : Power(2, n) \in Nat \ {0}
    BY <2>1, PowerFacts
  <2> QED BY <1>1, <2>2 DEF Base, ByteBase, WordLimit
<1>3. Base >= 2
  <2>1. Power(2, 0) = 1 /\ Power(2, 0 + 1) = Power(2, 0) * 2
    BY PowerFacts
  <2>2. Power(2, 1) = 2
    BY <2>1
  <2>3. 1 \in Nat /\ 1 <= SymbolBits /\ 2 \in Nat \ {0} /\ SymbolBits \in Nat
    BY <1>1
  <2>4. Power(2, 1) <= Power(2, SymbolBits)
    BY <2>3, PowerMono
  <2> QED BY <2>2, <2>4 DEF Base
<1>4. CheckBase \in Nat \ {0} /\ Base <= CheckBase
  <2>1. CheckBase = Len(Alphabet) + Len(CheckOnly) /\ Len(CheckOnly) \in Nat
    BY <1>1 DEF CheckBase, CheckAlphabet
  <2> QED BY <1>1, <1>2, <2>1
<1>5. ByteBits # 0
  BY <1>1
<1> QED BY <1>1, <1>2, <1>3, <1>4, <1>5 DEF Bytes

LEMMA ModPlus ==
  ASSUME NEW c \in Nat \ {0}, NEW q \in Int, NEW t \in Int
  PROVE  q * c + t \in Int /\ (q * c + t) % c = t % c
<1> DEFINE p == t \div c
           r == t % c
           n == q * c + t
<1>1. p \in Int /\ r \in 0 .. c - 1 /\ t = p * c + r
  BY DivFacts
<1> HIDE DEF p, r
<1>2. q * c \in Int /\ p * c \in Int /\ (q + p) * c = q * c + p * c /\ q + p \in Int
  BY <1>1
<1>3. n \in Int /\ n = (q + p) * c + r
  BY <1>1, <1>2
<1> HIDE DEF n
<1>4. n % c = r
  BY <1>1, <1>2, <1>3, DivIs
<1> QED BY <1>3, <1>4 DEF n, r

LEMMA ModStep ==
  ASSUME NEW c \in Nat \ {0}, NEW x \in Nat, NEW b \in Nat, NEW d \in Nat
  PROVE  ((x % c) * b + d) % c = (x * b + d) % c
<1> DEFINE q == x \div c
           r == x % c
           t == r * b + d
<1>1. q \in Int /\ r \in 0 .. c - 1 /\ x = q * c + r
  BY DivFacts
<1> HIDE DEF q, r
<1>2. r * b \in Int /\ q * b \in Int /\ t \in Int
  BY <1>1
<1>3. x * b = (q * b) * c + r * b
  BY <1>1
<1>4. (q * b) * c \in Int
  BY <1>2
<1>5. x * b + d = (q * b) * c + t
  BY <1>2, <1>3, <1>4
<1> DEFINE y == q * b
<1> HIDE DEF t, y
<1>6. (y * c + t) % c = t % c
  <2>1. y \in Int
    BY <1>2 DEF y
  <2> QED BY <1>2, <2>1, ModPlus
<1> QED BY <1>5, <1>6 DEF t, r, y

-----------------------------------------------------------------------------
(* The check of bytes is what they write, modulo CheckBase                 *)

Checking(bytes, g) ==
  g = [t \in SUBSET (DOMAIN bytes) |->
         IF t = {} THEN 0 ELSE (g[t \ {Max(t)}] * ByteBase + bytes[Max(t)]) % CheckBase]
CheckedBy(bytes) == (CHOOSE g : Checking(bytes, g))[DOMAIN bytes]

LEMMA ChecksumIs == ASSUME NEW bytes PROVE Checksum(bytes) = CheckedBy(bytes)
BY DEF Checksum, FoldLeft, MapThenFoldSet, CheckedBy, Checking

LEMMA ChecksumCourse ==
  ASSUME NEW bytes \in Seq(Nat)
  PROVE  \E h : /\ h[0] = 0
                /\ \A j \in 1 .. Len(bytes) : h[j] = (h[j - 1] * ByteBase + bytes[j]) % CheckBase
                /\ Checksum(bytes) = h[Len(bytes)]
<1> DEFINE b == ByteBase
           w == CheckBase
           st == [a \in Nat \X Nat |-> (a[1] * b + a[2]) % w]
           n == Len(bytes)
           D == 1 .. n
           c == CHOOSE g : Checking(bytes, g)
<1>1. n \in Nat /\ DOMAIN bytes = D /\ \A i \in D : bytes[i] \in Nat
  OBVIOUS
<1>2. st \in [Nat \X Nat -> Nat] /\ \A a, d \in Nat : st[<<a, d>>] = (a * b + d) % w
  <2>1. b \in Nat /\ w \in Nat \ {0}
    BY Widths
  <2> HIDE DEF b, w
  <2>2. \A a, d \in Nat : (a * b + d) % w \in Nat
    <3> SUFFICES ASSUME NEW a \in Nat, NEW d \in Nat PROVE (a * b + d) % w \in Nat
      OBVIOUS
    <3> DEFINE x == a * b + d
    <3>1. a * b \in Nat
      BY <2>1
    <3>2. x \in Int
      BY <3>1
    <3> HIDE DEF x
    <3>3. x % w \in 0 .. w - 1
      BY <2>1, <3>2, DivFacts
    <3>4. x % w \in Nat
      BY <2>1, <3>3
    <3> QED BY <3>4 DEF x
  <2> QED BY <2>2
<1> HIDE DEF b, w
<1>3. PICK g \in [SUBSET D -> Nat] : Descent(st, 0, bytes, D, g)
  <2>1. n \in Nat /\ n <= Len(bytes)
    BY DEF n
  <2>2. 0 \in Nat /\ bytes \in Seq(Nat) /\ st \in [Nat \X Nat -> Nat]
    BY <1>2
  <2> HIDE DEF st, n
  <2>3. \A m \in Nat : m <= Len(bytes) => Descends(Nat, st, 0, bytes, m)
    BY <2>2, DescentExists
  <2> QED BY <2>1, <2>3 DEF Descends
<1> HIDE DEF st, n
<1>4. \A t \in SUBSET D : t # {} => Max(t) \in t
  BY <1>1, MaxIsIn
<1>5. \A t \in SUBSET D :
        g[t] = IF t = {} THEN 0 ELSE (g[t \ {Max(t)}] * b + bytes[Max(t)]) % w
  <2> TAKE t \in SUBSET D
  <2>1. CASE t = {}
    BY <1>3, <2>1 DEF Descent
  <2>2. CASE t # {}
    <3>1. bytes[Max(t)] \in Nat /\ t \ {Max(t)} \in SUBSET D
      BY <1>1, <1>4, <2>2
    <3>2. g[t \ {Max(t)}] \in Nat
      BY <3>1
    <3>3. g[t] = st[<<g[t \ {Max(t)}], bytes[Max(t)]>>]
      BY <1>3, <2>2 DEF Descent
    <3> QED BY <1>2, <2>2, <3>1, <3>2, <3>3
  <2> QED BY <2>1, <2>2
<1>6. Checking(bytes, g)
  <2>1. g = [t \in SUBSET D |-> g[t]]
    OBVIOUS
  <2> QED BY <1>1, <1>5, <2>1 DEF Checking, b, w
<1>7. Checking(bytes, c)
  BY <1>6
<1> HIDE DEF c
<1> DEFINE h == [j \in 0 .. n |-> c[1 .. j]]
<1>8. \A j \in 0 .. n : h[j] = c[1 .. j]
  OBVIOUS
<1> HIDE DEF h
<1>9. \A t \in SUBSET D :
        c[t] = IF t = {} THEN 0 ELSE (c[t \ {Max(t)}] * b + bytes[Max(t)]) % w
  BY <1>1, <1>7 DEF Checking, b, w
<1>10. h[0] = 0
  <2>1. 1 .. 0 = {} /\ 0 \in 0 .. n /\ {} \in SUBSET D
    BY <1>1
  <2>2. c[{}] = 0
    BY <1>9
  <2> QED BY <1>8, <2>1, <2>2
<1>11. ASSUME NEW j \in 1 .. n PROVE h[j] = (h[j - 1] * b + bytes[j]) % w
  <2>1. /\ j - 1 \in 0 .. n /\ j \in 0 .. n
        /\ 1 .. j \in SUBSET D /\ 1 .. j # {} /\ (1 .. j) \ {j} = 1 .. j - 1 /\ Max(1 .. j) = j
    BY <1>1, PrefixFacts
  <2>2. c[1 .. j] = (c[(1 .. j) \ {j}] * b + bytes[j]) % w
    BY <1>9, <2>1
  <2> QED BY <1>8, <2>1, <2>2
<1>12. h[n] = c[DOMAIN bytes]
  BY <1>1, <1>8
<1>13. Checksum(bytes) = h[n]
  BY <1>12, ChecksumIs DEF c, CheckedBy
<1> QED BY <1>10, <1>11, <1>13 DEF b, w, n

LEMMA ChecksumFacts ==
  ASSUME NEW bytes \in Seq(Nat)
  PROVE  Checksum(bytes) = Number(bytes, ByteBase) % CheckBase
<1> DEFINE b == ByteBase
           w == CheckBase
           n == Len(bytes)
<1>1. b \in Nat /\ w \in Nat \ {0} /\ n \in Nat /\ \A j \in 1 .. n : bytes[j] \in Nat
  BY Widths
<1>2. PICK h : /\ h[0] = 0
               /\ \A j \in 1 .. n : h[j] = (h[j - 1] * b + bytes[j]) % w
               /\ Checksum(bytes) = h[n]
  BY ChecksumCourse
<1>3. PICK g : Running(bytes, b, g) /\ Number(bytes, b) = g[n]
  <2> HIDE DEF b
  <2> QED BY <1>1, NumberCourse
<1> HIDE DEF b, w
<1>4. \A j \in 0 .. n : g[j] \in Nat
  <2>1. n \in Nat /\ n <= Len(bytes) /\ RunsTo(bytes, b, g, n)
    BY <1>3 DEF Running
  <2> HIDE DEF n
  <2>2. \A j \in 0 .. n : g[j] \in Nat /\ g[j] = g[j]
    BY <1>1, <1>3, <2>1, RunningFacts
  <2> QED BY <2>2
<1>5. \A x, d \in Nat : ((x % w) * b + d) % w = (x * b + d) % w
  <2>1. b \in Nat /\ w \in Nat \ {0}
    BY <1>1
  <2> QED BY <2>1, ModStep, Zenon
<1> DEFINE G == {j \in Nat : j <= n => h[j] = g[j] % w}
<1>6. 0 \in G
  <2>1. g[0] = 0
    BY <1>3 DEF Running, RunsTo
  <2>2. 0 % w = 0
    BY <1>1
  <2> QED BY <1>2, <2>1, <2>2
<1>7. ASSUME NEW j \in Nat, j \in G PROVE j + 1 \in G
  <2> SUFFICES ASSUME j + 1 <= n PROVE h[j + 1] = g[j + 1] % w
    OBVIOUS
  <2>1. j + 1 \in 1 .. n /\ (j + 1) - 1 = j /\ j \in 0 .. n /\ h[j] = g[j] % w
    BY <1>1, <1>7
  <2>2. g[j + 1] = g[j] * b + bytes[j + 1]
    BY <1>3, <2>1 DEF Running, RunsTo
  <2>3. h[j + 1] = ((g[j] % w) * b + bytes[j + 1]) % w
    BY <1>2, <2>1
  <2>4. g[j] \in Nat /\ bytes[j + 1] \in Nat
    BY <1>1, <1>4, <2>1
  <2>5. ((g[j] % w) * b + bytes[j + 1]) % w = (g[j] * b + bytes[j + 1]) % w
    BY <2>4, <1>5
  <2> QED BY <2>2, <2>3, <2>5
<1> HIDE DEF G
<1>8. \A j \in Nat : j \in G
  BY <1>6, <1>7, NatFromSet
<1>9. h[n] = g[n] % w
  BY <1>1, <1>8 DEF G
<1> QED BY <1>2, <1>3, <1>9 DEF b, w

-----------------------------------------------------------------------------
(* Symbols and their values                                                *)

Digital == ToSet(Alphabet) \union DOMAIN Alias
ValueOf(c) == SymbolValue(IF c \in DOMAIN Alias THEN Alias[c] ELSE c)
Written(digits) == [k \in 1 .. Len(digits) |-> Alphabet[digits[k] + 1]]
Shown(s) == Replace(s, "-", <<>>)
Checkable == ToSet(CheckAlphabet)
Figures == 0 .. Base - 1

LEMMA AlphabetFacts ==
  /\ Alphabet \in Seq(STRING) /\ Len(Alphabet) = Base
  /\ CheckAlphabet \in Seq(STRING) /\ Len(CheckAlphabet) = CheckBase
  /\ \A k \in 1 .. Base : CheckAlphabet[k] = Alphabet[k]
  /\ \A i, j \in 1 .. CheckBase : CheckAlphabet[i] = CheckAlphabet[j] => i = j
  /\ Checkable = {CheckAlphabet[k] : k \in 1 .. CheckBase}
  /\ ToSet(Alphabet) = {Alphabet[k] : k \in 1 .. Base}
  /\ "-" \notin Checkable /\ "o" \notin Checkable /\ "l" \notin Checkable
<1>1. /\ Alphabet \in Seq(STRING) /\ Len(Alphabet) = Base /\ CheckOnly \in Seq(STRING)
      /\ IsInjective(CheckAlphabet) /\ ToSet(CheckAlphabet) \intersect {"o", "l", "-"} = {}
  BY CodecAssumption DEF CodecAssumption
<1>2. CheckAlphabet \in Seq(STRING) /\ Len(CheckAlphabet) = CheckBase
  BY <1>1 DEF CheckAlphabet, CheckBase
<1>3. \A k \in 1 .. Base : CheckAlphabet[k] = Alphabet[k]
  BY <1>1, Widths DEF CheckAlphabet
<1>4. DOMAIN CheckAlphabet = 1 .. CheckBase /\ DOMAIN Alphabet = 1 .. Base
  BY <1>1, <1>2
<1>5. \A i, j \in 1 .. CheckBase : CheckAlphabet[i] = CheckAlphabet[j] => i = j
  BY <1>1, <1>4 DEF IsInjective
<1>6. /\ Checkable = {CheckAlphabet[k] : k \in 1 .. CheckBase}
      /\ ToSet(Alphabet) = {Alphabet[k] : k \in 1 .. Base}
  BY <1>4 DEF Checkable, ToSet
<1>7. "-" \notin Checkable /\ "o" \notin Checkable /\ "l" \notin Checkable
  BY <1>1 DEF Checkable
<1> QED BY <1>1, <1>2, <1>3, <1>5, <1>6, <1>7

LEMMA SymbolValueIs ==
  ASSUME NEW k \in 1 .. CheckBase PROVE SymbolValue(CheckAlphabet[k]) = k - 1
<1> DEFINE i == CHOOSE i \in 1 .. CheckBase : CheckAlphabet[i] = CheckAlphabet[k]
<1>1. i \in 1 .. CheckBase /\ CheckAlphabet[i] = CheckAlphabet[k]
  OBVIOUS
<1> HIDE DEF i
<1>2. i = k
  BY <1>1, AlphabetFacts
<1>3. SymbolValue(CheckAlphabet[k]) = i - 1
  BY DEF SymbolValue, i
<1> QED BY <1>2, <1>3

LEMMA AliasFacts ==
  /\ DOMAIN Alias = {"o", "l"} /\ Alias["o"] = Alphabet[1] /\ Alias["l"] = Alphabet[2]
  /\ \A c \in Checkable : c \notin DOMAIN Alias
<1>1. DOMAIN Alias = {"o", "l"} /\ Alias["o"] = Alphabet[1] /\ Alias["l"] = Alphabet[2]
  BY DEF Alias
<1> QED BY <1>1, AlphabetFacts

LEMMA FigureOf ==
  /\ \A c \in Digital : ValueOf(c) \in Figures
  /\ \A d \in Figures : Alphabet[d + 1] \in ToSet(Alphabet) /\ ValueOf(Alphabet[d + 1]) = d
  /\ ToSet(Alphabet) \subseteq Checkable
<1>1. Base \in Nat /\ CheckBase \in Nat /\ 2 <= Base /\ Base <= CheckBase
  BY Widths
<1>2. ToSet(Alphabet) \subseteq Checkable
  <2>1. \A k \in 1 .. Base : k \in 1 .. CheckBase /\ Alphabet[k] = CheckAlphabet[k]
    BY <1>1, AlphabetFacts
  <2> QED BY <2>1, AlphabetFacts
<1>3. ASSUME NEW k \in 1 .. Base
      PROVE  SymbolValue(Alphabet[k]) = k - 1 /\ Alphabet[k] \in ToSet(Alphabet)
  <2>1. k \in 1 .. CheckBase /\ Alphabet[k] = CheckAlphabet[k]
    BY <1>1, AlphabetFacts
  <2>2. SymbolValue(Alphabet[k]) = k - 1
    BY <2>1, SymbolValueIs
  <2>3. Alphabet[k] \in ToSet(Alphabet)
    BY AlphabetFacts
  <2> QED BY <2>2, <2>3
<1>4. ASSUME NEW c \in Digital PROVE ValueOf(c) \in Figures
  <2>1. PICK k \in 1 .. Base : (IF c \in DOMAIN Alias THEN Alias[c] ELSE c) = Alphabet[k]
    <3>1. CASE c \in DOMAIN Alias
      <4>1. 1 \in 1 .. Base /\ 2 \in 1 .. Base
        BY <1>1
      <4>2. Alias[c] = Alphabet[1] \/ Alias[c] = Alphabet[2]
        BY <3>1, AliasFacts
      <4> QED BY <3>1, <4>1, <4>2
    <3>2. CASE c \notin DOMAIN Alias
      <4>1. c \in {Alphabet[k] : k \in 1 .. Base}
        BY <3>2, AlphabetFacts DEF Digital
      <4> QED BY <3>2, <4>1
    <3> QED BY <3>1, <3>2
  <2>2. ValueOf(c) = k - 1
    BY <1>3, <2>1 DEF ValueOf
  <2> QED BY <1>1, <2>2 DEF Figures
<1>5. ASSUME NEW d \in Figures
      PROVE  Alphabet[d + 1] \in ToSet(Alphabet) /\ ValueOf(Alphabet[d + 1]) = d
  <2>1. d \in Nat /\ d + 1 \in 1 .. Base /\ (d + 1) - 1 = d
    BY <1>1 DEF Figures
  <2>2. SymbolValue(Alphabet[d + 1]) = d /\ Alphabet[d + 1] \in ToSet(Alphabet)
    BY <1>3, <2>1
  <2>3. Alphabet[d + 1] \notin DOMAIN Alias
    BY <1>2, <2>2, AliasFacts
  <2> QED BY <2>2, <2>3 DEF ValueOf
<1> QED BY <1>2, <1>4, <1>5

LEMMA NormalizedIs ==
  ASSUME NEW s
  PROVE  Normalized(s) = IF \A k \in DOMAIN Shown(s) : Shown(s)[k] \in Digital
                         THEN Ok([k \in DOMAIN Shown(s) |-> ValueOf(Shown(s)[k])])
                         ELSE Invalid
<1>1. Shown(s) = FlattenSeq([k \in DOMAIN s |-> IF s[k] = "-" THEN <<>> ELSE <<s[k]>>])
  <2>1. Shown(s) = FlattenSeq(Pieces(s, "-", <<>>))
    BY ReplaceIs DEF Shown
  <2> QED BY <2>1 DEF Pieces, Becomes
<1> QED BY <1>1 DEF Normalized, ValueOf, Digital

LEMMA AnswerFacts ==
  /\ \A v : IsOk(Ok(v)) /\ Ok(v).ok = v
  /\ ~IsOk(Invalid) /\ ~IsOk(Overflow) /\ Invalid # Overflow
BY DEF IsOk, Ok, Invalid, Overflow

\* Symbols are figures, or the text is refused.
LEMMA NormalizedType ==
  ASSUME NEW T, NEW s \in Seq(T)
  PROVE  \/ \E v \in Seq(Figures) : Normalized(s) = Ok(v)
         \/ Normalized(s) = Invalid
<1>1. Shown(s) \in Seq(T)
  <2>1. <<>> \in Seq(T)
    OBVIOUS
  <2> QED BY <2>1, ReplaceIsSeq DEF Shown
<1>2. CASE \A k \in DOMAIN Shown(s) : Shown(s)[k] \in Digital
  <2> DEFINE v == [k \in DOMAIN Shown(s) |-> ValueOf(Shown(s)[k])]
  <2>1. Normalized(s) = Ok(v)
    BY <1>2, NormalizedIs
  <2>2. DOMAIN Shown(s) = 1 .. Len(Shown(s)) /\ Len(Shown(s)) \in Nat
    BY <1>1
  <2>3. \A k \in DOMAIN Shown(s) : ValueOf(Shown(s)[k]) \in Figures
    BY <1>2, FigureOf
  <2>4. v \in Seq(Figures)
    BY <2>2, <2>3
  <2> QED BY <2>1, <2>4
<1>3. CASE ~\A k \in DOMAIN Shown(s) : Shown(s)[k] \in Digital
  BY <1>3, NormalizedIs
<1> QED BY <1>2, <1>3

\* Symbols that are written are read back.
LEMMA WrittenFacts ==
  ASSUME NEW digits \in Seq(Figures)
  PROVE  /\ Written(digits) \in Seq(ToSet(Alphabet)) /\ Written(digits) \in Seq(Checkable)
         /\ Len(Written(digits)) = Len(digits)
         /\ \A k \in 1 .. Len(digits) : Written(digits)[k] = Alphabet[digits[k] + 1]
<1>1. \A k \in 1 .. Len(digits) : Alphabet[digits[k] + 1] \in ToSet(Alphabet)
  BY FigureOf
<1>2. Written(digits) \in Seq(ToSet(Alphabet)) /\ Len(Written(digits)) = Len(digits)
  BY <1>1 DEF Written
<1>3. Written(digits) \in Seq(Checkable)
  BY <1>2, FigureOf
<1> QED BY <1>2, <1>3 DEF Written

LEMMA ShownCheckable == ASSUME NEW s \in Seq(Checkable) PROVE Shown(s) = s
<1>1. "-" \notin Checkable /\ <<>> \in Seq(Checkable)
  BY AlphabetFacts
<1> HIDE DEF Checkable
<1> QED BY <1>1, ReplaceAbsent DEF Shown

LEMMA NormalizedWritten ==
  ASSUME NEW digits \in Seq(Figures) PROVE Normalized(Written(digits)) = Ok(digits)
<1> DEFINE s == Written(digits)
           n == Len(digits)
           v == [k \in DOMAIN s |-> ValueOf(s[k])]
<1>1. /\ n \in Nat /\ Shown(s) = s /\ DOMAIN s = 1 .. n
      /\ \A k \in 1 .. n : s[k] = Alphabet[digits[k] + 1] /\ digits[k] \in Figures
  BY WrittenFacts, ShownCheckable
<1>2. \A k \in 1 .. n : s[k] \in Digital /\ ValueOf(s[k]) = digits[k]
  BY <1>1, FigureOf DEF Digital
<1>3. Normalized(s) = Ok(v)
  BY <1>1, <1>2, NormalizedIs
<1>4. v = digits
  <2>1. v = [k \in 1 .. n |-> digits[k]]
    BY <1>1, <1>2
  <2>2. digits = [k \in 1 .. n |-> digits[k]]
    OBVIOUS
  <2> QED BY <2>1, <2>2
<1> QED BY <1>3, <1>4

\* A symbol that only checks is no symbol of a text.
LEMMA NormalizedRefuses ==
  ASSUME NEW s \in Seq(Checkable), NEW k \in 1 .. Len(s), s[k] \notin ToSet(Alphabet)
  PROVE  Normalized(s) = Invalid
<1>1. Shown(s) = s /\ k \in DOMAIN s /\ s[k] \in Checkable
  BY ShownCheckable
<1>2. s[k] \notin Digital
  BY <1>1, AliasFacts DEF Digital
<1> QED BY <1>1, <1>2, NormalizedIs

-----------------------------------------------------------------------------
(* Words                                                                   *)

WordStep(v, acc, k) ==
  IF ~IsOk(acc) THEN acc
  ELSE IF Len(v) - (k - 1) > WordLen
       THEN IF v[k] # 0 THEN Overflow ELSE acc
       ELSE Accumulate(acc, v[k])

Places(v) == [i \in DOMAIN v |-> i]
Reading(v, g) ==
  g = [t \in SUBSET (DOMAIN Places(v)) |->
         IF t = {} THEN Ok(0) ELSE WordStep(v, g[t \ {Max(t)}], Places(v)[Max(t)])]
ReadBy(v) == (CHOOSE g : Reading(v, g))[DOMAIN Places(v)]

LEMMA DecodeWordIs ==
  ASSUME NEW s
  PROVE  DecodeWord(s) = IF IsOk(Normalized(s)) THEN ReadBy(Normalized(s).ok) ELSE Normalized(s)
BY DEF DecodeWord, FoldLeftDomain, FoldLeft, MapThenFoldSet, ReadBy, Reading, Places, WordStep

WordAnswers == {Ok(n) : n \in Nat} \union {Overflow}

LEMMA WordStepType ==
  ASSUME NEW v \in Seq(Figures), NEW acc \in WordAnswers, NEW k \in 1 .. Len(v)
  PROVE  WordStep(v, acc, k) \in WordAnswers
<1>1. CASE acc = Overflow
  BY <1>1, AnswerFacts DEF WordStep
<1>2. CASE \E n \in Nat : acc = Ok(n)
  <2>1. PICK n \in Nat : acc = Ok(n)
    BY <1>2
  <2>2. acc.ok = n
    BY <2>1, AnswerFacts
  <2>3. Base \in Nat /\ v[k] \in Nat
    BY Widths DEF Figures
  <2>4. n * Base + v[k] \in Nat
    <3>1. n * Base \in Nat
      BY <2>3
    <3> QED BY <2>3, <3>1
  <2>5. Accumulate(acc, v[k]) \in WordAnswers
    BY <2>2, <2>4 DEF Accumulate, WordAnswers
  <2>6. acc \in WordAnswers /\ Overflow \in WordAnswers
    BY DEF WordAnswers
  <2> QED BY <2>5, <2>6 DEF WordStep
<1> QED BY <1>1, <1>2 DEF WordAnswers

LEMMA ReadCourse ==
  ASSUME NEW v \in Seq(Figures)
  PROVE  \E h : /\ h[0] = Ok(0)
                /\ \A j \in 1 .. Len(v) : h[j] = WordStep(v, h[j - 1], j)
                /\ ReadBy(v) = h[Len(v)]
<1> DEFINE n == Len(v)
           D == 1 .. n
           order == Places(v)
           st == [a \in WordAnswers \X D |-> WordStep(v, a[1], a[2])]
           c == CHOOSE g : Reading(v, g)
<1>1. /\ n \in Nat /\ order \in Seq(D) /\ Len(order) = n /\ DOMAIN order = D
      /\ \A i \in D : order[i] = i
  BY DEF Places
<1>2. /\ st \in [WordAnswers \X D -> WordAnswers]
      /\ \A a \in WordAnswers, k \in D : st[<<a, k>>] = WordStep(v, a, k)
  <2>1. \A a \in WordAnswers, k \in D : WordStep(v, a, k) \in WordAnswers
    BY WordStepType
  <2> QED BY <2>1
<1>3. PICK g \in [SUBSET D -> WordAnswers] : Descent(st, Ok(0), order, D, g)
  <2>1. n \in Nat /\ n <= Len(order)
    BY <1>1
  <2> HIDE DEF n, order
  <2>2. Ok(0) \in WordAnswers
    BY DEF WordAnswers
  <2> DEFINE A == WordAnswers
             K == D
             b == Ok(0)
  <2>3. b \in A /\ order \in Seq(K) /\ st \in [A \X K -> A]
    BY <1>1, <1>2, <2>2
  <2> HIDE DEF A, K, st, b
  <2>4. \A m \in Nat : m <= Len(order) => Descends(A, st, b, order, m)
    BY <2>3, DescentExists
  <2> QED BY <2>1, <2>4 DEF Descends, A, b
<1> HIDE DEF st, n
<1>4. \A t \in SUBSET D : t # {} => Max(t) \in t
  BY <1>1, MaxIsIn
<1> HIDE DEF order
<1>5. \A t \in SUBSET D :
        g[t] = IF t = {} THEN Ok(0) ELSE WordStep(v, g[t \ {Max(t)}], order[Max(t)])
  <2> TAKE t \in SUBSET D
  <2>1. CASE t = {}
    BY <1>3, <2>1 DEF Descent
  <2>2. CASE t # {}
    <3>1. order[Max(t)] \in D /\ t \ {Max(t)} \in SUBSET D
      BY <1>1, <1>4, <2>2
    <3>2. g[t \ {Max(t)}] \in WordAnswers
      BY <3>1
    <3>3. g[t] = st[<<g[t \ {Max(t)}], order[Max(t)]>>]
      BY <1>3, <2>2 DEF Descent
    <3> QED BY <1>2, <2>2, <3>1, <3>2, <3>3
  <2> QED BY <2>1, <2>2
<1>6. Reading(v, g)
  <2>1. g = [t \in SUBSET D |-> g[t]]
    OBVIOUS
  <2> QED BY <1>1, <1>5, <2>1 DEF Reading, order
<1>7. Reading(v, c)
  BY <1>6
<1> HIDE DEF c
<1> DEFINE h == [j \in 0 .. n |-> c[1 .. j]]
<1>8. \A j \in 0 .. n : h[j] = c[1 .. j]
  OBVIOUS
<1> HIDE DEF h
<1>9. \A t \in SUBSET D :
        c[t] = IF t = {} THEN Ok(0) ELSE WordStep(v, c[t \ {Max(t)}], order[Max(t)])
  BY <1>1, <1>7 DEF Reading, order
<1>10. h[0] = Ok(0)
  <2>1. 1 .. 0 = {} /\ 0 \in 0 .. n /\ {} \in SUBSET D
    BY <1>1
  <2>2. c[{}] = Ok(0)
    BY <1>9
  <2> QED BY <1>8, <2>1, <2>2
<1>11. ASSUME NEW j \in 1 .. n PROVE h[j] = WordStep(v, h[j - 1], j)
  <2>1. /\ j - 1 \in 0 .. n /\ j \in 0 .. n
        /\ 1 .. j \in SUBSET D /\ 1 .. j # {} /\ (1 .. j) \ {j} = 1 .. j - 1 /\ Max(1 .. j) = j
    BY <1>1, PrefixFacts
  <2>2. c[1 .. j] = WordStep(v, c[(1 .. j) \ {j}], j)
    <3> DEFINE t == 1 .. j
    <3>1. t \in SUBSET D /\ t # {} /\ Max(t) = j /\ order[j] = j
      BY <1>1, <2>1
    <3> HIDE DEF t
    <3>2. c[t] = WordStep(v, c[t \ {j}], j)
      BY <1>9, <3>1
    <3> QED BY <3>2 DEF t
  <2> QED BY <1>8, <2>1, <2>2
<1>12. h[n] = c[DOMAIN Places(v)]
  BY <1>1, <1>8 DEF order
<1>13. ReadBy(v) = h[n]
  BY <1>12 DEF c, ReadBy
<1> QED BY <1>10, <1>11, <1>13 DEF n

\* A word's symbols are enough for any word.
LEMMA WordLenFacts == WordLen \in Nat /\ WordLimit <= Power(Base, WordLen)
<1> DEFINE m == WordBits + SymbolBits - 1
           q == m \div SymbolBits
           r == m % SymbolBits
<1>1. SymbolBits \in Nat \ {0} /\ WordBits \in Nat
  BY CodecAssumption DEF CodecAssumption
<1>2. m \in Nat
  BY <1>1
<1> HIDE DEF m
<1>3. q \in Nat /\ r \in 0 .. SymbolBits - 1 /\ m = q * SymbolBits + r
  <2>1. m \in Int
    BY <1>2
  <2> QED BY <1>1, <1>2, <2>1, DivFacts
<1> HIDE DEF q, r
<1>4. WordLen = q
  BY DEF WordLen, CeilDiv, m, q
<1>5. SymbolBits * q \in Nat /\ SymbolBits * q = q * SymbolBits
  BY <1>1, <1>3
<1>6. WordBits <= SymbolBits * q
  BY <1>1, <1>3, <1>5 DEF m
<1>7. 2 \in Nat \ {0} /\ SymbolBits \in Nat
  BY <1>1
<1>8. Power(Base, q) = Power(2, SymbolBits * q)
  BY <1>3, <1>7, PowerPower DEF Base
<1>9. Power(2, WordBits) <= Power(2, SymbolBits * q)
  BY <1>1, <1>5, <1>6, <1>7, PowerMono
<1> QED BY <1>3, <1>4, <1>8, <1>9 DEF WordLimit

\* What has been read of v after some symbols, of which the running value is
\* x and after which rest symbols are left.
ReadSoFar(answer, x, rest) ==
  \/ answer = Ok(x) /\ x < WordLimit /\ (rest >= WordLen => x = 0)
  \/ answer = Overflow /\ x * Power(Base, rest) >= WordLimit

LEMMA ReadsOn ==
  ASSUME NEW v \in Seq(Figures), NEW k \in 1 .. Len(v), NEW answer, NEW x \in Nat,
         ReadSoFar(answer, x, Len(v) - (k - 1))
  PROVE  ReadSoFar(WordStep(v, answer, k), x * Base + v[k], Len(v) - k)
<1> DEFINE rest == Len(v) - k
           y == x * Base + v[k]
           b == Base
           p == Power(b, rest)
           w == WordLen
<1>1. /\ rest \in Nat /\ Len(v) - (k - 1) = rest + 1 /\ v[k] \in Nat
      /\ b \in Nat \ {0} /\ WordLimit \in Nat \ {0}
  BY Widths DEF Figures
<1>2. p \in Nat /\ 1 <= p /\ Power(b, rest + 1) = p * b
  <2>1. \A n \in Nat : Power(b, n) \in Nat \ {0} /\ Power(b, n + 1) = Power(b, n) * b
    <3> HIDE DEF b
    <3> QED BY <1>1, PowerFacts
  <2> HIDE DEF b, rest
  <2>2. p \in Nat \ {0} /\ Power(b, rest + 1) = p * b
    BY <1>1, <2>1
  <2> HIDE DEF p
  <2> QED BY <2>2
<1>3. x * b \in Nat /\ y \in Nat
  <2>1. x * b \in Nat
    BY <1>1
  <2> QED BY <1>1, <2>1
<1>4. w \in Nat /\ WordLimit <= Power(b, w)
  BY WordLenFacts
<1>5. CASE answer = Overflow /\ x * Power(b, rest + 1) >= WordLimit
  <2>1. x * (p * b) = (x * b) * p
    BY <1>1, <1>2
  <2>2. (x * b) * p <= y * p
    <3>1. x * b <= y
      BY <1>1, <1>3
    <3> HIDE DEF y, p, b, rest
    <3>2. x * b \in Nat
      BY <1>3
    <3> DEFINE z == x * b
    <3> HIDE DEF z
    <3>3. z \in Nat /\ z <= y
      BY <3>1, <3>2 DEF z
    <3>4. z * p <= y * p
      BY <1>2, <1>3, <3>3, Products
    <3> QED BY <3>4 DEF z
  <2>3. y * p >= WordLimit
    <3>1. (x * b) * p \in Nat /\ y * p \in Nat
      BY <1>2, <1>3, Products
    <3>2. (x * b) * p >= WordLimit
      BY <1>2, <1>5, <2>1
    <3> HIDE DEF y, p, b
    <3> QED BY <1>1, <2>2, <3>1, <3>2
  <2>4. WordStep(v, answer, k) = Overflow
    BY <1>5, AnswerFacts DEF WordStep
  <2> QED BY <2>3, <2>4 DEF ReadSoFar
<1>6. CASE answer = Ok(x) /\ x < WordLimit /\ (rest + 1 >= w => x = 0)
  <2>1. IsOk(answer) /\ answer.ok = x
    BY <1>6, AnswerFacts
  <2>2. CASE rest + 1 > w
    <3>1. x = 0 /\ rest >= w
      BY <1>1, <1>4, <1>6, <2>2
    <3>2. y = v[k]
      <4>1. 0 * b = 0
        BY <1>1
      <4> QED BY <1>1, <3>1, <4>1
    <3>3. CASE v[k] = 0
      <4>1. WordStep(v, answer, k) = answer
        BY <1>1, <2>1, <2>2, <3>3 DEF WordStep
      <4> QED BY <1>1, <1>6, <3>1, <3>2, <3>3, <4>1 DEF ReadSoFar
    <3>4. CASE v[k] # 0
      <4>1. WordStep(v, answer, k) = Overflow
        BY <1>1, <2>1, <2>2, <3>4 DEF WordStep
      <4>2. Power(b, w) <= p
        <5> HIDE DEF b, w, rest
        <5> QED BY <1>1, <1>4, <3>1, PowerMono
      <4>3. 1 * p <= y * p
        <5>1. 1 \in Nat /\ 1 <= y
          BY <1>1, <3>2, <3>4
        <5> HIDE DEF y, p
        <5> QED BY <1>2, <1>3, <5>1, Products
      <4>4. y * p >= WordLimit
        <5>1. y * p \in Nat /\ 1 * p = p /\ Power(b, w) \in Nat
          <6>1. Power(b, w) \in Nat
            <7> HIDE DEF b, w
            <7> QED BY <1>1, <1>4, PowerFacts
          <6> HIDE DEF y, p
          <6> QED BY <1>2, <1>3, <6>1, Products
        <5> HIDE DEF y, p, b, w
        <5> QED BY <1>1, <1>2, <1>4, <4>2, <4>3, <5>1
      <4> QED BY <4>1, <4>4 DEF ReadSoFar
    <3> QED BY <3>3, <3>4
  <2>3. CASE ~(rest + 1 > w)
    <3>1. WordStep(v, answer, k) = IF y < WordLimit THEN Ok(y) ELSE Overflow
      BY <1>1, <2>1, <2>3 DEF WordStep, Accumulate
    <3>2. ~(rest >= w)
      BY <1>1, <1>4, <2>3
    <3>3. CASE y < WordLimit
      BY <3>1, <3>2, <3>3 DEF ReadSoFar
    <3>4. CASE ~(y < WordLimit)
      <4>1. y * 1 <= y * p /\ y * p \in Nat /\ y * 1 = y
        <5>1. 1 \in Nat /\ 1 * y <= p * y /\ p * y \in Nat
          <6> HIDE DEF y, p
          <6> QED BY <1>2, <1>3, Products
        <5>2. 1 * y = y /\ p * y = y * p /\ y * 1 = y
          <6> HIDE DEF y, p
          <6> QED BY <1>2, <1>3
        <5> QED BY <5>1, <5>2
      <4>2. y * p >= WordLimit
        <5> HIDE DEF y, p
        <5> QED BY <1>1, <1>3, <3>4, <4>1
      <4> QED BY <3>1, <3>4, <4>2 DEF ReadSoFar
    <3> QED BY <3>3, <3>4
  <2> QED BY <2>2, <2>3
<1>7. \/ answer = Ok(x) /\ x < WordLimit /\ (rest + 1 >= w => x = 0)
      \/ answer = Overflow /\ x * Power(b, rest + 1) >= WordLimit
  BY <1>1 DEF ReadSoFar
<1> QED BY <1>5, <1>6, <1>7

\* A text decodes to what its symbols write, when that is a word.
LEMMA ReadIs ==
  ASSUME NEW v \in Seq(Figures)
  PROVE  ReadBy(v) = IF Number(v, Base) < WordLimit THEN Ok(Number(v, Base)) ELSE Overflow
<1> DEFINE n == Len(v)
           b == Base
<1>1. n \in Nat /\ n <= Len(v) /\ v \in Seq(Nat) /\ b \in Nat \ {0} /\ WordLimit \in Nat \ {0}
  <2>1. v \in Seq(Nat)
    <3>1. \A i \in 1 .. n : v[i] \in Nat
      BY Widths DEF Figures
    <3> QED BY <3>1
  <2> QED BY <2>1, Widths
<1>2. PICK h : /\ h[0] = Ok(0)
               /\ \A j \in 1 .. n : h[j] = WordStep(v, h[j - 1], j)
               /\ ReadBy(v) = h[n]
  BY ReadCourse
<1> HIDE DEF b
<1>3. PICK g : Running(v, b, g) /\ Number(v, b) = g[n]
  BY <1>1, NumberCourse
<1>4. \A j \in 0 .. n : g[j] \in Nat
  <2>1. RunsTo(v, b, g, n)
    BY <1>3 DEF Running
  <2> HIDE DEF n
  <2>2. \A j \in 0 .. n : g[j] \in Nat /\ g[j] = g[j]
    BY <1>1, <1>3, <2>1, RunningFacts
  <2> QED BY <2>2
<1> DEFINE G == {j \in Nat : j <= n => ReadSoFar(h[j], g[j], n - j)}
<1>5. 0 \in G
  <2>1. g[0] = 0 /\ 0 < WordLimit
    BY <1>1, <1>3 DEF Running, RunsTo
  <2> QED BY <1>2, <2>1 DEF ReadSoFar
<1>6. ASSUME NEW j \in Nat, j \in G PROVE j + 1 \in G
  <2> SUFFICES ASSUME j + 1 <= n PROVE ReadSoFar(h[j + 1], g[j + 1], n - (j + 1))
    OBVIOUS
  <2>1. j + 1 \in 1 .. n /\ (j + 1) - 1 = j /\ j \in 0 .. n /\ j <= n
    BY <1>1
  <2>2. g[j + 1] = g[j] * b + v[j + 1] /\ h[j + 1] = WordStep(v, h[j], j + 1) /\ g[j] \in Nat
    BY <1>2, <1>3, <1>4, <2>1 DEF Running, RunsTo
  <2>3. ReadSoFar(h[j], g[j], n - ((j + 1) - 1))
    BY <1>6, <2>1
  <2>4. ReadSoFar(WordStep(v, h[j], j + 1), g[j] * b + v[j + 1], n - (j + 1))
    BY <2>1, <2>2, <2>3, ReadsOn DEF b
  <2> QED BY <2>2, <2>4
<1> HIDE DEF G
<1>7. \A j \in Nat : j \in G
  BY <1>5, <1>6, NatFromSet
<1>8. ReadSoFar(h[n], g[n], 0)
  <2>1. n \in G /\ n - n = 0
    BY <1>1, <1>7
  <2> QED BY <1>1, <2>1 DEF G
<1>9. g[n] * Power(b, 0) = g[n]
  <2>1. Power(b, 0) = 1
    BY <1>1, PowerFacts
  <2>2. g[n] \in Nat
    BY <1>1, <1>4
  <2> HIDE DEF n
  <2> QED BY <2>1, <2>2
<1>10. \/ h[n] = Ok(g[n]) /\ g[n] < WordLimit
       \/ h[n] = Overflow /\ g[n] >= WordLimit
  BY <1>8, <1>9 DEF ReadSoFar, b
<1> QED BY <1>1, <1>2, <1>3, <1>4, <1>10 DEF b

LEMMA DecodeWordFacts ==
  ASSUME NEW s, NEW v \in Seq(Figures), Normalized(s) = Ok(v)
  PROVE  /\ IsOk(DecodeWord(s)) <=> Number(v, Base) < WordLimit
         /\ Number(v, Base) < WordLimit => DecodeWord(s) = Ok(Number(v, Base))
<1>1. Normalized(s).ok = v /\ IsOk(Normalized(s))
  BY AnswerFacts
<1>2. DecodeWord(s) = IF Number(v, Base) < WordLimit THEN Ok(Number(v, Base)) ELSE Overflow
  BY <1>1, DecodeWordIs, ReadIs
<1> QED BY <1>2, AnswerFacts

\* The first of n places where s and t differ has less in s.
FirstLess(s, t, n) ==
  \E k \in 1 .. n : s[k] < t[k] /\ \A j \in 1 .. k - 1 : s[j] = t[j]

LEMMA FirstLessAdd ==
  ASSUME NEW n \in Nat, NEW s \in Seq(Nat), NEW t \in Seq(Nat), Len(s) = n, Len(t) = n,
         NEW c \in Nat, NEW d \in Nat,
         FirstLess(s, t, n) \/ (s = t /\ c < d)
  PROVE  FirstLess(Add(s, c), Add(t, d), n + 1)
<1> DEFINE a == Add(s, c)
           e == Add(t, d)
<1>1. /\ \A j \in 1 .. n : a[j] = s[j] /\ e[j] = t[j]
      /\ a[n + 1] = c /\ e[n + 1] = d
  BY DEF Add
<1> HIDE DEF a, e
<1>2. CASE FirstLess(s, t, n)
  <2>1. PICK k \in 1 .. n : s[k] < t[k] /\ \A j \in 1 .. k - 1 : s[j] = t[j]
    BY <1>2 DEF FirstLess
  <2>2. k \in 1 .. n + 1 /\ a[k] < e[k]
    BY <1>1, <2>1
  <2>3. \A j \in 1 .. k - 1 : a[j] = e[j]
    BY <1>1, <2>1
  <2>4. FirstLess(a, e, n + 1)
    BY <2>2, <2>3 DEF FirstLess
  <2> QED BY <2>4 DEF a, e
<1>3. CASE s = t /\ c < d
  <2>1. n + 1 \in 1 .. n + 1 /\ a[n + 1] < e[n + 1]
    BY <1>1, <1>3
  <2>2. \A j \in 1 .. (n + 1) - 1 : a[j] = e[j]
    BY <1>1, <1>3
  <2>3. FirstLess(a, e, n + 1)
    BY <2>1, <2>2 DEF FirstLess
  <2> QED BY <2>3 DEF a, e
<1> QED BY <1>2, <1>3

\* Digits of the same length are in the order of their numbers.
LEMMA DigitsInOrder ==
  ASSUME NEW b \in Nat \ {0}
  PROVE  \A len \in Nat : \A m, n \in Nat :
           m < n /\ n < Power(b, len) => FirstLess(Digits(m, b, len), Digits(n, b, len), len)
<1> DEFINE G == {len \in Nat : \A m, n \in Nat :
                   m < n /\ n < Power(b, len) =>
                     FirstLess(Digits(m, b, len), Digits(n, b, len), len)}
<1>1. 0 \in G
  <2>1. Power(b, 0) = 1
    BY PowerFacts
  <2> QED BY <2>1
<1>2. ASSUME NEW len \in Nat, len \in G PROVE len + 1 \in G
  <2> SUFFICES ASSUME NEW m \in Nat, NEW n \in Nat, m < n, n < Power(b, len + 1)
               PROVE  FirstLess(Digits(m, b, len + 1), Digits(n, b, len + 1), len + 1)
    OBVIOUS
  <2> DEFINE x == m \div b
             c == m % b
             y == n \div b
             d == n % b
             p == Power(b, len)
  <2>1. /\ x \in Nat /\ c \in 0 .. b - 1 /\ m = x * b + c
        /\ y \in Nat /\ d \in 0 .. b - 1 /\ n = y * b + d
    <3>1. m \in Int /\ n \in Int
      OBVIOUS
    <3> QED BY <3>1, DivFacts
  <2>2. /\ Digits(m, b, len + 1) = Add(Digits(x, b, len), c)
        /\ Digits(n, b, len + 1) = Add(Digits(y, b, len), d)
    BY DigitsMore
  <2>3. p \in Nat /\ n < p * b
    BY PowerFacts
  <2> HIDE DEF x, c, y, d
  <2>4. y < p
    <3> HIDE DEF p
    <3>1. CASE p <= y
      <4>1. p * b <= y * b /\ y * b \in Nat /\ p * b \in Nat
        BY <2>1, <2>3, <3>1, Products
      <4> QED BY <2>1, <2>3, <4>1
    <3> QED BY <2>1, <2>3, <3>1
  <2>5. x < y \/ (x = y /\ c < d)
    <3>1. CASE y < x
      <4>1. x \in Int /\ y \in Int /\ b \in Nat
        BY <2>1
      <4>2. y * b + b <= x * b
        BY <3>1, <4>1, Multiples
      <4>3. y * b \in Int /\ x * b \in Int
        BY <4>1
      <4> QED BY <2>1, <4>2, <4>3
    <3>2. CASE x = y
      <4>1. y * b \in Nat
        BY <2>1, Products
      <4>2. m = y * b + c
        BY <2>1, <3>2
      <4> QED BY <2>1, <3>2, <4>1, <4>2
    <3> QED BY <2>1, <3>1, <3>2
  <2> DEFINE s == Digits(x, b, len)
             t == Digits(y, b, len)
  <2>6. /\ s \in Seq(Nat) /\ Len(s) = len /\ t \in Seq(Nat) /\ Len(t) = len
        /\ c \in Nat /\ d \in Nat
    <3>1. /\ s \in Seq(0 .. b - 1) /\ Len(s) = len /\ t \in Seq(0 .. b - 1) /\ Len(t) = len
      BY <2>1, DigitsFacts
    <3>2. Seq(0 .. b - 1) \subseteq Seq(Nat)
      OBVIOUS
    <3> HIDE DEF s, t
    <3> QED BY <2>1, <3>1, <3>2
  <2>7. FirstLess(s, t, len) \/ (s = t /\ c < d)
    BY <1>2, <2>1, <2>4, <2>5
  <2> HIDE DEF s, t
  <2>8. FirstLess(Add(s, c), Add(t, d), len + 1)
    BY <2>6, <2>7, FirstLessAdd
  <2> QED BY <2>2, <2>8 DEF s, t
<1> HIDE DEF G
<1>3. \A len \in Nat : len \in G
  BY <1>1, <1>2, NatFromSet
<1> QED BY <1>3 DEF G

LEMMA EncodeWordFacts ==
  ASSUME NEW n \in Nat
  PROVE  /\ EncodeWord(n) = Written(Digits(n, Base, WordLen))
         /\ Digits(n, Base, WordLen) \in Seq(Figures)
         /\ \A k \in 1 .. WordLen : SymbolValue(EncodeWord(n)[k]) = Digits(n, Base, WordLen)[k]
<1> DEFINE d == Digits(n, Base, WordLen)
<1>1. d \in Seq(Figures) /\ Len(d) = WordLen
  <2>1. Base \in Nat \ {0} /\ WordLen \in Nat
    BY Widths, WordLenFacts
  <2>2. d \in Seq(0 .. Base - 1) /\ Len(d) = WordLen
    BY <2>1, DigitsFacts
  <2> QED BY <2>2 DEF Figures
<1> HIDE DEF d
<1>2. EncodeWord(n) = Written(d)
  BY <1>1 DEF EncodeWord, Written, d
<1>3. ASSUME NEW k \in 1 .. WordLen PROVE SymbolValue(Written(d)[k]) = d[k]
  <2>1. Written(d)[k] = Alphabet[d[k] + 1] /\ d[k] \in Figures
    BY <1>1, WrittenFacts
  <2>2. d[k] + 1 \in 1 .. Base /\ d[k] + 1 \in 1 .. CheckBase /\ (d[k] + 1) - 1 = d[k]
    BY <2>1, Widths DEF Figures
  <2>3. Alphabet[d[k] + 1] = CheckAlphabet[d[k] + 1]
    BY <2>2, AlphabetFacts
  <2>4. SymbolValue(CheckAlphabet[d[k] + 1]) = (d[k] + 1) - 1
    BY <2>2, SymbolValueIs
  <2> QED BY <2>1, <2>2, <2>3, <2>4
<1> QED BY <1>1, <1>2, <1>3 DEF d

LEMMA WordsComeBack ==
  ASSUME NEW n \in Nat, n < WordLimit
  PROVE  DecodeWord(EncodeWord(n)) = Ok(n)
<1> DEFINE d == Digits(n, Base, WordLen)
<1>1. EncodeWord(n) = Written(d) /\ d \in Seq(Figures)
  BY EncodeWordFacts
<1>2. Number(d, Base) = n
  <2>1. WordLen \in Nat /\ n < Power(Base, WordLen) /\ Base \in Nat \ {0}
    <3>1. /\ WordLen \in Nat /\ WordLimit <= Power(Base, WordLen)
          /\ WordLimit \in Nat /\ Base \in Nat \ {0}
      BY WordLenFacts, Widths
    <3>2. Power(Base, WordLen) \in Nat
      BY <3>1, PowerFacts
    <3> QED BY <3>1, <3>2
  <2> QED BY <2>1, NumberOfDigits
<1> HIDE DEF d
<1>3. Normalized(Written(d)) = Ok(d)
  BY <1>1, NormalizedWritten
<1> QED BY <1>1, <1>2, <1>3, DecodeWordFacts

LEMMA WordsAreExact ==
  ASSUME NEW T, text \in Seq(T) PROVE WordsExact
<1> DEFINE symbols == Normalized(text)
           value == Number(symbols.ok, Base)
           Below(s, t) == \E k \in 1 .. WordLen :
             /\ SymbolValue(s[k]) < SymbolValue(t[k])
             /\ \A j \in 1 .. k - 1 : s[j] = t[j]
<1>1. CASE symbols = Invalid
  <2>1. ~IsOk(symbols) /\ DecodeWord(text) = Invalid
    BY <1>1, AnswerFacts, DecodeWordIs
  <2>2. ~IsOk(DecodeWord(text))
    BY <2>1, AnswerFacts
  <2> QED BY <2>1, <2>2 DEF WordsExact
<1>2. CASE \E v \in Seq(Figures) : symbols = Ok(v)
  <2>1. PICK v \in Seq(Figures) : symbols = Ok(v)
    BY <1>2
  <2>2. IsOk(symbols) /\ symbols.ok = v /\ value = Number(v, Base)
    BY <2>1, AnswerFacts
  <2>3. /\ IsOk(DecodeWord(text)) <=> value < WordLimit
        /\ value < WordLimit => DecodeWord(text) = Ok(value)
    BY <2>1, <2>2, DecodeWordFacts
  <2>4. value \in Nat
    BY <2>2, Widths, NumberBound DEF Figures
  <2> HIDE DEF symbols, value
  <2>5. IsOk(DecodeWord(text)) <=> IsOk(symbols) /\ value < WordLimit
    BY <2>2, <2>3
  <2>6. ASSUME value < WordLimit
        PROVE  DecodeWord(text).ok = value /\ DecodeWord(EncodeWord(value)) = Ok(value)
    BY <2>3, <2>4, <2>6, AnswerFacts, WordsComeBack
  <2>7. ASSUME value < WordLimit, value > 0
        PROVE  Below(EncodeWord(value - 1), EncodeWord(value))
    <3> DEFINE m == value - 1
               s == EncodeWord(m)
               t == EncodeWord(value)
               c == Digits(m, Base, WordLen)
               d == Digits(value, Base, WordLen)
    <3>1. m \in Nat /\ m < value
      BY <2>4, <2>7
    <3>2. value < Power(Base, WordLen) /\ WordLen \in Nat /\ Base \in Nat \ {0}
      <4>1. /\ WordLen \in Nat /\ WordLimit <= Power(Base, WordLen)
            /\ WordLimit \in Nat /\ Base \in Nat \ {0}
        BY WordLenFacts, Widths
      <4>2. Power(Base, WordLen) \in Nat
        BY <4>1, PowerFacts
      <4> QED BY <2>4, <2>7, <4>1, <4>2
    <3> HIDE DEF m
    <3>3. FirstLess(c, d, WordLen)
      BY <2>4, <3>1, <3>2, DigitsInOrder
    <3>4. /\ \A k \in 1 .. WordLen : SymbolValue(s[k]) = c[k] /\ SymbolValue(t[k]) = d[k]
      BY <2>4, <3>1, EncodeWordFacts
    <3>5. \A k \in 1 .. WordLen : s[k] = Alphabet[c[k] + 1] /\ t[k] = Alphabet[d[k] + 1]
      BY DEF EncodeWord
    <3> HIDE DEF s, t, c, d
    <3>6. PICK k \in 1 .. WordLen : c[k] < d[k] /\ \A j \in 1 .. k - 1 : c[j] = d[j]
      BY <3>3 DEF FirstLess
    <3>7. SymbolValue(s[k]) < SymbolValue(t[k])
      BY <3>4, <3>6
    <3>8. \A j \in 1 .. k - 1 : s[j] = t[j]
      <4> TAKE j \in 1 .. k - 1
      <4>1. j \in 1 .. WordLen
        BY <3>2
      <4> QED BY <3>5, <3>6, <4>1
    <3>9. Below(s, t)
      BY <3>7, <3>8
    <3> QED BY <3>9 DEF s, t, m
  <2> HIDE DEF Below
  <2>8. WordsExact <=>
          /\ IsOk(DecodeWord(text)) <=> IsOk(symbols) /\ value < WordLimit
          /\ IsOk(DecodeWord(text)) =>
               /\ DecodeWord(text).ok = value
               /\ DecodeWord(EncodeWord(value)) = Ok(value)
               /\ value > 0 => Below(EncodeWord(value - 1), EncodeWord(value))
    BY DEF WordsExact, symbols, value, Below
  <2> QED BY <2>3, <2>5, <2>6, <2>7, <2>8
<1>3. symbols = Invalid \/ \E v \in Seq(Figures) : symbols = Ok(v)
  BY NormalizedType
<1> QED BY <1>1, <1>2, <1>3

-----------------------------------------------------------------------------
(* Bytes                                                                   *)

\* The symbols of a number of bytes, and the bits that pad the last one.
SymbolsOf(len) == CeilDiv(len * ByteBits, SymbolBits)
PaddingOf(len) == SymbolsOf(len) * SymbolBits - len * ByteBits

LEMMA PaddingFacts ==
  ASSUME NEW len \in Nat
  PROVE  /\ SymbolsOf(len) \in Nat /\ PaddingOf(len) \in 0 .. SymbolBits - 1
         /\ SymbolsOf(len) * SymbolBits = len * ByteBits + PaddingOf(len)
         /\ (SymbolsOf(len) * SymbolBits) % ByteBits = PaddingOf(len)
         /\ (SymbolsOf(len) * SymbolBits) \div ByteBits = len
<1> DEFINE s == SymbolBits
           b == ByteBits
           x == len * b
           m == x + s - 1
           n == m \div s
           r == m % s
           p == n * s - x
           t == n * s
<1>1. s \in Nat \ {0} /\ b \in Nat \ {0} /\ s <= b
  BY Widths
<1> HIDE DEF s, b
<1>2. x \in Nat
  BY <1>1
<1> HIDE DEF x
<1>3. m \in Nat
  BY <1>1, <1>2
<1> HIDE DEF m
<1>4. n \in Nat /\ r \in 0 .. s - 1 /\ m = n * s + r
  <2>1. m \in Int
    BY <1>3
  <2> QED BY <1>1, <1>3, <2>1, DivFacts
<1> HIDE DEF n, r
<1>5. t \in Nat
  BY <1>1, <1>4
<1>6. p = t - x
  OBVIOUS
<1>7. t = m - r
  BY <1>1, <1>3, <1>4, <1>5
<1> HIDE DEF t, p
<1>8. p \in 0 .. s - 1 /\ t = x + p
  BY <1>1, <1>2, <1>4, <1>5, <1>6, <1>7 DEF m
<1>9. t % b = p /\ t \div b = len
  <2>1. t \in Int /\ len \in Int /\ p \in 0 .. b - 1 /\ t = len * b + p
    BY <1>1, <1>5, <1>8 DEF x
  <2> QED BY <1>1, <2>1, DivIs
<1>10. SymbolsOf(len) = n
  BY DEF SymbolsOf, CeilDiv, n, m, x, s, b
<1>11. PaddingOf(len) = p
  BY <1>10 DEF PaddingOf, p, x, s, b
<1> QED BY <1>1, <1>4, <1>8, <1>9, <1>10, <1>11 DEF t, x, s, b

\* What the symbols of some bytes write: the number of the bytes, and zeros.
Padded(bytes) == Number(bytes, ByteBase) * Power(2, PaddingOf(Len(bytes)))
SymbolsFor(bytes) == Digits(Padded(bytes), Base, SymbolsOf(Len(bytes)))

LEMMA BytesNumber ==
  ASSUME NEW bytes \in Seq(Bytes)
  PROVE  /\ Number(bytes, ByteBase) \in Nat
         /\ Number(bytes, ByteBase) < Power(ByteBase, Len(bytes))
         /\ Digits(Number(bytes, ByteBase), ByteBase, Len(bytes)) = bytes
         /\ Len(bytes) \in Nat
<1>1. ByteBase \in Nat \ {0} /\ bytes \in Seq(0 .. ByteBase - 1)
  BY Widths
<1> QED BY <1>1, NumberBound, DigitsOfNumber

LEMMA EncodeFacts ==
  ASSUME NEW bytes \in Seq(Bytes)
  PROVE  /\ Encode(bytes) = Written(SymbolsFor(bytes))
         /\ SymbolsFor(bytes) \in Seq(Figures)
         /\ Len(SymbolsFor(bytes)) = SymbolsOf(Len(bytes))
         /\ Number(SymbolsFor(bytes), Base) = Padded(bytes)
         /\ Padded(bytes) \in Nat
<1> DEFINE len == Len(bytes)
           n == SymbolsOf(len)
           p == PaddingOf(len)
           x == Number(bytes, ByteBase)
           y == Power(2, p)
           z == Power(ByteBase, len)
<1>1. len \in Nat /\ x \in Nat /\ x < z
  BY BytesNumber
<1> HIDE DEF len, x
<1>2. n \in Nat /\ p \in Nat /\ n * SymbolBits = len * ByteBits + p
  <2>1. SymbolBits \in Nat
    BY Widths
  <2> QED BY <1>1, <2>1, PaddingFacts
<1>3. /\ SymbolBits \in Nat /\ ByteBits \in Nat /\ Base \in Nat \ {0} /\ ByteBase \in Nat \ {0}
      /\ 2 \in Nat \ {0}
  BY Widths
<1> HIDE DEF n, p
<1>4. z = Power(2, ByteBits * len) /\ Power(Base, n) = Power(2, SymbolBits * n)
  BY <1>1, <1>2, <1>3, PowerPower DEF Base, ByteBase
<1>5. Power(2, SymbolBits * n) = z * y
  <2>1. SymbolBits * n = ByteBits * len + p /\ ByteBits * len \in Nat
    BY <1>1, <1>2, <1>3
  <2> QED BY <1>2, <1>3, <1>4, <2>1, PowerAdd
<1>6. y \in Nat \ {0} /\ z \in Nat \ {0}
  BY <1>1, <1>2, <1>3, PowerFacts
<1> HIDE DEF y, z
<1>7. x * y \in Nat /\ x * y < z * y
  <2>1. x \in Int /\ z \in Int /\ y \in Nat
    BY <1>1, <1>6
  <2>2. x * y + y <= z * y /\ x * y \in Nat /\ z * y \in Nat
    BY <1>1, <1>6, <2>1, Multiples, Products
  <2> QED BY <1>6, <2>2
<1>8. Padded(bytes) = x * y
  BY DEF Padded, x, y, p, len
<1>9. SymbolsFor(bytes) = Digits(x * y, Base, n)
  BY <1>8 DEF SymbolsFor, n, len
<1>10. SymbolsFor(bytes) \in Seq(Figures) /\ Len(SymbolsFor(bytes)) = n
  BY <1>2, <1>3, <1>7, <1>9, DigitsFacts DEF Figures
<1>11. Number(SymbolsFor(bytes), Base) = x * y
  BY <1>2, <1>3, <1>4, <1>5, <1>7, <1>9, NumberOfDigits
<1>12. Encode(bytes) = Written(SymbolsFor(bytes))
  <2>1. /\ Padded(bytes)
           = Number(bytes, ByteBase) * Power(2, n * SymbolBits - Len(bytes) * ByteBits)
        /\ n = CeilDiv(Len(bytes) * ByteBits, SymbolBits)
    BY DEF Padded, PaddingOf, SymbolsOf, n, len
  <2>2. SymbolsFor(bytes) = Digits(Padded(bytes), Base, n)
    BY DEF SymbolsFor, n, len
  <2> QED BY <1>10, <2>1, <2>2 DEF Encode, Written
<1> QED BY <1>7, <1>8, <1>10, <1>11, <1>12 DEF n, len

LEMMA DecodeSymbolsIs ==
  ASSUME NEW len \in Nat, NEW v, Len(v) = SymbolsOf(len)
  PROVE  DecodeSymbols(v) = Digits(Number(v, Base) \div Power(2, PaddingOf(len)), ByteBase, len)
<1>1. /\ (SymbolsOf(len) * SymbolBits) % ByteBits = PaddingOf(len)
      /\ (SymbolsOf(len) * SymbolBits) \div ByteBits = len
  BY PaddingFacts
<1> QED BY <1>1 DEF DecodeSymbols

LEMMA DecodeWritten ==
  ASSUME NEW v \in Seq(Figures) PROVE Decode(Written(v)) = Ok(DecodeSymbols(v))
BY NormalizedWritten, AnswerFacts DEF Decode

LEMMA BytesComeBack ==
  ASSUME NEW bytes \in Seq(Bytes) PROVE Decode(Encode(bytes)) = Ok(bytes)
<1> DEFINE len == Len(bytes)
           v == SymbolsFor(bytes)
           x == Number(bytes, ByteBase)
           y == Power(2, PaddingOf(len))
<1>1. /\ len \in Nat /\ x \in Nat /\ Digits(x, ByteBase, len) = bytes
  BY BytesNumber
<1>2. /\ Encode(bytes) = Written(v) /\ v \in Seq(Figures) /\ Len(v) = SymbolsOf(len)
      /\ Number(v, Base) = x * y
  BY EncodeFacts DEF Padded
<1>3. DecodeSymbols(v) = Digits(Number(v, Base) \div y, ByteBase, len)
  <2> HIDE DEF v, len
  <2> QED BY <1>1, <1>2, DecodeSymbolsIs
<1>4. y \in Nat \ {0}
  <2>1. PaddingOf(len) \in Nat /\ 2 \in Nat \ {0}
    <3> HIDE DEF len
    <3>1. PaddingOf(len) \in 0 .. SymbolBits - 1
      BY <1>1, PaddingFacts
    <3> QED BY <3>1, Widths
  <2> QED BY <2>1, PowerFacts
<1> HIDE DEF x, y, v
<1>5. (x * y) \div y = x
  <2>1. x \in Int /\ 0 \in 0 .. y - 1 /\ x * y \in Int /\ x * y = x * y + 0
    BY <1>1, <1>4
  <2> DEFINE z == x * y
  <2> HIDE DEF z
  <2>2. z \in Int /\ z = x * y + 0
    BY <2>1 DEF z
  <2>3. z \div y = x
    BY <1>4, <2>1, <2>2, DivIs
  <2> QED BY <2>3 DEF z
<1>6. DecodeSymbols(v) = bytes
  BY <1>1, <1>2, <1>3, <1>5
<1>7. Decode(Written(v)) = Ok(DecodeSymbols(v))
  BY <1>2, DecodeWritten
<1> QED BY <1>2, <1>6, <1>7

-----------------------------------------------------------------------------
(* What one figure changes, and what the check makes of it                 *)

LEMMA NumberChange ==
  ASSUME NEW b \in Nat \ {0}, NEW d \in Nat
  PROVE  \A s \in Seq(Nat) : \A k \in 1 .. Len(s) :
           Number([s EXCEPT ![k] = d], b) + s[k] * Power(b, Len(s) - k)
             = Number(s, b) + d * Power(b, Len(s) - k)
<1> DEFINE Changed(s, k) == [s EXCEPT ![k] = d]
           G == {s \in Seq(Nat) : \A k \in 1 .. Len(s) :
                   Number(Changed(s, k), b) + s[k] * Power(b, Len(s) - k)
                     = Number(s, b) + d * Power(b, Len(s) - k)}
<1>1. <<>> \in G
  OBVIOUS
<1>2. ASSUME NEW s \in Seq(Nat), NEW e \in Nat, s \in G PROVE Add(s, e) \in G
  <2> DEFINE a == Add(s, e)
             n == Len(s)
  <2>1. /\ a \in Seq(Nat) /\ Len(a) = n + 1 /\ n \in Nat /\ a[n + 1] = e
        /\ \A j \in 1 .. n : a[j] = s[j]
    BY DEF Add
  <2>2. Number(a, b) = Number(s, b) * b + e /\ Number(s, b) \in Nat
    BY NumberFacts
  <2> SUFFICES ASSUME NEW k \in 1 .. n + 1
               PROVE  Number(Changed(a, k), b) + a[k] * Power(b, (n + 1) - k)
                        = Number(a, b) + d * Power(b, (n + 1) - k)
    BY <2>1
  <2>3. CASE k = n + 1
    <3>1. Changed(a, k) = Add(s, d)
      <4> DEFINE x == Changed(a, k)
                 y == Add(s, d)
      <4>1. x \in Seq(Nat) /\ Len(x) = n + 1 /\ y \in Seq(Nat) /\ Len(y) = n + 1
        BY <2>1 DEF Add
      <4>2. ASSUME NEW j \in 1 .. n + 1 PROVE x[j] = y[j]
        <5>1. CASE j = k
          BY <2>1, <2>3, <5>1 DEF Add
        <5>2. CASE j # k
          <6>1. j \in 1 .. n /\ y[j] = s[j]
            BY <2>1, <2>3, <5>2 DEF Add
          <6>2. x[j] = a[j]
            BY <2>1, <5>2
          <6> QED BY <2>1, <6>1, <6>2
        <5> QED BY <5>1, <5>2
      <4> HIDE DEF x, y
      <4>3. x = y
        BY <4>1, <4>2
      <4> QED BY <4>3 DEF x, y
    <3>2. Number(Add(s, d), b) = Number(s, b) * b + d
      BY NumberFacts
    <3>3. Power(b, (n + 1) - k) = 1
      <4>1. (n + 1) - k = 0
        BY <2>1, <2>3
      <4> QED BY <4>1, PowerFacts
    <3>4. a[k] = e /\ Number(s, b) * b \in Nat
      BY <2>1, <2>2, <2>3
    <3>5. e * 1 = e /\ d * 1 = d
      OBVIOUS
    <3> DEFINE z == Number(s, b) * b
               c == a[k]
    <3>6. z \in Nat /\ c = e /\ (z + d) + e = (z + e) + d
      BY <3>4
    <3> HIDE DEF a, Changed, c, z
    <3>7. Number(Changed(a, k), b) = z + d /\ Number(a, b) = z + e
      BY <2>2, <3>1, <3>2 DEF z
    <3> QED BY <3>3, <3>5, <3>6, <3>7 DEF c
  <2>4. CASE k \in 1 .. n
    <3> DEFINE t == Changed(s, k)
               p == Power(b, n - k)
               x == Number(t, b)
               y == Number(s, b)
    <3>1. t \in Seq(Nat) /\ Len(t) = n /\ a[k] = s[k] /\ s[k] \in Nat
      BY <2>1, <2>4
    <3>2. Changed(a, k) = Add(t, e)
      <4> DEFINE u == Changed(a, k)
                 w == Add(t, e)
      <4>1. u \in Seq(Nat) /\ Len(u) = n + 1 /\ w \in Seq(Nat) /\ Len(w) = n + 1
        BY <2>1, <3>1 DEF Add
      <4>2. ASSUME NEW j \in 1 .. n + 1 PROVE u[j] = w[j]
        <5>1. CASE j = k
          <6>1. u[j] = d /\ t[j] = d
            BY <2>1, <2>4, <5>1
          <6>2. w[j] = t[j]
            BY <2>4, <3>1, <5>1 DEF Add
          <6> QED BY <6>1, <6>2
        <5>2. CASE j # k /\ j \in 1 .. n
          <6>1. u[j] = a[j] /\ t[j] = s[j]
            BY <2>1, <5>2
          <6>2. w[j] = t[j]
            BY <3>1, <5>2 DEF Add
          <6> QED BY <2>1, <5>2, <6>1, <6>2
        <5>3. CASE j = n + 1
          <6>1. u[j] = e
            BY <2>1, <2>4, <5>3
          <6>2. w[j] = e
            BY <3>1, <5>3 DEF Add
          <6> QED BY <6>1, <6>2
        <5> QED BY <2>1, <5>1, <5>2, <5>3
      <4> HIDE DEF u, w
      <4>3. u = w
        BY <4>1, <4>2
      <4> QED BY <4>3 DEF u, w
    <3>3. Number(Add(t, e), b) = x * b + e /\ x \in Nat /\ y \in Nat
      <4> HIDE DEF t
      <4> QED BY <3>1, NumberFacts
    <3>4. p \in Nat /\ Power(b, (n + 1) - k) = p * b
      <4>1. n - k \in Nat /\ (n + 1) - k = (n - k) + 1
        BY <2>1, <2>4
      <4> QED BY <4>1, PowerFacts
    <3>5. x + s[k] * p = y + d * p
      BY <1>2, <2>4
    <3> DEFINE c == s[k]
    <3>6. c \in Nat
      BY <3>1
    <3> HIDE DEF x, y, p, t, c
    <3>7. x * b + c * (p * b) = y * b + d * (p * b)
      <4>1. (x + c * p) * b = (y + d * p) * b
        BY <3>5 DEF c
      <4>2. c * p \in Nat /\ d * p \in Nat
        BY <3>4, <3>6
      <4>3. (x + c * p) * b = x * b + (c * p) * b /\ (y + d * p) * b = y * b + (d * p) * b
        BY <3>3, <4>2
      <4>4. (c * p) * b = c * (p * b) /\ (d * p) * b = d * (p * b)
        BY <3>4, <3>6
      <4> QED BY <4>1, <4>3, <4>4
    <3>8. /\ x * b \in Nat /\ y * b \in Nat /\ p * b \in Nat
          /\ c * (p * b) \in Nat /\ d * (p * b) \in Nat
      <4>1. x * b \in Nat /\ y * b \in Nat /\ p * b \in Nat
        BY <3>3, <3>4
      <4> DEFINE q == p * b
      <4>2. q \in Nat
        BY <4>1
      <4> HIDE DEF q
      <4>3. c * q \in Nat /\ d * q \in Nat
        BY <3>6, <4>2
      <4> QED BY <4>1, <4>3 DEF q
    <3>9. (x * b + e) + c * (p * b) = (y * b + e) + d * (p * b)
      <4> DEFINE i == x * b
                 j == y * b
                 u == c * (p * b)
                 w == d * (p * b)
      <4>1. i + u = j + w /\ i \in Nat /\ j \in Nat /\ u \in Nat /\ w \in Nat
        BY <3>7, <3>8
      <4> HIDE DEF i, j, u, w
      <4>2. (i + e) + u = (j + e) + w
        BY <4>1
      <4> QED BY <4>2 DEF i, j, u, w
    <3>10. Number(a, b) = y * b + e
      BY <2>2 DEF y
    <3>11. Number(Changed(a, k), b) = x * b + e
      BY <3>2, <3>3
    <3>12. a[k] = c
      BY <3>1 DEF c
    <3> HIDE DEF a, Changed
    <3> QED BY <3>4, <3>9, <3>10, <3>11, <3>12
  <2> QED BY <2>1, <2>3, <2>4
<1> HIDE DEF G
<1>3. \A s \in Seq(Nat) : s \in G
  BY <1>1, <1>2, SeqFromAdd
<1> QED BY <1>3 DEF G

\* An odd number that divides g * 2^m divides g.
LEMMA OddDivides ==
  ASSUME NEW c \in Nat \ {0}, c % 2 = 1
  PROVE  \A m \in Nat : \A g \in Int : (\E q \in Int : g * Power(2, m) = q * c)
                                          => \E q \in Int : g = q * c
<1> DEFINE Tells(m) == \A g \in Int : (\E q \in Int : g * Power(2, m) = q * c)
                                        => \E q \in Int : g = q * c
           G == {m \in Nat : Tells(m)}
<1>1. 2 \in Nat \ {0}
  OBVIOUS
<1>2. 0 \in G
  <2>1. Power(2, 0) = 1
    BY <1>1, PowerFacts
  <2>2. \A g \in Int : g * 1 = g
    OBVIOUS
  <2> QED BY <2>1, <2>2
<1>3. ASSUME NEW g \in Int, NEW q \in Int, 2 * g = q * c PROVE \E i \in Int : g = i * c
  <2> DEFINE h == c \div 2
             j == g - q * h
  <2>1. h \in Int /\ c = 2 * h + 1
    OBVIOUS
  <2> HIDE DEF h
  <2>2. q * h \in Int /\ q * c = 2 * (q * h) + q
    BY <2>1
  <2>3. q = 2 * j /\ j \in Int
    <3> DEFINE z == q * h
    <3>1. z \in Int /\ 2 * g = 2 * z + q /\ j = g - z
      BY <1>3, <2>2
    <3> HIDE DEF z, j
    <3> QED BY <3>1
  <2> HIDE DEF j
  <2>4. 2 * g = 2 * (j * c) /\ j * c \in Int
    <3>1. (2 * j) * c = 2 * (j * c) /\ j * c \in Int
      BY <2>3
    <3> QED BY <1>3, <2>3, <3>1
  <2>5. g = j * c
    BY <2>4
  <2> QED BY <2>3, <2>5
<1>4. ASSUME NEW m \in Nat, m \in G PROVE m + 1 \in G
  <2> SUFFICES Tells(m + 1)
    OBVIOUS
  <2> SUFFICES ASSUME NEW g \in Int, \E q \in Int : g * Power(2, m + 1) = q * c
               PROVE  \E i \in Int : g = i * c
    OBVIOUS
  <2> PICK q \in Int : g * Power(2, m + 1) = q * c
    OBVIOUS
  <2> DEFINE p == Power(2, m)
             f == 2 * g
  <2>1. p \in Nat /\ Power(2, m + 1) = p * 2
    BY <1>1, PowerFacts
  <2>2. f \in Int
    OBVIOUS
  <2>3. f * p = g * (p * 2)
    <3> HIDE DEF p
    <3> QED BY <2>1
  <2>4. f * p = q * c
    BY <2>1, <2>3
  <2> HIDE DEF f
  <2>5. PICK i \in Int : f = i * c
    BY <1>4, <2>2, <2>4
  <2> QED BY <1>3, <2>5 DEF f
<1> HIDE DEF G
<1>5. \A m \in Nat : m \in G
  BY <1>2, <1>4, NatFromSet
<1> QED BY <1>5 DEF G

\* Two numbers a small multiple of a power of 2 apart have different checks.
LEMMA CheckTells ==
  ASSUME NEW x \in Nat, NEW y \in Nat, NEW g \in Int, NEW m \in Nat,
         y = x + g * Power(2, m), - Base < g, g < Base, y % CheckBase = x % CheckBase
  PROVE  y = x
<1> DEFINE c == CheckBase
           b == Base
           p == Power(2, m)
           i == x \div c
           j == y \div c
           r == x % c
<1>1. c \in Nat \ {0} /\ b \in Nat /\ b <= c /\ c % 2 = 1
  BY Widths, CodecAssumption DEF CodecAssumption
<1>2. p \in Nat
  <2>1. 2 \in Nat \ {0}
    OBVIOUS
  <2> QED BY <2>1, PowerFacts
<1> HIDE DEF c, b, p
<1>3. i \in Int /\ r \in 0 .. c - 1 /\ x = i * c + r /\ j \in Int /\ y = j * c + (y % c)
  <2>1. x \in Int /\ y \in Int
    OBVIOUS
  <2> QED BY <1>1, <2>1, DivFacts
<1>4. y = j * c + r
  BY <1>3 DEF c
<1> HIDE DEF i, j, r
<1>5. g * p = (j - i) * c
  <2>1. (j - i) * c = j * c - i * c /\ j * c \in Int /\ i * c \in Int
    BY <1>1, <1>3
  <2>2. g * p \in Int
    BY <1>2
  <2>3. y = x + g * p
    BY DEF p
  <2> QED BY <1>3, <1>4, <2>1, <2>2, <2>3
<1>6. PICK q \in Int : g = q * c
  <2>1. j - i \in Int
    BY <1>3
  <2> QED BY <1>1, <1>5, <2>1, OddDivides DEF p
<1>7. q = 0
  <2>1. CASE 0 < q
    <3>1. 0 * c + c <= q * c /\ 0 * c = 0
      BY <1>1, <2>1, Multiples
    <3> QED BY <1>1, <1>6, <3>1 DEF b
  <2>2. CASE q < 0
    <3>1. q * c + c <= 0 * c /\ 0 * c = 0
      BY <1>1, <2>2, Multiples
    <3> QED BY <1>1, <1>6, <3>1 DEF b
  <2> QED BY <2>1, <2>2
<1>8. g = 0
  BY <1>1, <1>6, <1>7
<1>9. g * p = 0
  BY <1>2, <1>8
<1> QED BY <1>9 DEF p

-----------------------------------------------------------------------------
(* A figure of some bytes that was mistyped                                *)

Mistyped(bytes, k, d) == [SymbolsFor(bytes) EXCEPT ![k] = d]
NumberRead(figures, len) == Number(figures, Base) \div Power(2, PaddingOf(len))
IsNear(y, x) == \E g \in Int, m \in Nat : y = x + g * Power(2, m) /\ - Base < g /\ g < Base

\* The number of the changed figures, without its padding, is near.
LEMMA MistypedNumber ==
  ASSUME NEW bytes \in Seq(Bytes), NEW k \in 1 .. Len(SymbolsFor(bytes)), NEW d \in Figures,
         NEW y, y = NumberRead(Mistyped(bytes, k, d), Len(bytes))
  PROVE  /\ y \in Nat /\ y < Power(ByteBase, Len(bytes))
         /\ IsNear(y, Number(bytes, ByteBase))
<1> DEFINE x == Number(bytes, ByteBase)
           v == SymbolsFor(bytes)
           w == [v EXCEPT ![k] = d]
           len == Len(bytes)
           n == SymbolsOf(len)
           b == Base
           p == PaddingOf(len)
           q == Power(2, p)
           s == SymbolBits
           f == d - v[k]
           r == Power(b, n - k)
           z == Number(w, b)
           top == Power(ByteBase, len)
<1>1. /\ v \in Seq(Figures) /\ Len(v) = n /\ Number(v, b) = x * q /\ x * q \in Nat
  BY EncodeFacts DEF Padded
<1>2. /\ len \in Nat /\ x \in Nat
  BY BytesNumber
<1>3. /\ b \in Nat \ {0} /\ s \in Nat \ {0} /\ ByteBits \in Nat /\ 2 \in Nat \ {0}
      /\ ByteBase \in Nat \ {0}
  BY Widths
<1>4. n \in Nat /\ p \in 0 .. s - 1 /\ p \in Nat /\ n * s = len * ByteBits + p
  <2> HIDE DEF len
  <2>1. n \in Nat /\ p \in 0 .. s - 1 /\ n * s = len * ByteBits + p
    BY <1>2, PaddingFacts
  <2> HIDE DEF n, p, s
  <2> QED BY <1>3, <2>1
<1> HIDE DEF v, len, x
<1>5. y = z \div q
  BY DEF v, len, NumberRead, Mistyped
<1> HIDE DEF n, p, s, b
<1>6. /\ w \in Seq(Figures) /\ Len(w) = n /\ k \in 1 .. n
      /\ d \in Nat /\ v[k] \in Nat /\ d < b /\ v[k] < b
  BY <1>1, <1>3 DEF Figures, b, v
<1>7. q \in Nat \ {0} /\ r \in Nat \ {0} /\ top \in Nat \ {0}
  <2>1. n - k \in Nat
    BY <1>4, <1>6
  <2> QED BY <1>2, <1>3, <1>4, <2>1, PowerFacts
<1>8. z \in Nat /\ z < Power(b, n)
  <2>1. w \in Seq(0 .. b - 1)
    BY <1>6 DEF Figures, b
  <2> HIDE DEF w
  <2> QED BY <1>3, <1>6, <2>1, NumberBound
<1>9. z = x * q + f * r
  <2>1. v \in Seq(Nat)
    <3>1. \A i \in 1 .. Len(v) : v[i] \in Nat
      BY <1>1, <1>3 DEF Figures, b
    <3> QED BY <1>1, <3>1
  <2>2. z + v[k] * r = Number(v, b) + d * r
    <3>1. \A t \in Seq(Nat) : \A i \in 1 .. Len(t) :
            Number([t EXCEPT ![i] = d], b) + t[i] * Power(b, Len(t) - i)
              = Number(t, b) + d * Power(b, Len(t) - i)
      BY <1>3, <1>6, NumberChange
    <3>2. k \in 1 .. Len(v) /\ Len(v) - k = n - k
      BY <1>1, <1>6
    <3> QED BY <2>1, <3>1, <3>2
  <2> DEFINE a == x * q
             c == v[k]
  <2>3. a \in Nat /\ c \in Nat /\ z + c * r = a + d * r
    BY <1>1, <1>6, <2>2
  <2> HIDE DEF a, c, z, r
  <2>4. c * r \in Nat /\ d * r \in Nat /\ (d - c) * r = d * r - c * r
    BY <1>6, <1>7, <2>3
  <2>5. z = a + (d - c) * r
    BY <1>8, <2>3, <2>4
  <2> QED BY <2>5 DEF a, c
<1>10. f \in Int /\ - b < f /\ f < b
  BY <1>3, <1>6
<1>11. Power(b, n) = top * q
  <2>1. Power(b, n) = Power(2, s * n) /\ top = Power(2, ByteBits * len)
    <3>1. b = Power(2, s) /\ ByteBase = Power(2, ByteBits)
      BY DEF b, s, Base, ByteBase
    <3>2. Power(Power(2, s), n) = Power(2, s * n)
      BY <1>3, <1>4, PowerPower
    <3>3. Power(Power(2, ByteBits), len) = Power(2, ByteBits * len)
      BY <1>2, <1>3, PowerPower
    <3> QED BY <3>1, <3>2, <3>3
  <2>2. s * n = ByteBits * len + p /\ ByteBits * len \in Nat
    BY <1>2, <1>3, <1>4
  <2> QED BY <1>3, <1>4, <2>1, <2>2, PowerAdd
<1> HIDE DEF z, r, f, w, q, top
<1>12. y \in Nat /\ y < top
  <2> DEFINE e == z % q
  <2>1. y \in Nat /\ e \in Nat /\ z = y * q + e
    <3>1. z \in Int
      BY <1>8
    <3>2. z \div q \in Nat /\ e \in 0 .. q - 1 /\ z = (z \div q) * q + e
      BY <1>7, <1>8, <3>1, DivFacts
    <3> QED BY <1>5, <1>7, <3>2
  <2> HIDE DEF e
  <2>2. CASE top <= y
    <3>1. top * q <= y * q /\ top * q \in Nat /\ y * q \in Nat
      BY <1>7, <2>1, <2>2, Products
    <3> QED BY <1>8, <1>11, <2>1, <3>1
  <2> QED BY <1>7, <2>1, <2>2
<1>13. \E g \in Int, m \in Nat : y = x + g * Power(2, m) /\ - b < g /\ g < b
  <2>1. CASE k < n
    <3> DEFINE h == s * (n - k)
               m == h - p
               u == Power(2, m)
    <3>1. n - k \in Nat /\ n - k >= 1
      BY <1>4, <1>6, <2>1
    <3>2. h \in Nat /\ h >= s
      <4>1. 1 * s <= (n - k) * s /\ (n - k) * s = s * (n - k) /\ s * (n - k) \in Nat /\ 1 * s = s
        <5> DEFINE i == n - k
        <5>1. i \in Nat /\ 1 <= i
          BY <3>1
        <5> HIDE DEF i
        <5>2. 1 * s <= i * s /\ i * s = s * i /\ s * i \in Nat /\ 1 * s = s
          BY <1>3, <5>1, Products
        <5> QED BY <5>2 DEF i
      <4> QED BY <4>1
    <3>3. r = Power(2, h)
      BY <1>3, <3>1, PowerPower DEF r, b, s, Base
    <3> HIDE DEF h
    <3>4. m \in Nat /\ p + m = h
      BY <1>3, <1>4, <3>2
    <3> HIDE DEF m
    <3>5. r = q * u /\ u \in Nat
      <4>1. Power(2, p + m) = Power(2, p) * Power(2, m)
        BY <1>3, <1>4, <3>4, PowerAdd
      <4>2. u \in Nat
        BY <1>3, <3>4, PowerFacts
      <4> QED BY <3>3, <3>4, <4>1, <4>2 DEF q
    <3> HIDE DEF u
    <3>6. z = (x + f * u) * q + 0
      <4>1. f * r = (f * u) * q /\ f * u \in Int
        BY <1>7, <1>10, <3>5
      <4> DEFINE i == f * u
      <4>2. i \in Int
        BY <4>1
      <4> HIDE DEF i
      <4>3. (x + i) * q = x * q + i * q
        BY <1>2, <1>7, <4>2
      <4> QED BY <1>9, <4>1, <4>3 DEF i
    <3>7. x + f * u \in Int
      <4>1. f * u \in Int
        BY <1>10, <3>5
      <4> QED BY <1>2, <4>1
    <3>8. y = x + f * u
      <4> DEFINE i == x + f * u
      <4>1. i \in Int /\ z = i * q + 0 /\ z \in Int /\ 0 \in 0 .. q - 1
        BY <1>7, <1>8, <3>6, <3>7
      <4> HIDE DEF i
      <4>2. z \div q = i
        BY <1>7, <4>1, DivIs
      <4> QED BY <1>5, <4>2 DEF i
    <3> QED BY <1>10, <3>4, <3>8 DEF u
  <2>2. CASE k = n
    <3> DEFINE g == f \div q
               e == f % q
    <3>1. g \in Int /\ e \in 0 .. q - 1 /\ f = g * q + e
      BY <1>7, <1>10, DivFacts
    <3> HIDE DEF g, e
    <3>2. r = 1
      <4>1. n - k = 0
        BY <1>4, <2>2
      <4> QED BY <1>3, <4>1, PowerFacts DEF r
    <3>3. z = (x + g) * q + e
      <4>1. (x + g) * q = x * q + g * q /\ x * q \in Int /\ g * q \in Int
        BY <1>2, <1>7, <3>1
      <4>2. f * r = f
        BY <1>10, <3>2
      <4>3. z = x * q + f
        BY <1>9, <4>2
      <4> DEFINE i == x * q
                 j == g * q
      <4>4. i \in Int /\ j \in Int /\ (x + g) * q = i + j /\ z = i + f /\ f = j + e /\ e \in Int
        BY <1>7, <3>1, <4>1, <4>3
      <4> HIDE DEF i, j
      <4>5. z = (i + j) + e
        BY <4>4
      <4> QED BY <4>4, <4>5
    <3>4. y = x + g
      <4> DEFINE i == x + g
      <4>1. i \in Int /\ z \in Int /\ z = i * q + e
        BY <1>2, <1>8, <3>1, <3>3
      <4> HIDE DEF i
      <4>2. z \div q = i
        BY <1>7, <3>1, <4>1, DivIs
      <4> QED BY <1>5, <4>2 DEF i
    <3>5. - b < g /\ g < b
      <4>1. CASE b <= g
        <5>1. 1 <= q /\ q \in Nat /\ g \in Nat
          BY <1>3, <1>7, <3>1, <4>1
        <5>2. 1 * g <= q * g /\ 1 * g = g /\ q * g = g * q /\ g * q \in Nat
          BY <5>1, Products
        <5> QED BY <1>3, <1>10, <3>1, <4>1, <5>1, <5>2
      <4>2. CASE g <= - b
        <5> DEFINE i == - g - 1
        <5>1. 1 <= q /\ q \in Nat /\ i \in Nat /\ i >= b - 1
          BY <1>3, <1>7, <3>1, <4>2
        <5>2. 1 * i <= q * i /\ 1 * i = i /\ q * i = i * q /\ i * q \in Nat
          <6> HIDE DEF i
          <6> QED BY <5>1, Products
        <5>3. g * q = - (i * q) - q
          <6> HIDE DEF i
          <6>1. g = - i - 1
            BY <3>1 DEF i
          <6> QED BY <5>1, <6>1
        <5> HIDE DEF i
        <5> QED BY <1>3, <1>10, <3>1, <5>1, <5>2, <5>3
      <4> QED BY <1>3, <3>1, <4>1, <4>2
    <3>6. g * Power(2, 0) = g
      <4>1. Power(2, 0) = 1
        BY <1>3, PowerFacts
      <4> QED BY <3>1, <4>1
    <3>7. 0 \in Nat /\ y = x + g * Power(2, 0)
      BY <3>4, <3>6
    <3> QED BY <3>1, <3>5, <3>7
  <2>3. k < n \/ k = n
    BY <1>4, <1>6
  <2> QED BY <2>1, <2>2, <2>3
<1> QED BY <1>12, <1>13 DEF top, len, b, x, IsNear

\* It is seen by the check, if it changes the bytes.
LEMMA MistypedIsSeen ==
  ASSUME NEW bytes \in Seq(Bytes), NEW k \in 1 .. Len(SymbolsFor(bytes)), NEW d \in Figures,
         NEW read, read = DecodeSymbols(Mistyped(bytes, k, d)),
         Checksum(read) = Checksum(bytes)
  PROVE  read = bytes
<1> DEFINE v == SymbolsFor(bytes)
           w == Mistyped(bytes, k, d)
           len == Len(bytes)
           x == Number(bytes, ByteBase)
           y == NumberRead(w, len)
           c == ByteBase
<1>1. /\ len \in Nat /\ x \in Nat /\ Digits(x, c, len) = bytes /\ c \in Nat \ {0}
  BY BytesNumber, Widths
<1>2. y \in Nat /\ y < Power(c, len) /\ IsNear(y, x)
  BY MistypedNumber
<1>3. Len(w) = SymbolsOf(len)
  BY EncodeFacts DEF Mistyped
<1>4. read = Digits(y, c, len)
  <2> HIDE DEF w, len
  <2>1. DecodeSymbols(w) = Digits(Number(w, Base) \div Power(2, PaddingOf(len)), ByteBase, len)
    BY <1>1, <1>3, DecodeSymbolsIs
  <2> QED BY <2>1 DEF w, NumberRead
<1>5. bytes \in Seq(Nat)
  <2>1. \A i \in 1 .. Len(bytes) : bytes[i] \in Nat
    BY Widths
  <2> QED BY <2>1
<1> HIDE DEF y, x, len, c
<1>6. read \in Seq(Nat) /\ Number(read, c) = y
  <2>1. read \in Seq(0 .. c - 1)
    BY <1>1, <1>2, <1>4, DigitsFacts
  <2>2. Seq(0 .. c - 1) \subseteq Seq(Nat)
    BY <1>1
  <2> QED BY <1>1, <1>2, <1>4, <2>1, <2>2, NumberOfDigits
<1>7. Checksum(read) = y % CheckBase /\ Checksum(bytes) = x % CheckBase
  BY <1>5, <1>6, ChecksumFacts DEF c, x
<1>8. y = x
  <2>1. PICK g \in Int, m \in Nat : y = x + g * Power(2, m) /\ - Base < g /\ g < Base
    BY <1>2 DEF IsNear
  <2>2. y % CheckBase = x % CheckBase
    BY <1>7
  <2> QED BY <1>1, <1>2, <2>1, <2>2, CheckTells
<1> QED BY <1>1, <1>4, <1>8

-----------------------------------------------------------------------------
(* The check symbol, and the workflow ids                                  *)

Refused == [error |-> "CheckMismatch"]

\* What DecodeWithCheck says of a text and its check symbol.
LEMMA DecodeWithCheckIs ==
  ASSUME NEW T, NEW s \in Seq(T), NEW c \in Checkable
  PROVE  DecodeWithCheck(Add(s, c)) =
           IF ~IsOk(Decode(s)) THEN Invalid
           ELSE IF Checksum(Decode(s).ok) = SymbolValue(c) THEN Decode(s) ELSE Refused
<1> DEFINE U == T \union {c}
           a == Add(s, c)
<1>1. s \in Seq(U) /\ a \in Seq(U) /\ Len(a) = Len(s) + 1 /\ a[Len(s) + 1] = c
  BY DEF Add
<1>2. a # <<>> /\ Last(a) = c
  BY <1>1 DEF Last
<1>3. Front(a) = s
  <2> DEFINE f == SubSeq(a, 1, Len(a) - 1)
  <2>1. Len(a) - 1 = Len(s) /\ Len(s) \in Nat
    BY <1>1
  <2>2. f \in Seq(U) /\ Len(f) = Len(s) /\ \A i \in 1 .. Len(s) : f[i] = a[i]
    BY <1>1, <2>1
  <2>3. \A i \in 1 .. Len(s) : a[i] = s[i]
    BY DEF Add
  <2> HIDE DEF f, a
  <2>4. f = s
    BY <1>1, <2>2, <2>3
  <2> QED BY <2>4 DEF Front, f
<1> HIDE DEF a
<1>4. DecodeWithCheck(a) =
        IF ~IsOk(Decode(s)) THEN Invalid
        ELSE IF Checksum(Decode(s).ok) = SymbolValue(c) THEN Decode(s) ELSE Refused
  BY <1>2, <1>3 DEF DecodeWithCheck, Checkable, Refused
<1> QED BY <1>4 DEF a

LEMMA CheckedBytes ==
  ASSUME NEW bytes \in Seq(Bytes)
  PROVE  /\ EncodeWithCheck(bytes) = Add(Encode(bytes), CheckAlphabet[Checksum(bytes) + 1])
         /\ CheckAlphabet[Checksum(bytes) + 1] \in Checkable
         /\ SymbolValue(CheckAlphabet[Checksum(bytes) + 1]) = Checksum(bytes)
         /\ Encode(bytes) \in Seq(Checkable)
<1> DEFINE x == Checksum(bytes)
           n == Number(bytes, ByteBase)
           b == CheckBase
<1>1. bytes \in Seq(Nat)
  <2>1. \A i \in 1 .. Len(bytes) : bytes[i] \in Nat
    BY Widths
  <2> QED BY <2>1
<1>2. x = n % b /\ n \in Nat /\ b \in Nat \ {0}
  BY <1>1, BytesNumber, ChecksumFacts, Widths
<1> HIDE DEF x, n
<1>3. x \in 0 .. b - 1
  <2>1. n \in Int
    BY <1>2
  <2> HIDE DEF b
  <2> QED BY <1>2, <2>1, DivFacts
<1>4. x + 1 \in 1 .. b /\ (x + 1) - 1 = x
  BY <1>2, <1>3
<1>5. CheckAlphabet[x + 1] \in Checkable
  BY <1>4, AlphabetFacts
<1>6. SymbolValue(CheckAlphabet[x + 1]) = (x + 1) - 1
  BY <1>4, SymbolValueIs
<1>7. Encode(bytes) \in Seq(Checkable)
  BY EncodeFacts, WrittenFacts
<1> QED BY <1>4, <1>5, <1>6, <1>7 DEF x, EncodeWithCheck, Add

LEMMA CheckedComeBack ==
  ASSUME NEW bytes \in Seq(Bytes) PROVE DecodeWithCheck(EncodeWithCheck(bytes)) = Ok(bytes)
<1> DEFINE e == Encode(bytes)
           c == CheckAlphabet[Checksum(bytes) + 1]
<1>1. /\ EncodeWithCheck(bytes) = Add(e, c) /\ c \in Checkable /\ e \in Seq(Checkable)
      /\ SymbolValue(c) = Checksum(bytes)
  BY CheckedBytes
<1>2. Decode(e) = Ok(bytes)
  BY BytesComeBack
<1>3. IsOk(Decode(e)) /\ Decode(e).ok = bytes
  BY <1>2, AnswerFacts
<1> HIDE DEF e, c
<1> QED BY <1>1, <1>2, <1>3, DecodeWithCheckIs

\* One symbol of a text with a check symbol was mistyped.
LEMMA OneMistyped ==
  ASSUME NEW bytes \in Seq(Bytes), NEW k \in 1 .. Len(EncodeWithCheck(bytes)),
         NEW c \in Checkable, NEW answer,
         answer = DecodeWithCheck([EncodeWithCheck(bytes) EXCEPT ![k] = c]), IsOk(answer)
  PROVE  answer = Ok(bytes)
<1> DEFINE e == Encode(bytes)
           last == CheckAlphabet[Checksum(bytes) + 1]
           v == SymbolsFor(bytes)
           n == Len(e)
           t == [EncodeWithCheck(bytes) EXCEPT ![k] = c]
           f == [e EXCEPT ![k] = c]
<1>1. /\ EncodeWithCheck(bytes) = Add(e, last) /\ last \in Checkable /\ e \in Seq(Checkable)
      /\ SymbolValue(last) = Checksum(bytes)
  BY CheckedBytes
<1>2. Decode(e) = Ok(bytes) /\ IsOk(Decode(e))
  BY BytesComeBack, AnswerFacts
<1>3. e = Written(v) /\ v \in Seq(Figures) /\ Len(e) = Len(v)
  BY EncodeFacts, WrittenFacts
<1> HIDE DEF e, last, v
<1>4. n \in Nat /\ k \in 1 .. n + 1
  BY <1>1 DEF Add
<1> DEFINE a == Add(e, last)
<1>5. /\ a \in Seq(Checkable) /\ Len(a) = n + 1 /\ a[n + 1] = last
      /\ \A i \in 1 .. n : a[i] = e[i]
  BY <1>1 DEF Add
<1> HIDE DEF a
<1>6. /\ t \in Seq(Checkable) /\ Len(t) = n + 1 /\ t[k] = c
      /\ \A i \in 1 .. n + 1 : i # k => t[i] = a[i]
  <2>1. t = [a EXCEPT ![k] = c]
    BY <1>1 DEF a
  <2> HIDE DEF t
  <2> QED BY <1>4, <1>5, <2>1
<1>7. ~IsOk(Refused) /\ ~IsOk(Invalid)
  BY DEF IsOk, Refused, Invalid
<1>8. CASE k = n + 1
  <2>1. t = Add(e, c)
    <3> DEFINE u == Add(e, c)
    <3>1. /\ u \in Seq(Checkable) /\ Len(u) = n + 1 /\ u[n + 1] = c
          /\ \A i \in 1 .. n : u[i] = e[i]
      BY <1>1 DEF Add
    <3> HIDE DEF t, u
    <3>2. ASSUME NEW i \in 1 .. n + 1 PROVE t[i] = u[i]
      <4>1. CASE i = k
        BY <1>8, <1>6, <3>1, <4>1
      <4>2. CASE i # k
        <5>1. i \in 1 .. n
          BY <1>4, <1>8, <4>2
        <5> QED BY <1>5, <1>6, <3>1, <4>2, <5>1
      <4> QED BY <4>1, <4>2
    <3>3. t = u
      BY <1>6, <3>1, <3>2
    <3> QED BY <3>3 DEF u
  <2>2. answer = DecodeWithCheck(Add(e, c))
    BY <2>1
  <2>3. answer \in {Invalid, Decode(e), Refused}
    BY <1>1, <2>2, DecodeWithCheckIs
  <2> QED BY <1>2, <1>7, <2>3
<1>9. CASE k \in 1 .. n
  <2>1. f \in Seq(Checkable) /\ Len(f) = n /\ f[k] = c /\ k \in 1 .. Len(f)
    BY <1>1, <1>9
  <2>2. t = Add(f, last)
    <3> DEFINE u == Add(f, last)
    <3>1. /\ u \in Seq(Checkable) /\ Len(u) = n + 1 /\ u[n + 1] = last
          /\ \A i \in 1 .. n : u[i] = f[i]
      BY <1>1, <2>1 DEF Add
    <3>2. \A i \in 1 .. n : i # k => f[i] = e[i]
      BY <1>1
    <3> HIDE DEF t, u, f
    <3>3. ASSUME NEW i \in 1 .. n + 1 PROVE t[i] = u[i]
      <4>1. CASE i = k
        BY <1>9, <1>6, <2>1, <3>1, <4>1
      <4>2. CASE i # k /\ i \in 1 .. n
        BY <1>5, <1>6, <3>1, <3>2, <4>2
      <4>3. CASE i = n + 1
        BY <1>4, <1>9, <1>5, <1>6, <3>1, <4>3
      <4> QED BY <1>4, <4>1, <4>2, <4>3
    <3>4. t = u
      BY <1>6, <3>1, <3>3
    <3> QED BY <3>4 DEF u
  <2>3. answer = DecodeWithCheck(Add(f, last))
    BY <2>2
  <2> HIDE DEF f, t
  <2>4. answer = IF ~IsOk(Decode(f)) THEN Invalid
                 ELSE IF Checksum(Decode(f).ok) = SymbolValue(last) THEN Decode(f) ELSE Refused
    BY <1>1, <2>1, <2>3, DecodeWithCheckIs
  <2>5. IsOk(Decode(f)) /\ Checksum(Decode(f).ok) = Checksum(bytes) /\ answer = Decode(f)
    BY <1>1, <1>7, <2>4
  <2>6. CASE c \notin ToSet(Alphabet)
    <3>1. Normalized(f) = Invalid
      BY <2>1, <2>6, NormalizedRefuses
    <3>2. Decode(f) = Invalid
      BY <3>1, AnswerFacts DEF Decode
    <3> QED BY <1>7, <2>5, <3>2
  <2>7. CASE c \in ToSet(Alphabet)
    <3>1. PICK i \in 1 .. Base : c = Alphabet[i]
      BY <2>7, AlphabetFacts
    <3> DEFINE d == i - 1
               w == Mistyped(bytes, k, d)
               read == DecodeSymbols(w)
    <3>2. d \in Figures /\ d + 1 = i
      BY <3>1, Widths DEF Figures
    <3>3. w \in Seq(Figures) /\ Len(w) = n /\ \A j \in 1 .. n : w[j] = IF j = k THEN d ELSE v[j]
      BY <1>3, <1>9, <3>2 DEF Mistyped, v
    <3> HIDE DEF w
    <3>4. f = Written(w)
      <4>1. Written(w) \in Seq(Checkable) /\ Len(Written(w)) = n
        BY <3>3, WrittenFacts
      <4>2. ASSUME NEW j \in 1 .. n PROVE f[j] = Written(w)[j]
        <5>1. Written(w)[j] = Alphabet[w[j] + 1]
          BY <3>3, WrittenFacts
        <5>2. CASE j = k
          BY <2>1, <3>1, <3>2, <3>3, <5>1, <5>2
        <5>3. CASE j # k
          <6>1. f[j] = e[j]
            BY <1>1, <5>3 DEF f
          <6>2. e[j] = Alphabet[v[j] + 1]
            BY <1>3, WrittenFacts
          <6> QED BY <3>3, <5>1, <5>3, <6>1, <6>2
        <5> QED BY <5>2, <5>3
      <4> DEFINE u == Written(w)
      <4> HIDE DEF u
      <4>3. u \in Seq(Checkable) /\ Len(u) = n /\ \A j \in 1 .. n : f[j] = u[j]
        BY <4>1, <4>2 DEF u
      <4>4. f = u
        BY <2>1, <4>3
      <4> QED BY <4>4 DEF u
    <3>5. Decode(f) = Ok(read)
      BY <3>3, <3>4, DecodeWritten
    <3>6. Decode(f).ok = read
      BY <3>5, AnswerFacts
    <3>7. k \in 1 .. Len(SymbolsFor(bytes)) /\ Checksum(read) = Checksum(bytes)
      BY <1>3, <1>9, <2>5, <3>6 DEF v
    <3>8. read = bytes
      BY <3>2, <3>7, MistypedIsSeen DEF w
    <3> QED BY <2>5, <3>5, <3>8
  <2> QED BY <2>6, <2>7
<1> QED BY <1>4, <1>8, <1>9

\* The last hyphen of an id is the one before the encoded bytes.
LEMMA IdsComeBack ==
  ASSUME NEW bytes \in Seq(Bytes), bytes # <<>>, NEW T, NEW front \in Seq(T),
         IsOk(EncodeId(front, bytes))
  PROVE  DecodeId(EncodeId(front, bytes).ok) = Ok(<<front, bytes>>)
<1> DEFINE e == Encode(bytes)
           id == front \o <<"-">> \o e
           m == Len(front)
           n == Len(e)
           I == {i \in 1 .. Len(id) : id[i] = "-"}
           U == T \union Checkable \union {"-"}
<1>1. EncodeId(front, bytes).ok = id
  <2>1. EncodeId(front, bytes) = Ok(id) \/ ~IsOk(EncodeId(front, bytes))
    BY DEF EncodeId, IsOk
  <2> QED BY <2>1, AnswerFacts
<1>2. Decode(e) = Ok(bytes) /\ e \in Seq(Checkable) /\ "-" \notin Checkable
  BY BytesComeBack, CheckedBytes, AlphabetFacts
<1>3. e # <<>>
  <2>1. n = SymbolsOf(Len(bytes)) /\ Len(bytes) \in Nat /\ Len(bytes) >= 1
    BY EncodeFacts, WrittenFacts
  <2> DEFINE len == Len(bytes)
             p == PaddingOf(len)
  <2>2. SymbolsOf(len) * SymbolBits = len * ByteBits + p /\ p \in 0 .. SymbolBits - 1
    <3>1. len \in Nat
      BY <2>1
    <3> HIDE DEF len
    <3> QED BY <3>1, PaddingFacts
  <2> HIDE DEF len, p
  <2>3. 1 * ByteBits <= len * ByteBits /\ len * ByteBits \in Nat
    BY <2>1, Widths, Products DEF len
  <2>4. SymbolsOf(len) * SymbolBits # 0
    BY <2>2, <2>3, Widths
  <2>5. SymbolsOf(len) # 0
    BY <2>4, Widths
  <2> QED BY <2>1, <2>5 DEF len
<1> HIDE DEF e
<1>4. e \in Seq(U) /\ front \in Seq(U) /\ "-" \in U
  <2>1. \A i \in 1 .. n : e[i] \in U
    BY <1>2
  <2>2. \A i \in 1 .. m : front[i] \in U
    OBVIOUS
  <2>3. "-" \in U
    OBVIOUS
  <2> HIDE DEF U
  <2>4. e \in Seq(U)
    BY <1>2, <2>1
  <2>5. front \in Seq(U)
    BY <2>2
  <2> QED BY <2>3, <2>4, <2>5
<1> HIDE DEF U
<1>5. /\ id \in Seq(U) /\ Len(id) = m + 1 + n /\ m \in Nat /\ n \in Nat
      /\ \A i \in 1 .. m : id[i] = front[i]
      /\ id[m + 1] = "-"
      /\ \A i \in 1 .. n : id[m + 1 + i] = e[i]
  <2> DEFINE a == front \o <<"-">>
  <2>1. /\ a \in Seq(U) /\ Len(a) = m + 1 /\ a[m + 1] = "-"
        /\ \A i \in 1 .. m : a[i] = front[i]
    BY <1>4
  <2> HIDE DEF a
  <2>2. id = a \o e
    BY DEF a
  <2> HIDE DEF id
  <2>3. /\ id \in Seq(U) /\ Len(id) = Len(a) + Len(e)
        /\ \A i \in 1 .. Len(a) : id[i] = a[i]
        /\ \A i \in 1 .. Len(e) : id[Len(a) + i] = e[i]
    <3>1. a \in Seq(U) /\ e \in Seq(U)
      BY <1>4, <2>1
    <3>2. id = a \o e
      BY <2>2
    <3> HIDE DEF m, n
    <3>3. id \in Seq(U) /\ Len(id) = Len(a) + Len(e)
      BY <3>1, <3>2
    <3>4. \A i \in 1 .. Len(a) : id[i] = a[i]
      BY <3>1, <3>2
    <3>5. \A i \in 1 .. Len(e) : id[Len(a) + i] = e[i]
      BY <3>1, <3>2
    <3> QED BY <3>3, <3>4, <3>5
  <2>4. m \in Nat /\ n \in Nat /\ m + 1 \in 1 .. Len(a) /\ \A i \in 1 .. m : i \in 1 .. Len(a)
    BY <1>4, <2>1
  <2> HIDE DEF m, n
  <2>5. Len(a) = m + 1 /\ Len(e) = n
    BY <2>1 DEF n
  <2> QED BY <2>1, <2>3, <2>4, <2>5
<1> HIDE DEF id
<1>6. m + 1 \in I /\ \A i \in I : i <= m + 1
  <2>1. m + 1 \in I
    BY <1>5
  <2>2. ASSUME NEW i \in I, ~(i <= m + 1) PROVE FALSE
    <3>1. i - (m + 1) \in 1 .. n /\ m + 1 + (i - (m + 1)) = i
      BY <1>5, <2>2
    <3>2. id[i] = e[i - (m + 1)]
      BY <1>5, <3>1
    <3>3. e[i - (m + 1)] \in Checkable
      BY <1>2, <3>1
    <3> QED BY <1>2, <3>2, <3>3
  <2>3. I \subseteq Nat
    OBVIOUS
  <2> QED BY <1>5, <2>1, <2>2, <2>3
<1>7. SelectLastInSeq(id, LAMBDA c : c = "-") = m + 1
  <2>1. Max(I) = m + 1
    <3>1. I \subseteq Nat /\ m + 1 \in Nat
      BY <1>5
    <3> DEFINE x == CHOOSE x \in I : \A y \in I : x >= y
    <3>2. x \in I /\ \A y \in I : x >= y
      <4>1. \E z \in I : \A y \in I : z >= y
        BY <1>6, <3>1
      <4> QED BY <4>1
    <3> HIDE DEF x
    <3>3. x = m + 1
      BY <1>6, <3>1, <3>2
    <3> QED BY <3>3 DEF x, Max
  <2> QED BY <1>6, <2>1 DEF SelectLastInSeq
<1>8. SubSeq(id, m + 2, Len(id)) = e
  <2> DEFINE u == SubSeq(id, m + 2, Len(id))
  <2>1. u \in Seq(U) /\ Len(u) = n /\ \A i \in 1 .. n : u[i] = id[m + 1 + i]
    BY <1>5
  <2> HIDE DEF u
  <2>2. \A i \in 1 .. n : u[i] = e[i]
    BY <1>5, <2>1
  <2>3. u = e
    BY <1>4, <2>1, <2>2
  <2> QED BY <2>3 DEF u
<1>9. SubSeq(id, 1, m) = front
  <2> DEFINE u == SubSeq(id, 1, m)
  <2>1. u \in Seq(U) /\ Len(u) = m /\ \A i \in 1 .. m : u[i] = id[i]
    BY <1>5
  <2> HIDE DEF u
  <2>2. u = front
    BY <1>5, <2>1
  <2> QED BY <2>2 DEF u
<1>10. (m + 1) + 1 = m + 2 /\ (m + 1) - 1 = m /\ m + 1 # 0
  BY <1>5
<1>11. IsOk(Decode(e)) /\ Decode(e).ok = bytes
  BY <1>2, AnswerFacts
<1>12. DecodeId(id) = Ok(<<front, bytes>>)
  BY <1>3, <1>7, <1>8, <1>9, <1>10, <1>11 DEF DecodeId
<1> QED BY <1>1, <1>12

LEMMA BytesAreExact == ASSUME data \in Seq(Bytes) PROVE BytesExact
<1>1. Decode(Encode(data)) = Ok(data)
  BY BytesComeBack
<1>2. DecodeWithCheck(EncodeWithCheck(data)) = Ok(data)
  BY CheckedComeBack
<1>3. ASSUME NEW k \in 1 .. Len(EncodeWithCheck(data)), NEW c \in ToSet(CheckAlphabet),
             IsOk(DecodeWithCheck([EncodeWithCheck(data) EXCEPT ![k] = c]))
      PROVE  DecodeWithCheck([EncodeWithCheck(data) EXCEPT ![k] = c]) = Ok(data)
  <2> DEFINE answer == DecodeWithCheck([EncodeWithCheck(data) EXCEPT ![k] = c])
  <2>1. c \in Checkable /\ IsOk(answer)
    BY <1>3 DEF Checkable
  <2> QED BY <2>1, OneMistyped
<1>4. ASSUME NEW front \in {<<>>, <<"0">>, <<"1", "-">>},
             data # <<>>, IsOk(EncodeId(front, data))
      PROVE  DecodeId(EncodeId(front, data).ok) = Ok(<<front, data>>)
  <2> DEFINE T == {"0", "1", "-"}
  <2>1. front \in Seq(T)
    <3>1. <<>> \in Seq(T) /\ <<"0">> \in Seq(T) /\ <<"1", "-">> \in Seq(T)
      OBVIOUS
    <3> QED BY <3>1, Zenon
  <2> HIDE DEF T
  <2> QED BY <1>4, <2>1, IdsComeBack
<1> QED BY <1>1, <1>2, <1>3, <1>4 DEF BytesExact

-----------------------------------------------------------------------------
(* The codecs                                                              *)

CodecTypeOK == text \in Seq(Chars) /\ data \in Seq(Bytes)

LEMMA CodecStarts == ToolkitInit => CodecTypeOK
BY DEF ToolkitInit, CodecStart, CodecTypeOK

LEMMA CodecSteps == CodecTypeOK /\ [CodecNext]_codecVars => CodecTypeOK'
<1> SUFFICES ASSUME CodecTypeOK, [CodecNext]_codecVars PROVE CodecTypeOK'
  OBVIOUS
<1>1. CASE TypeChar
  BY <1>1 DEF CodecTypeOK, TypeChar
<1>2. CASE AddByte
  BY <1>2 DEF CodecTypeOK, AddByte
<1>3. CASE UNCHANGED codecVars
  BY <1>3 DEF CodecTypeOK, codecVars
<1> QED BY <1>1, <1>2, <1>3 DEF CodecNext

\* The codecs lose nothing and accept nothing that they would misread: for
\* texts and bytes of any length, words and symbols of any width, and any
\* alphabets of an odd number of symbols.
THEOREM CodecsAreExact == ToolkitSpec => []CodecExact
<1>1. CodecTypeOK /\ [ToolkitNext]_toolkitVars => CodecTypeOK'
  BY PartsStep, CodecSteps
<1>2. CodecTypeOK => CodecExact
  BY WordsAreExact, BytesAreExact DEF CodecTypeOK, CodecExact
<1> QED BY CodecStarts, <1>1, <1>2, PTL DEF ToolkitSpec, toolkitVars
=============================================================================
