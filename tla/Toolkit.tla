------------------------------ MODULE Toolkit ------------------------------
(***************************************************************************)
(* The parts of the workspace that stand on their own, one at a time: a    *)
(* behaviour is a behaviour of the part that subject names, on the inputs  *)
(* given, while every other part rests in one of its initial states.       *)
(***************************************************************************)
EXTENDS ChunkedDemo, SyncJob, Extraction, Codec, Expansion, RestCall, ConfigLayers

CONSTANTS
  JobSources,       \* what the source of a sync job has, partition by partition
  Trees,            \* trees to pack
  Maps, Templates,  \* parameters of a loop and its template
  FileLists,        \* the files of a Loader
  Environments      \* the environment of a Loader

TreeSizes == Nat \union {Dir, Special}
Table == [ConfigKeys -> Values \union {Unset}]
File == [where : Sources, optional : BOOLEAN, broken : BOOLEAN, table : Table]

ASSUME ToolkitAssumption ==
  /\ JobSources # {} /\ \A s \in JobSources : s \in Seq(Seq(Records))
  /\ Trees # {} /\ \A t \in Trees : /\ IsFiniteSet(DOMAIN t)
                                   /\ t \in [DOMAIN t -> TreeSizes]
  /\ Maps # {} /\ \A m \in Maps : m \in Seq(Seq(Seq(Piece)))
  /\ Templates # {} /\ \A t \in Templates : t \in Seq(Piece)
  /\ FileLists # {} /\ \A f \in FileLists : f \in Seq(File)
  /\ Environments # {} /\ \A e \in Environments : e \in Table

VARIABLE subject

-----------------------------------------------------------------------------

\* The inputs of the subject, and one input of any other part.
Given(part_, inputs) == IF subject = part_ THEN inputs ELSE {CHOOSE i \in inputs : TRUE}

ToolkitInit ==
  /\ subject \in {"demo", "job", "extraction", "codec", "expansion", "rest", "config"}
  /\ \E i \in Given("demo", Demos) : DemoStart(i)
  /\ \E i \in Given("job", JobInputs(JobSources)) : JobStart(i)
  /\ \E i \in Given("extraction", ExtractInputs(Trees)) : ExtractStart(i)
  /\ CodecStart
  /\ \E i \in Given("expansion", Maps), j \in Given("expansion", Templates) :
       ExpansionStart(i, j)
  /\ \E i \in Given("rest", RestInputs) : RestStart(i)
  /\ \E i \in Given("config", ConfigInputs(FileLists, Environments)) : ConfigStart(i)

\* The subject takes a step.
Only(part_, step) == subject = part_ /\ step /\ UNCHANGED subject

ToolkitNext ==
  \/ /\ Only("demo", DemoNext)
     /\ UNCHANGED <<jobVars, extractVars, codecVars, expansionVars, restVars, configVars>>
  \/ /\ Only("job", JobNext)
     /\ UNCHANGED <<demoVars, extractVars, codecVars, expansionVars, restVars, configVars>>
  \/ /\ Only("extraction", ExtractNext)
     /\ UNCHANGED <<demoVars, jobVars, codecVars, expansionVars, restVars, configVars>>
  \/ /\ Only("codec", CodecNext)
     /\ UNCHANGED <<demoVars, jobVars, extractVars, expansionVars, restVars, configVars>>
  \/ /\ Only("expansion", ExpansionNext)
     /\ UNCHANGED <<demoVars, jobVars, extractVars, codecVars, restVars, configVars>>
  \/ /\ Only("rest", RestNext)
     /\ UNCHANGED <<demoVars, jobVars, extractVars, codecVars, expansionVars, configVars>>
  \/ /\ Only("config", ConfigNext)
     /\ UNCHANGED <<demoVars, jobVars, extractVars, codecVars, expansionVars, restVars>>

ToolkitSpec ==
  ToolkitInit /\ [][ToolkitNext]_<<subject, demoVars, jobVars, extractVars, codecVars,
                                   expansionVars, restVars, configVars>>
=============================================================================
