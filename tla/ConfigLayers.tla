---------------------------- MODULE ConfigLayers ----------------------------
(***************************************************************************)
(* altair_config::Loader: TOML files in the order they were added, the     *)
(* environment over them, then extract and validate.  from_file is one     *)
(* required file and a prefix; from_reader and from_toml_str are a source  *)
(* that is always there.                                                   *)
(*                                                                         *)
(* A key is the path of a field: a sequence of names, each a sequence of   *)
(* the words its underscores separate.                                     *)
(***************************************************************************)
EXTENDS Integers, SequencesExt

Port     == <<<<"port">>>>
Host     == <<<<"database">>, <<"host">>>>
PoolSize == <<<<"database">>, <<"max", "connections">>>>
ConfigKeys == {Port, Host, PoolSize}

Unset   == "unset"
Values  == {"v1", "v2", "bad"}      \* validate() refuses "bad"
Sources == {"here", "parent", "nowhere", "inline"}

VARIABLES
  files,    \* Loader::files: [where, optional, broken, table]
  prefix,   \* whether env_prefix was called
  env,      \* the variable of each key, Unset or its value
  defaults, \* the keys whose field has a serde default
  layer,    \* the next file to merge
  figment,  \* key -> merged value, or Unset
  failed,   \* a provider answered an error, which extract reports
  verdict   \* loading; Ok, Parse, Validation

configVars == <<files, prefix, env, defaults, layer, figment, failed, verdict>>
sources == <<files, prefix, env, defaults>>

Over(upper, lower) ==
  [key \in ConfigKeys |-> IF upper[key] # Unset THEN upper[key] ELSE lower[key]]

-----------------------------------------------------------------------------

\* Path::exists looks in the working directory only.
Skipped(file) == file.optional /\ file.where \in {"parent", "nowhere"}

\* Toml::file also looks in the directories above, and a file found in none
\* of them is an empty table.
Found(file) == file.where # "nowhere"

\* Mutant of MergeFile: what is there already is kept (figment's join).
JoinFile ==
  /\ verdict = "loading"
  /\ layer <= Len(files)
  /\ layer' = layer + 1
  /\ figment' = IF Skipped(files[layer]) \/ ~Found(files[layer]) \/ files[layer].broken
                THEN figment ELSE Over(figment, files[layer].table)
  /\ failed' = (failed \/ files[layer].broken)
  /\ UNCHANGED <<sources, verdict>>

MergeFile ==
  LET file == files[layer]
      used == ~Skipped(file) /\ Found(file)
  IN  /\ verdict = "loading"
      /\ layer <= Len(files)
      /\ layer' = layer + 1
      /\ figment' = IF used /\ ~file.broken THEN Over(file.table, figment) ELSE figment
      /\ failed' = (failed \/ (used /\ file.broken))
      /\ UNCHANGED <<sources, verdict>>

\* split('_'): each word of a variable's name is a name of the path.
EnvPath(key) == [k \in DOMAIN FlattenSeq(key) |-> <<FlattenSeq(key)[k]>>]

\* What the environment sets: a variable lands at its path, a field or not.
EnvTable == [key \in ConfigKeys |-> IF EnvPath(key) = key THEN env[key] ELSE Unset]

\* merge(Env), extract, validate.
Build ==
  LET merged == IF prefix THEN Over(EnvTable, figment) ELSE figment
  IN  /\ verdict = "loading"
      /\ layer > Len(files)
      /\ figment' = merged
      /\ verdict' = IF failed \/ \E key \in ConfigKeys \ defaults : merged[key] = Unset
                    THEN "Parse"
                    ELSE IF \E key \in ConfigKeys : merged[key] = "bad" THEN "Validation"
                    ELSE "Ok"
      /\ UNCHANGED <<sources, layer, failed>>

ConfigInputs(layers, environments) ==
  [files : layers, prefix : BOOLEAN, env : environments,
   defaults : {{}, {PoolSize}, ConfigKeys}]

ConfigStart(input) ==
  /\ files = input.files
  /\ prefix = input.prefix
  /\ env = input.env
  /\ defaults = input.defaults
  /\ layer = 1
  /\ figment = [key \in ConfigKeys |-> Unset]
  /\ failed = FALSE
  /\ verdict = "loading"

ConfigNext == MergeFile \/ Build

-----------------------------------------------------------------------------
(* Properties *)

\* An Ok config has, for each field, the environment's value if there is one
\* and the field's names have no underscore, else the value of the last file
\* that is there and sets it, else its default; a value that validate()
\* refuses is only accepted where a later layer replaced it.  A variable for
\* a field with an underscore, and a required file that is missing when every
\* field has a default, leave no trace, although README.md:70 of the crate says
\* that the environment overrides everything and loader.rs:26 that loading
\* fails.
LayersWin ==
  LET Sets(k, key) == /\ files[k].table[key] # Unset
                      /\ files[k].where \in {"here", "inline"}
                         \/ (files[k].where = "parent" /\ ~files[k].optional)
      Setters(key) == {k \in DOMAIN files : Sets(k, key)}
  IN  verdict = "Ok" => \A key \in ConfigKeys :
        /\ figment[key] # "bad"
        /\ prefix /\ key # PoolSize /\ env[key] # Unset => figment[key] = env[key]
        /\ ~prefix \/ key = PoolSize \/ env[key] = Unset =>
             figment[key] = IF Setters(key) = {} THEN Unset
                            ELSE LET top == CHOOSE k \in Setters(key) :
                                              \A j \in Setters(key) : j <= k
                                 IN  files[top].table[key]
        /\ figment[key] = Unset => key \in defaults
=============================================================================
