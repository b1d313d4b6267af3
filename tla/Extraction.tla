----------------------------- MODULE Extraction -----------------------------
(***************************************************************************)
(* altair-compress: a tree is packed by tar_dir, tar_gz_dir or zip_dir, or *)
(* one file by compress_file, and unpacked by the recipe's *_with_limit.   *)
(* Extraction walks the entries in archive order and counts the bytes it   *)
(* writes against the limit; it undoes nothing, and the caller may extract *)
(* again, with another limit, into the same directory.                     *)
(*                                                                         *)
(* A file is its size in blocks.  The writers of archives and of counted   *)
(* files are BufWriters dropped without flush(): a write error of a tail   *)
(* is not seen.                                                            *)
(***************************************************************************)
EXTENDS Integers, SequencesExt

CONSTANTS
  WordMax,      \* u64::MAX, in blocks
  MaxAttempts   \* bound: extractions of one archive

ASSUME ExtractionAssumption == WordMax \in Nat /\ MaxAttempts \in Nat

Tars == {"tar", "tar.gz"}
Recipes == Tars \union {"zip", "gzip"}
Dir == -1       \* the size of a directory
Special == -2   \* of what is neither file nor directory, a socket or a pipe
Nowhere == -3   \* of a path that is not there

VARIABLES
  recipe, tree,  \* fixed; tree is a function from paths to sizes
  sparse,        \* fixed; files whose entry in a tar is not a Regular one
  archive,       \* paths in the order of read_dir
  limit,         \* max_total_bytes
  next, total,   \* the entry to unpack, total_written
  disk,          \* path -> size under the destination
  outcome,       \* pack, ready, unpack; Ok, Limit, Io, InvalidSource
  lossy,         \* a dropped writer has lost a tail
  attempts

extractVars ==
  <<recipe, tree, sparse, archive, limit, next, total, disk, outcome, lossy, attempts>>
fixed == <<recipe, tree, sparse>>

SatAdd(a, b) == IF a + b > WordMax THEN WordMax ELSE a + b
SatSub(a, b) == IF a < b THEN 0 ELSE a - b

HasBytes(t, path) == t[path] >= 0

\* entry_type().is_file() of a tar's entry, which is Regular and nothing else:
\* a GNU sparse entry, as tar::Builder writes for a file with holes, is none.
\* In a zip, whatever is no directory.
IsFile(path) == HasBytes(tree, path) /\ path \notin sparse
Path(k) == archive[k]

-----------------------------------------------------------------------------
(* Packing *)

\* tar walks every entry and refuses a special file; zip_dir's walk_and_add
\* passes over what is neither file nor directory.  The tail of the archive
\* may be lost when its writer is dropped.
Pack ==
  LET packed == {path \in DOMAIN tree : tree[path] # Special}
  IN  /\ outcome = "pack"
      /\ recipe \in Tars => packed = DOMAIN tree
      /\ \E order \in SetToSeqs(packed) :
           \/ archive' = order /\ UNCHANGED lossy
           \/ archive' = Front(order) /\ lossy' = TRUE
      /\ outcome' = "ready"
      /\ UNCHANGED <<fixed, limit, next, total, disk, attempts>>

\* !source.is_dir(), or any error of the walk and of the writers.
PackFails ==
  /\ outcome = "pack"
  /\ outcome' \in IF recipe = "gzip" THEN {"Io"} ELSE {"InvalidSource", "Io"}
  /\ UNCHANGED <<fixed, archive, limit, next, total, disk, lossy, attempts>>

-----------------------------------------------------------------------------
(* Unpacking *)

Extract ==
  /\ outcome \in {"ready", "Ok", "Limit"} \/ (outcome = "Io" /\ attempts > 0)
  /\ attempts < MaxAttempts
  /\ attempts' = attempts + 1
  /\ limit' \in 0 .. WordMax
  /\ next' = 1
  /\ total' = 0
  /\ outcome' = "unpack"
  /\ UNCHANGED <<fixed, archive, disk, lossy>>

\* Mutant of Allowance: the limit is taken for each entry.
LimitPerEntry == SatAdd(limit, 1)

\* take(remaining.saturating_add(1)), remaining of the whole extraction.
Allowance == SatAdd(SatSub(limit, total), 1)

\* The blocks that are written of an entry when nothing fails.
Writes(path) == IF IsFile(path) THEN Min({tree[path], Allowance}) ELSE tree[path]

\* io::copy of a file entry: File::create truncates, and the total decides.
CopyFile ==
  LET path == Path(next)
      written == Writes(path)
  IN  /\ outcome = "unpack"
      /\ next <= Len(archive)
      /\ IsFile(path)
      /\ total' = SatAdd(total, written)
      /\ IF total' > limit
         THEN outcome' = "Limit" /\ UNCHANGED next
         ELSE next' = next + 1 /\ UNCHANGED outcome
      /\ \E kept \in {written, SatSub(written, 1)} :
           /\ disk' = [disk EXCEPT ![path] = kept]
           /\ lossy' = (lossy \/ kept < written)
      /\ UNCHANGED <<fixed, archive, limit, attempts>>

\* entry.unpack: a directory is made; any other entry is written in full, is
\* not counted and knows of no limit.  A short write is an error here.
UnpackEntry ==
  /\ outcome = "unpack"
  /\ next <= Len(archive)
  /\ ~IsFile(Path(next))
  /\ disk' = [disk EXCEPT ![Path(next)] = tree[Path(next)]]
  /\ next' = next + 1
  /\ UNCHANGED <<fixed, archive, limit, total, outcome, lossy, attempts>>

\* A copy, create or the archive's reader fails: what is there stays.
UnpackFails ==
  /\ outcome = "unpack"
  /\ outcome' = "Io"
  /\ \/ UNCHANGED disk
     \/ /\ next <= Len(archive)
        /\ HasBytes(tree, Path(next))
        /\ \E part \in 0 .. Writes(Path(next)) :
             disk' = [disk EXCEPT ![Path(next)] = part]
  /\ UNCHANGED <<fixed, archive, limit, next, total, lossy, attempts>>

Unpacked ==
  /\ outcome = "unpack"
  /\ next > Len(archive)
  /\ outcome' = "Ok"
  /\ UNCHANGED <<fixed, archive, limit, next, total, disk, lossy, attempts>>

ExtractInputs(trees) ==
  {i \in [recipe : Recipes, tree : trees, sparse : SUBSET UNION {DOMAIN t : t \in trees}] :
     /\ i.recipe = "gzip" => Cardinality(DOMAIN i.tree) = 1
     /\ i.recipe \notin Tars => i.sparse = {}
     /\ \A path \in i.sparse : path \in DOMAIN i.tree /\ HasBytes(i.tree, path)}

ExtractStart(input) ==
  /\ recipe = input.recipe
  /\ tree = input.tree
  /\ sparse = input.sparse
  /\ archive = <<>>
  /\ limit = 0
  /\ next = 1
  /\ total = 0
  /\ disk = [path \in DOMAIN tree |-> Nowhere]
  /\ outcome = "pack"
  /\ lossy = FALSE
  /\ attempts = 0

ExtractNext ==
  \/ Pack \/ PackFails \/ Extract
  \/ CopyFile \/ UnpackEntry \/ UnpackFails \/ Unpacked

-----------------------------------------------------------------------------
(* Properties *)

\* An extraction that answers Ok leaves every file and directory of the tree
\* at its full size, whatever earlier attempts left half-written, and the
\* files it counts keep to the limit; one that answers DecompressionLimit was
\* given counted files that are over it; and at no time has an attempt written
\* more of them than one block beyond.  (u64::MAX is no limit: what is beyond
\* it is cut, and the answer is Ok.)  Two things escape: files that are not
\* counted are under no limit, although the limit is documented as a cap on
\* the total extracted file bytes (tar.rs:53), and a tail lost by a dropped
\* writer leaves a short file behind an Ok.
LimitsHold ==
  LET counted == SumFunctionOnSet(tree, {path \in DOMAIN tree : IsFile(path)})
      kept    == {path \in DOMAIN tree : tree[path] # Special}
  IN  /\ total <= SatAdd(limit, 1)
      /\ outcome = "Limit" => counted > limit
      /\ outcome = "Ok" /\ ~lossy /\ (limit < WordMax \/ counted <= WordMax) =>
           /\ \A path \in kept : disk[path] = tree[path]
           /\ counted <= limit
=============================================================================
