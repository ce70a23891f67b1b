--------------------------- MODULE FeatureDataset ---------------------------
(***************************************************************************)
(* write_wr_feature_dataset replaces the feature table and then its        *)
(* manifest, each through a temporary file beside it; the process may end  *)
(* between any two steps and be started again with another table.          *)
(* load_and_validate_wr_feature_dataset reads the two files in another     *)
(* process at the same time.  A content stands for the table and for its   *)
(* hashes, the registry for the feature definitions a process was built    *)
(* with.  A half-written file is Partial.                                  *)
(***************************************************************************)
EXTENDS Naturals, FiniteSets

CONSTANTS
    Contents,       \* feature tables
    Registries,     \* hashes of feature registries
    Loaders,
    MaxWrites,      \* bound on the writes started
    MaxLoads,       \* bound on the loads started
    None, Partial

\* What a manifest says: the content it describes, the hash of the file and of the
\* registry.
Manifests == [content : Contents, file : Contents, registry : Registries]

FeatureDatasetAssumption ==
    /\ None # Partial /\ {None, Partial} \cap (Contents \cup Manifests) = {}
    /\ MaxWrites \in Nat /\ MaxLoads \in Nat

VARIABLES
    data,           \* the Parquet file: a content or None
    data_tmp,       \* the temporary file beside it
    manifest,       \* the manifest: [content, file, registry] or None
    manifest_tmp,
    writer,         \* [at, content, registry, file]
    loader,         \* by loader: [at, registry, frame, manifest]
    writes, loads,
    completed       \* the content of the latest write, once that write has returned

files == <<data, data_tmp, manifest, manifest_tmp>>
vars == <<files, writer, loader, writes, loads, completed>>

Idle == [at |-> "idle", content |-> None, registry |-> None, file |-> None]

NotLoading == [at |-> "idle", registry |-> None, frame |-> None, manifest |-> None]

Init ==
    /\ data = None /\ data_tmp = None
    /\ manifest = None /\ manifest_tmp = None
    /\ writer = Idle
    /\ loader = [l \in Loaders |-> NotLoading]
    /\ writes = 0 /\ loads = 0
    /\ completed = None

-----------------------------------------------------------------------------
(* The writer. *)

StartWrite(c, r) ==
    /\ writer.at = "idle" /\ writes < MaxWrites
    /\ writer' = [Idle EXCEPT !.at = "write table", !.content = c, !.registry = r]
    /\ writes' = writes + 1
    /\ completed' = None
    /\ UNCHANGED <<files, loader, loads>>

Step(from, to) == writer.at = from /\ writer' = [writer EXCEPT !.at = to]

\* write_parquet: opened, then filled.
OpenTable ==
    /\ Step("write table", "fill table")
    /\ data_tmp' = Partial
    /\ UNCHANGED <<data, manifest, manifest_tmp, loader, writes, loads, completed>>

FillTable ==
    /\ Step("fill table", "replace table")
    /\ data_tmp' = writer.content
    /\ UNCHANGED <<data, manifest, manifest_tmp, loader, writes, loads, completed>>

ReplaceTable ==
    /\ Step("replace table", "hash table")
    /\ data' = data_tmp /\ data_tmp' = None
    /\ UNCHANGED <<manifest, manifest_tmp, loader, writes, loads, completed>>

\* sha256_file of what is at the path now.
HashTable ==
    /\ writer.at = "hash table"
    /\ writer' = [writer EXCEPT !.at = "write manifest", !.file = data]
    /\ UNCHANGED <<files, loader, writes, loads, completed>>

OpenManifest ==
    /\ Step("write manifest", "fill manifest")
    /\ manifest_tmp' = Partial
    /\ UNCHANGED <<data, data_tmp, manifest, loader, writes, loads, completed>>

FillManifest ==
    /\ Step("fill manifest", "replace manifest")
    /\ manifest_tmp' =
          [content |-> writer.content, file |-> writer.file, registry |-> writer.registry]
    /\ UNCHANGED <<data, data_tmp, manifest, loader, writes, loads, completed>>

ReplaceManifest ==
    /\ writer.at = "replace manifest"
    /\ manifest' = manifest_tmp /\ manifest_tmp' = None
    /\ completed' = writer
    /\ writer' = Idle
    /\ UNCHANGED <<data, data_tmp, loader, writes, loads>>

\* The process ends; what it has put into files stays.
Crash ==
    /\ writer.at # "idle"
    /\ writer' = Idle
    /\ UNCHANGED <<files, loader, writes, loads, completed>>

\* A step that raises: once inside the try block, the temporary file of the step is removed
\* on the way out, also one that an earlier process left; before it, that file stays.
Raise ==
    /\ writer.at # "idle"
    /\ writer' = Idle
    /\ \/ data_tmp' = None /\ writer.at \in {"write table", "fill table", "replace table"}
       \/ UNCHANGED data_tmp /\ writer.at \notin {"fill table", "replace table"}
    /\ \/ manifest_tmp' = None
          /\ writer.at \in {"write manifest", "fill manifest", "replace manifest"}
       \/ UNCHANGED manifest_tmp /\ writer.at \notin {"fill manifest", "replace manifest"}
    /\ UNCHANGED <<data, manifest, loader, writes, loads, completed>>

-----------------------------------------------------------------------------
(* The loaders. *)

StartLoad(l, r) ==
    /\ loader[l].at \in {"idle", "loaded", "refused"} /\ loads < MaxLoads
    /\ loader' = [loader EXCEPT ![l] = [NotLoading EXCEPT !.at = "read table", !.registry = r]]
    /\ loads' = loads + 1
    /\ UNCHANGED <<files, writer, writes, completed>>

ReadTable(l) ==
    /\ loader[l].at = "read table"
    /\ loader' = [loader EXCEPT ![l].at = IF data \in Contents THEN "read manifest" ELSE "refused",
                                ![l].frame = data]
    /\ UNCHANGED <<files, writer, writes, loads, completed>>

\* Mutant: the content of the table is not compared with the manifest's.
ReadManifest_Unchecked(l) ==
    /\ loader[l].at = "read manifest"
    /\ loader' = [loader EXCEPT ![l].at = IF manifest # None THEN "hash table" ELSE "refused",
                                ![l].manifest = manifest]
    /\ UNCHANGED <<files, writer, writes, loads, completed>>

ReadManifest(l) ==
    /\ loader[l].at = "read manifest"
    /\ loader' = [loader EXCEPT
          ![l].at = IF manifest # None /\ manifest.content = loader[l].frame
                    THEN "hash table" ELSE "refused",
          ![l].manifest = manifest]
    /\ UNCHANGED <<files, writer, writes, loads, completed>>

CheckFile(l) ==
    /\ loader[l].at = "hash table"
    /\ loader' = [loader EXCEPT
          ![l].at = IF /\ loader[l].manifest.file = data
                       /\ loader[l].manifest.registry = loader[l].registry
                    THEN "loaded" ELSE "refused"]
    /\ UNCHANGED <<files, writer, writes, loads, completed>>

Next ==
    \/ \E c \in Contents, r \in Registries : StartWrite(c, r)
    \/ OpenTable \/ FillTable \/ ReplaceTable \/ HashTable
    \/ OpenManifest \/ FillManifest \/ ReplaceManifest
    \/ Crash \/ Raise
    \/ \E l \in Loaders, r \in Registries : StartLoad(l, r)
    \/ \E l \in Loaders : ReadTable(l) \/ ReadManifest(l) \/ CheckFile(l)

Spec == Init /\ [][Next]_vars

-----------------------------------------------------------------------------

\* A load that succeeds ends on the table that it has read, described by the manifest it
\* has read, whatever a writer did meanwhile and wherever one was interrupted: the old
\* manifest is never taken for a new table (features.py:624-643).
LoadedTableIsTheDescribedOne ==
    [][\A l \in Loaders :
          loader[l].at # "loaded" /\ loader'[l].at = "loaded" =>
              /\ loader'[l].frame = data
              /\ loader'[l].manifest.content = data
              /\ loader'[l].manifest.registry = loader'[l].registry]_vars

\* Whatever came before it, interrupted or not, a write that returned leaves a dataset
\* that a process with the same registry can load, until the next write begins
\* (write_wr_feature_dataset, features.py:564-621).
CompletedWriteIsLoadable ==
    completed # None =>
        /\ data = completed.content
        /\ manifest = [content |-> data, file |-> data, registry |-> completed.registry]

\* A reader finds the old table or the new one, never a part of one
\* (ADR 0006; features.py:576-582).
NoPartOfATableIsSeen ==
    data # Partial /\ manifest # Partial
=============================================================================
