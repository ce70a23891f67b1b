-------------------------- MODULE ResearchPipeline --------------------------
(***************************************************************************)
(* The research pipeline past the features: the cache of source data that  *)
(* a download leaves, the feature dataset that is written from a table and *)
(* loaded for training, and the evaluation over rolling windows (the       *)
(* module extended).  They are commands of their own, run one after the    *)
(* other, and meet in files only: what each promises, it promises of its   *)
(* own variables.                                                          *)
(***************************************************************************)
EXTENDS RollingEvaluation

CONSTANTS Absent, Partial      \* no file, a half-written one

CONSTANTS Datasets, SourceSeasons, Deliveries, Caches, MaxDownloads

VARIABLES src_cache, src_tmp, src_manifests, src_run, src_downloads

Source == INSTANCE SourceCache WITH
    Seasons <- SourceSeasons, None <- Absent,
    cache <- src_cache, tmp <- src_tmp, manifests <- src_manifests, run <- src_run,
    downloads <- src_downloads

CONSTANTS Contents, Registries, Loaders, MaxWrites, MaxLoads

VARIABLES set_data, set_data_tmp, set_manifest, set_manifest_tmp, set_writer, set_loader,
          set_writes, set_loads, set_completed

Dataset == INSTANCE FeatureDataset WITH
    None <- Absent,
    data <- set_data, data_tmp <- set_data_tmp, manifest <- set_manifest,
    manifest_tmp <- set_manifest_tmp, writer <- set_writer, loader <- set_loader,
    writes <- set_writes, loads <- set_loads, completed <- set_completed

ASSUME PipelineAssumption ==
    RollingAssumption /\ Source!SourceCacheAssumption /\ Dataset!FeatureDatasetAssumption

src_vars == <<src_cache, src_tmp, src_manifests, src_run, src_downloads>>
set_vars == <<set_data, set_data_tmp, set_manifest, set_manifest_tmp, set_writer, set_loader,
              set_writes, set_loads, set_completed>>

-----------------------------------------------------------------------------

\* What is held out in a window no model up to it has seen, training expands, an
\* accepted configuration cannot fail for its windows, and model and baseline are
\* measured on the same rows (evaluate_wr_poisson_rolling).
EvaluationIsHonest ==
    /\ HeldOutRowsAreUnseen
    /\ TrainingExpands
    /\ AcceptedWindowsAreChronological
    /\ CohortsAreTheSame

\* A load that succeeds ends on the table described by the manifest it read, a
\* completed write can be loaded and no part of a table is seen, wherever a write
\* was interrupted (write_wr_feature_dataset, load_and_validate_wr_feature_dataset).
LoadedTableIsTheDescribedOne ==
    /\ Dataset!LoadedTableIsTheDescribedOne
    /\ []Dataset!CompletedWriteIsLoadable
    /\ []Dataset!NoPartOfATableIsSeen

\* A download gives usable frames and a manifest of the same bytes, and a usable
\* season is only ever replaced by a usable one (NflverseAdapter.download).
DownloadsAreDescribed ==
    /\ Source!CacheStaysUsable
    /\ []Source!ManifestDescribesTheFrames
    /\ []Source!FramesAreUsable
=============================================================================
