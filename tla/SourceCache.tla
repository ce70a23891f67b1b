----------------------------- MODULE SourceCache -----------------------------
(***************************************************************************)
(* NflverseAdapter: download takes each dataset from the cache when every  *)
(* season of it is there, and else loads and replaces the seasons one by   *)
(* one; then it reads the cached files again to describe them in a         *)
(* manifest.  What the source delivers may change or be unusable at any    *)
(* time, and the process may stop at any time.  One process at a time; the *)
(* manifest's own file and datasets without a season column are left out.  *)
(***************************************************************************)
EXTENDS Naturals, SequencesExt

CONSTANTS
    Datasets,       \* in the order of their keys
    Seasons,        \* in their order
    Deliveries,     \* what the loader may deliver: [release, season]
    Caches,         \* what the cache may hold at first
    MaxDownloads,   \* bound on the downloads started
    None, Partial

Files == ToSet(Datasets) \X ToSet(Seasons)

\* A delivery is usable when its columns fit the contract and it has rows; it has the
\* season its rows name.  The cache may hold anything at first, at the paths there are.
SourceCacheAssumption ==
    /\ MaxDownloads \in Nat
    /\ {None, Partial} \cap Deliveries = {}
    /\ Datasets \in Seq(ToSet(Datasets)) /\ Seasons \in Seq(ToSet(Seasons))
    /\ Caches \subseteq [Files -> Deliveries \cup {None, Partial}]

VARIABLES
    cache, tmp,     \* by file: a delivery, Partial or None
    manifests,      \* written manifests: the hash of each listed file
    run,            \* [at, dataset, season, frames, files]
    downloads

vars == <<cache, tmp, manifests, run, downloads>>

Ready == [at |-> "ready", force |-> FALSE, wanted |-> <<>>, seasons |-> <<>>,
          dataset |-> 1, season |-> 1, frames |-> <<>>, files |-> <<>>]

Init ==
    /\ cache \in Caches
    /\ tmp = [f \in Files |-> None]
    /\ manifests = {}
    /\ run = Ready
    /\ downloads = 0

-----------------------------------------------------------------------------

Here == <<run.wanted[run.dataset], run.seasons[run.season]>>

\* What both validate and the season check ask of a frame.
Usable(frame, season) == frame \in Deliveries /\ frame.usable /\ frame.season = season

Put(f, k, v) == [x \in DOMAIN f \cup {k} |-> IF x = k THEN v ELSE f[x]]

Ended(outcome) == [Ready EXCEPT !.at = outcome]

\* On to the next season of the dataset, or to what follows the last one.
NextSeason(r, follows) ==
    IF r.season < Len(r.seasons) THEN [r EXCEPT !.season = @ + 1]
    ELSE IF r.dataset < Len(r.wanted)
         THEN [r EXCEPT !.at = follows, !.dataset = @ + 1, !.season = 1]
         ELSE [r EXCEPT !.at = IF follows = "fetch" THEN "describe" ELSE "write manifest",
                        !.dataset = 1, !.season = 1]

\* download, for some of the datasets and seasons.
Download(wanted, seasons, force) ==
    /\ run.at \in {"ready", "done", "failed"} /\ downloads < MaxDownloads
    /\ wanted # <<>> /\ seasons # <<>>
    /\ run' = [Ready EXCEPT !.at = "fetch", !.force = force,
                            !.wanted = wanted, !.seasons = seasons]
    /\ downloads' = downloads + 1
    /\ UNCHANGED <<cache, tmp, manifests>>

\* fetch: the cache is used only when it has every season.
Fetch ==
    /\ run.at = "fetch"
    /\ run' = [run EXCEPT !.at =
          IF ~run.force /\ \A s \in ToSet(run.seasons) :
                cache[run.wanted[run.dataset], s] # None
          THEN "read cached" ELSE "load"]
    /\ UNCHANGED <<cache, tmp, manifests, downloads>>

ReadCached ==
    /\ run.at = "read cached"
    /\ run' = IF Usable(cache[Here], Here[2])
              THEN NextSeason([run EXCEPT !.frames = Put(@, Here, cache[Here])], "fetch")
              ELSE Ended("failed")
    /\ UNCHANGED <<cache, tmp, manifests, downloads>>

\* Mutant: a delivery is written before it is looked at.
Load_Unchecked(delivery) ==
    /\ run.at = "load"
    /\ run' = [run EXCEPT !.at = "fill", !.frames = Put(@, Here, delivery)]
    /\ tmp' = [tmp EXCEPT ![Here] = Partial]
    /\ UNCHANGED <<cache, manifests, downloads>>

\* The loader delivers and the temporary file is opened, or the loader fails.
Load(delivery) ==
    /\ run.at = "load"
    /\ IF Usable(delivery, Here[2])
       THEN /\ run' = [run EXCEPT !.at = "fill", !.frames = Put(@, Here, delivery)]
            /\ tmp' = [tmp EXCEPT ![Here] = Partial]
       ELSE /\ run' = Ended("failed")
            /\ UNCHANGED tmp
    /\ UNCHANGED <<cache, manifests, downloads>>

Fill ==
    /\ run.at = "fill"
    /\ run' = [run EXCEPT !.at = "replace"]
    /\ tmp' = [tmp EXCEPT ![Here] = run.frames[Here]]
    /\ UNCHANGED <<cache, manifests, downloads>>

Replace ==
    /\ run.at = "replace"
    /\ cache' = [cache EXCEPT ![Here] = tmp[Here]]
    /\ tmp' = [tmp EXCEPT ![Here] = None]
    /\ LET next == NextSeason(run, "fetch")
       IN  run' = IF next.at = "replace" THEN [next EXCEPT !.at = "load"] ELSE next
    /\ UNCHANGED <<manifests, downloads>>

\* The hash of a cached file, for the manifest.
Describe ==
    /\ run.at = "describe"
    /\ run' = NextSeason([run EXCEPT !.files = Put(@, Here, cache[Here])], "describe")
    /\ UNCHANGED <<cache, tmp, manifests, downloads>>

\* The file is named by the hash of what it says.
WriteManifest ==
    /\ run.at = "write manifest"
    /\ manifests' = manifests \cup {run.files}
    /\ run' = [run EXCEPT !.at = "done"]
    /\ UNCHANGED <<cache, tmp, downloads>>

Stop ==
    /\ run.at \notin {"ready", "done", "failed"}
    /\ run' = Ended("failed")
    /\ UNCHANGED <<cache, tmp, manifests, downloads>>

Sublists(s) == {SubSeq(s, i, j) : i, j \in 1 .. Len(s)}

Next ==
    \/ \E wanted \in Sublists(Datasets), seasons \in Sublists(Seasons), force \in BOOLEAN :
          Download(wanted, seasons, force)
    \/ Fetch \/ ReadCached
    \/ \E delivery \in Deliveries : Load(delivery)
    \/ Fill \/ Replace \/ Describe \/ WriteManifest \/ Stop

Spec == Init /\ [][Next]_vars

-----------------------------------------------------------------------------

\* A download that returns gives frames and a manifest of the same bytes, for every dataset and
\* season asked for, whichever came from the cache, were loaded now or were left by a
\* download that failed half-way (download, nflverse.py:241-269).
ManifestDescribesTheFrames ==
    run.at = "done" =>
        /\ run.files = run.frames
        /\ DOMAIN run.frames = ToSet(run.wanted) \X ToSet(run.seasons)
        /\ run.files \in manifests

\* Nothing unusable is returned, whoever put it into the cache: drift in the source
\* must fail clearly rather than alter the training data (ADR 0004; nflverse.py:149-163,
\* 178-231).
FramesAreUsable ==
    run.at = "done" => \A f \in DOMAIN run.frames : Usable(run.frames[f], f[2])

\* However a refresh ends, a usable cached season is only ever replaced by a whole and
\* usable one (nflverse.py:235-237).
CacheStaysUsable ==
    [][\A f \in Files : Usable(cache[f], f[2]) => Usable(cache'[f], f[2])]_vars
=============================================================================
