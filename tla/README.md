# EDGEIQ: a verification development

EDGEIQ has two halves. The **runtime** (`src/app/runtime`) owns the evidence that
leads from an execution request to a work item being worked on: small
event-sourced services, in memory, each with an `RLock` around an immutable
repository state, an expected-version compare at the append, scoped idempotency,
and a replay that reconstructs everything from retained evidence. The
**analytics application** (`src/app`, `src/app/research`, `src/feature_store`)
ingests provider odds into a database, keeps paper bets, recommends, and builds
point-in-time research data in files.

What makes either half correct is mostly a set of orders of steps: of threads
that decide from a snapshot and append later, of transactions of one run and
the crashes between them, of statements of requests served together, of file
replacements and the readers beside them. That is what is modelled here.

## 1. Inventory

| component | state it keeps | operations | who it talks to | what is hard |
|---|---|---|---|---|
| Work Claim (`runtime/work_claim`) | per work item: event stream; by id, by idempotency identity, current pointer | evaluate (create generation, claim, expire, release), reconstruct, get/history/current, retain | reads Dispatch Decisions and claimant evidence | three lock sections per call, stale snapshots, failing publication, fences across generations, the expiry instant |
| Execution Lease (`runtime/execution_lease`) | per work item and permission family: the same four indexes | evaluate (grant, renew, revoke, supersede), reconstruct, applicable, retain | reads authorizations and revocation directives | four lock sections, a lookup used two unlocks later, half-open periods, revocation that must fail closed |
| Dispatch Decision (`runtime/dispatch_decision`) | per stream: decisions; by id, by identity | evaluate, reconstruct | reads plans, selections, readiness, leases | evidence resolved before the lock, the lease's last instant |
| Execution Request (`runtime/execution_request`) | by content identity, by idempotency identity | admit, reconstruct | feeds Execution Plan | one content written two ways, one key for two contents |
| Execution Plan (`runtime/execution_plan`) | per request: plans, current plan | derive, reconstruct | reads requests and validation evidence | version compared before identity, one plan under several keys, which verdict a plan rests on |
| Worker Selection (`runtime/worker_selection`) | per workload: a mutable list, two dicts | evaluate, replay | API router | no single publication point, evaluation outside the lock, rounding before ranking |
| Provider ingestion (`services/ingestion.py`, `data_quality.py`, `persistence.py`, `player_aliases.py`) | jobs, batches, offers, provider health, players and aliases (database) | run_provider, validation, storing, name resolution | providers, scheduler | four transactions per run, death between them, timeouts and retries, concurrent runs |
| Paper bets (`paper_api.py`, `bankroll.py`, `clv.py`) | bets, closing lines, settlements (database) | create, close, settle, performance | recommendations | check-then-insert limits, close after settle |
| Pricing and market algorithms (`api.py`, `best_line.py`, `line_shopper.py`, `recommendation_policy.py`, `odds_movement.py`) | offers and recommendations (database) | recommend, rank, rate, movements, consensus | ingestion, paper bets | offers stored while one is chosen, two implementations of "best", thresholds, rows out of order |
| Research features and rolling evaluation (`research/features.py`, `baselines`, `evaluation`) | rolling histories per player and team; feature files | build features and baselines, evaluate windows, write and load the dataset | source data | a feature, a baseline or a window that sees its own future; two files replaced one after the other |
| Source data cache (`research/nflverse.py`, `manifest.py`) | one file per dataset and season, manifest | download from cache or source | the nflverse source | partial refresh, damaged files, a manifest of other data |
| Feature registry (`feature_store/registry.py`) | none | definitions checked once at import | research | static data |
| Statistical models (`research/models`, `reporting.py`) | none | fit, score | evaluation | numerics |
| Database, HTTP API, CLI | schema | plumbing | all | I/O |

`PROJECT.json` lists each with its status and, under "hazards", the lines where
this code is hard to test.

## 2. What is modelled

The modules and what they extend:

```
ClaimPolicy <- WorkClaim  (implements ClaimRegister)       MCWorkClaim
LeasePolicy <- ExecutionLease  (implements LeaseAuthority) MCExecutionLease
DispatchPolicy <- DispatchDecision <- Assignment
SelectionPolicy <- WorkerSelection (INSTANCE Sel) -^       MCAssignment
CanonicalValue
ExecutionRequest <- ExecutionPlan (INSTANCE Admission)
  <- Planning (INSTANCE Rules of PlanRules)                MCPlanning
Ingestion <- Providers (INSTANCE Resolution of
                 PlayerAliases, Offers of OfferStore)      MCProviders
Odds <- PaperBets <- Betting (INSTANCE Rec of
                     Recommendations), OddsMovement        MCBetting
WRFeatures <- WRBaselines,
RollingEvaluation <- ResearchPipeline (INSTANCE Dataset,
                     Source of FeatureDataset, SourceCache) MCResearch

FoldLemmas <- WorkClaimProofs                              proofs about Work Claim
FoldLemmas <- ExecutionLeaseProofs                         about Execution Lease
FoldLemmas <- AssignmentProofs                             about Assignment
FoldLemmas <- BettingProofs                                about Betting
FoldLemmas <- IngestionProofs                              about Providers
ExecutionPlanProofs                                        about plans and requests
FoldLemmas <- ResearchProofs                               about WRBaselines, ResearchPipeline
```

Five of the MC modules hold several small instances side by side. Their variable
`part` says which one a behaviour exercises; the variables of the others stay as
they are, so the state space is the sum of the instances' and not their product.
Where two parts ask different questions of one component (evidence that comes late,
threads that race), they are one instance of it whose steps `part` restricts to a
choice of requests and threads. The parts of one MC module never interact in the code.
Where components do interact, they are composed: `ExecutionPlan` runs the request
service it reads. `Assignment`, `Planning`, `Providers` and `ResearchPipeline` put components side by
side that share no state, so that what the runs check and the theorems state is one formula.

### Work Claim

`ClaimPolicy` is the pure half, translated from `policy.py`, `serialization.py`
and the replay in `service.py`: a request, the evidence that makes it
applicable, the registered policy's decision, and the replay, written as a
recursive function over the history. `WorkClaim` is the concurrent half. One
variable holds where each thread is; the repository's four indexes and the
retained evidence are the others. The actions are the lock sections:

| action | code |
|---|---|
| `Submit` | `_resolve`: scoped lookups, then applicability |
| `IdempotentLookup` | `repository.idempotent` |
| `LoadHistory` | `repository.history`, replay, `policy.decide`, build the event |
| `AppendEvent` | `repository.append`, published |
| `CommitFails` | `repository.append`, `_commit_state` raises |
| `AppendLoses` | `repository.append` finds another commit |
| `Reconstruct`, `Rebuild` | `repository.record`, then `repository.history` and the replay |
| `Retain`, `Return` | evidence source `retain`; the call comes back |

`ClaimRegister` is the abstract specification: an exclusive, fenced, timed
register per work item. `ImplementsRegister` checks that every interleaving of
the service refines it under the mapping `RegisterOf`, which reads the register
off a history without using the replay.

### Execution Lease

`LeasePolicy` is the pure half: the request with the shapes its constructor
accepts, authorization and revocation, `_decision`, `_advance_state`, the replay
and `applicable_at`. `ExecutionLease` is the concurrent half, built like
`WorkClaim` but after this service's own order of steps: `Submit`
(`idempotency_record`), `Resolve` (`_resolve`, and the answer if the lookup had
found the same request), `LoadHistory`, `Recheck` (`repository.idempotent` with
the generation now decided), `AppendEvent`, `CommitFails`, `AppendLoses`,
`Reconstruct`/`Rebuild`, and `AskNow`/`AskThrough` for `applicable` with and
without `through_version`. `LeaseAuthority` is the abstract specification:
authority that never exceeds the authorization behind it and widens only with a
new generation; `ImplementsAuthority` checks the refinement.

### Dispatch Decision

`DispatchPolicy` resolves a request's plan, selection, readiness and lease out of
what is retained (`Resolution`: the first failure, in the order of the code),
gives the policy's reasons (`Reasons`) and builds the decision. Plans, selections,
leases and readiness verdicts are each looked up in the request's scope; one of
another tenant is missing evidence. In
`DispatchDecision` a thread evaluates in one step (`Evaluate`: everything before
the lock, since lookups only grow more successful) and meets the others in
`append`: `AppendDecision`, `CommitFails`, `AppendLoses` (the identity is looked
up before the version). `Reconstruct`/`Rebuild` take two lock sections and then
resolve the evidence as it is by then; `Retain` adds an artifact.

### Execution Request and canonical values

`CanonicalValue` is `canonical_json` on nested maps and lists: normalised texts,
keys that collide after normalisation refused, entries sorted, floats refused.
Numbers with one value are one scalar. `ExecutionRequest` admits a draft:
`Submit` (validation, identity), then under the lock `AdmitNew`, `CommitFails` or
`AdmitAgain`; `Reconstruct` checks the organization. The second branch of
`admit` (a content identity that is known under an unknown idempotency identity)
cannot be reached, because the content identity includes the key; the model has
no action for it.

### Execution Plan

`PlanRules` is what `PlanRuleResult` accepts and what the one registered rule
produces. `ExecutionPlan` composes planners with the request service:
`LookUpRequest`, `LookUpValidation`, then the append under its lock as
`AppendPlan`, `AliasPlan` (a retained plan reached under another key, which adds an
idempotency identity and no version), `CommitFails`, `AppendLoses`; and
`Reconstruct`/`Rebuild`. A planner that comes with a new key and an outdated
version gets the version conflict even if its plan is retained, and the plan
when it tries again with the current version: ADR 0009:361-362 allows that.

### Worker Selection

`SelectionPolicy` is the evaluator: reasons to exclude, scores rounded half even
(integers, in units of the last digit kept), ranking, outcome. `WorkerSelection`
adds the history: `Submit` evaluates for the version after the expected one,
then `Accept`, `AcceptKnown` or `AppendLoses` under the lock; `Replay`, and
`AskHistory`/`ReadHistory`, the two calls of the router with others between.
The three mutations of `append` are one step because every read takes the same
lock; what `SelectionsStand` says is that they leave the tables in agreement.

### Ingestion, offers, names

`Ingestion` is `run_provider`, transaction by transaction: `Start` (job RUNNING),
`Answered`/`Unanswered` (attempts, timeout, provider error), `Compare` (latest
digest of the provider), `AddBatch` (committed with its hash), `Persist`/
`PersistFails`, `ReadHealth`, `HealthCollides`, `Complete`, `Fail`, and `Die` at
any point. Runs of one process are tasks of one loop and give way only while they
wait for the provider; processes interleave at every statement. `OfferStore` is
the validation of a payload (flags, duplicates, contradictory names) and the
storing of its offers with fair probabilities (exact fractions). `PlayerAliases`
is `resolve_player` over sessions on one SQLite database: reads see what is
committed, the first write takes the write lock. Left out: the commit that waits
for that lock until it times out, and a provider's raw text. `Providers` puts the three
side by side: a run sees of storing an offer only whether its transaction commits.

### Bets, recommendations, movements

`Odds` has American odds as exact fractions and both implementations of the
better offer. `PaperBets` runs each endpoint statement by statement:
`Create`, `CheckDuplicate`, `ReadWeekly`, `ReadPlayer`, `ReadEvent`, `ReadActive`,
`Insert`; `Close`, `RecordClosing`; `Settle`, `RecordSettlement`; `NextWeek`; the
performance summary is `MaximumDrawdown`. `Placers` are the callers that place
bets. Money is whole units; rounding a stake to the cent, the opening line, and
reading a row back after the commit are left out. `Recommendations` is
`create_projection`: `Request`, `Select` (best stored offer), `ReadExposure`,
`Insert`, while `Store` and `Tick` go on; the offers stored are those of one contract, so
of one side. `Betting` has both. `OddsMovement` is the series of rows of
each book, the book that moved first and the consensus, of rows with a line and without:
the lines are those of the books that have one, the probabilities those of all.

### Research

`WRFeatures` builds the games in order, the rows of a game before its histories
(`BuildGame`); one column stands for those computed alike, a mean is its sum and
count. A schedule is any finite set of games and is taken in the order of kickoff and
game id (`Orders`). `WRBaselines` is the second pass (`PredictGame`) and the rows all baselines
share. `RollingEvaluation` validates a configuration and evaluates window by
window with the two cohorts; what models and metrics compute is left out, but a fit may
fail (`FailToFit`). `FeatureDataset`
has the writer's file operations one by one, with `Crash` and `Raise` between any
two (what raises inside a `try` takes the temporary file along) and readers beside it. `SourceCache` is `NflverseAdapter.download`: cache or
source, file by file, the manifest from what is then on disk, `Stop` anywhere;
one process at a time. ADR 0006:26 promises atomic replacement, which is of each
file; both modules show what holds of several.

### Abstractions

* Digests, policy references, schema versions and history boundaries are one
  Boolean, `intact`, or the value itself: whether what is named is what is retained.
  An event id is a digest of content and version, so equal ids are equal records.
* Times are natural numbers; only their order and the distances the code adds
  matter. `recorded_at` (wall clock) takes no part in any decision and is left out.
* The check in the claim's `append` that an event id is new cannot fail, since the
  version is part of the id; it is kept in the guard `Appendable` without an error branch.
* The lease's comparison of a retry's rebuilt input with the retained one cannot
  fail once the requests are equal, since evidence is immutable.
* A read that takes a lock once and returns (`get`, `history`, `current`) is not
  an action: it changes nothing, and what it could see is what the index
  invariants say of every state.

## 3. The runs

| run | what it shows | bounds |
|---|---|---|
| `claim_race` | The lineage is an exclusive, fenced, replayable register under every race; history only grows; `ImplementsRegister` | 2 threads, 1 work item, 2 claimants, times 0-1, TTL 1, versions 0-5 (two generations) |
| `claim_calls` | No answer is taken back when keys are reused and publications fail; every call returns | 2 threads, 1 work item, 2 keys, 2 claimants, requests before their evidence, fairness |
| `claim_scope` (violated) | A key of another claimant is a conflict | 2 threads, 2 work items, 2 keys shared by unlike requests |
| `lease_race` | One chain of events per lineage, authority that stays bounded, no revocation; `ImplementsAuthority` | 2 threads, 3 authorizations and a directive, versions 0-4, two generations, one key per request |
| `lease_calls` | Answers and decided boundaries stay | 2 threads, 2 keys, 4 authorizations (one denied), a grant, renewals, a supersession, a revocation; boundaries asked at the instants 1-2 |
| `lease_converge` (violated) | An equivalent retry is refused | 2 threads, two grants, a renewal, a revocation |
| `assignment` | Approvals rest on evidence that holds at their instant and can be rebuilt; retries converge; selections are ranked as documented | dispatch: 1 thread with every kind of evidence on 2 streams, and 2 threads with 2 keys, 2 instants, versions 0-2; selection: 2 threads, 2 keys, 3 requests, versions 0-2; ranking: 3 workers with scores that meet or round together, and every reason to exclude |
| `planning` | One canonical plan per input, resting on evidence for that very request; admissions for good; acyclic numbered work; equal content has equal form | 2 planners with 2 policies, 2 keys, versions 0-2; 3 drafts, 4 verdicts; 3 callers with 4 drafts of two tenants; up to 3 steps and 3 dependencies; values two levels deep with up to two entries |
| `providers` | Jobs, batches, offers and health tell what happened, through deaths and rollbacks; runs end; fair prices rest on pairs; aliases lead to players of their name | 2 processes with 2 attempts and 3 payloads, 3 runs of one process that are answered at once, validation of lists of up to 3 of 14 records, storing of two lists of up to 2 of 14, 2 sessions with 3 names, 1 session with 4 |
| `ingestion_suppressed` (violated) | A response is suppressed that was never stored | as `providers` |
| `betting` | Open bets stay within every limit and records are for good; recommendations are the best, and a week's limit is exceeded by at most one stake for a second caller; what is sorted (movements, consensus, ranking, drawdown) follows its own order | 3 bets of one placer beside another caller who closes and settles, 2 weeks; one bet closed and settled by two; 2 callers with 2 recommendations among 2 of 5 offers, prices and confidences around each threshold, 2 weeks; ranking of 3 of 20 offers; 4 rows of 2 or 3 books |
| `research` | Nothing looks at its own future; tables and downloads are the described ones, through crashes | 2 teams, 2 players, 3 games and one of the next season; 4 teams with two games at one time; up to 3 windows over 6 instants in any order; 3 writes and 2 loads; 2 datasets of 2 seasons |

Every bound is in an MC module or a `.cfg`. A request names the version it
expects, so the set of requests bounds the histories. Two threads are enough for
each race that a compare under a lock decides: a thread meets the others only
through the committed state, which one other thread can move arbitrarily far
while it stands still. Two generations show what survives a generation and what
does not; three steps are enough for a cycle that no pair shows; two seasons and
two simultaneous games are enough to tell an order of games from an order of
times; three windows for a window between two others.

Threads, books and callers that are interchangeable are declared symmetric,
except where liveness is checked. `CHECK_DEADLOCK FALSE` is set where the system
really stops: all runs done, all bets placed, all games built.

**Fairness.** `claim_calls`: weak fairness of each thread's own steps once it is
inside the service. The code holds a lock only for straight-line sections and
waits on no condition, so a thread that is scheduled proceeds; nothing obliges a
thread to call. `providers`: weak fairness of each run's own steps, because
`asyncio.wait_for` bounds each attempt, attempts are counted, and the loop runs
what is ready; death of a run is not fair and may happen to it at any time. The
other runtime services have the same straight-line shape as Work Claim, with each
step leading to a later one or back to the caller, and no liveness run of their own.

### Divergences

What a document, a comment or a test of the repository says and the code does not
do. The first three have a run whose counterexample shows the behaviour.

1. `claim_scope`: the idempotency identity of Work Claim is operation, lineage
   and key (`work_claim/serialization.py:31`); ADR 0012:300-321 puts claimant,
   decision and semantic time in the scope. Two claimants who choose one key collide.
2. `lease_converge`: a retry that looks its identity up before an equivalent call
   commits, and loads the history afterwards (`execution_lease/service.py:253`,
   `:278`), is refused with a version conflict, although ADR 0013:389 and a test
   that races two equal requests say that equivalent retries converge. A caller that
   tries once more gets the result. Work Claim does the same
   (`work_claim/service.py:310`, `:322`; ADR 0012:345): `WorkClaim!EquivalentRetriesConverge`.
3. `ingestion_suppressed`: the batch and its hash are committed before its offers
   (`ingestion.py:171`) and stay when storing them fails, so the same response
   coming again is suppressed and never stored; README.md:145 and
   test_ingestion.py:55-57 suppress what is stored.

For the following the property is stated in its module and is not so of the
code; each was violated when it was checked on the instance of its run.

4. `DispatchDecision!LeaseEndsBeforeItsExpiry`: the dispatch policy approves at the
   very instant a lease expires (`dispatch_decision/policy.py:42`); ADR 0013:197
   makes that end exclusive.
5. `WorkerSelection!PolicyFilteredAsDocumented`, `NoEligibleWorkersAsDocumented`:
   `_outcome` (`worker_selection/evaluator.py:214`, `:225`) gives PolicyFiltered only
   when that is the one reason of all workers, and NoEligibleWorkers also when a ready
   worker is filtered; WORKER_SELECTION.md:271, :276.
6. `Ingestion!MalformedIsFailure`: an empty object is flagged as malformed and still
   passes `if not validated.offers and payload` (`ingestion.py:149`), so the run ends
   with SUCCESS; test_ingestion.py:89-96.
7. `OfferStore!FairOnlyForOpposingSides`: whether two prices oppose each other is
   computed and not used (`persistence.py:61`), so two prices of one side under two
   spellings of a book share fair probabilities; README.md:211-212.
8. `PlayerAliases!OnePlayerPerName` of two sessions: two processes that meet a
   player under two spellings insert two (`player_aliases.py:55`), and a third provider
   then gets AliasConflictError; test_player_aliases.py:17-22. It holds of one session.
9. `PaperBets!ExposureWithinLimits` of two placers: requests served together each
   pass the checks that are read before the insert (`paper_api.py:130`);
   README.md:250-252. It holds of one placer, and `betting` checks that. The stakes of
   recommendations are summed before the insert as well (`api.py:228`): with k callers a
   week may exceed its limit by k - 1 units, and by no more (`WeekWithinLimit`).
10. `PaperBets!OnlyUnsettledCount`: recording a closing line puts a settled bet back
    among the unsettled (`paper_api.py:230`); README.md:251-252.
11. `Recommendations!ThresholdFirst` with an offer that has no line: it scores 0 and
    beats every OVER line (`best_line.py:31`); README.md:215-216. It holds among
    offers with lines, and `betting` checks that.
12. `WRBaselines!LeagueMeanOfCompletedGames`: of two games at one kickoff the second
    sees the outcomes of the first in the league mean
    (`baselines/wr_receptions.py:281`), described at `:49` as of completed games.

## 4. What is proved

TLAPS checks these for every value of the constants: any number of threads,
lineages, streams, keys and requests, any catalogue of evidence, histories of any
length. All five services of the runtime that commit under a lock are covered, and, without a
lock, paper bets and the ingestion of provider data. One argument serves the services. A thread reads in one lock section, decides outside
it, and commits in another; what it holds in between is stale. So each inductive
invariant has, besides the types and the agreement of the indexes, a part that says
what a thread at each program counter holds **against what is committed by now**
(`InFlight`, `Held`, `Holds`), weak enough to survive the commits of others and
strong enough for the guard of the append to restore the rest.

### Work Claim (`WorkClaimProofs`)

* `TypeCorrect`: `Spec => []TypeOK`, with `TypeInv`, which adds `InFlight`.
* `AtomicPublication`: `Spec => []IndexesAgree`. The heart is `IndexesCommit`: under
  the guard of append, replacing all four indexes keeps them in agreement.
* `DeterministicReplay`: `Spec => []HistoriesReplay`. It needs `ReplayInv`: every
  event in flight was built, from the replay of the prefix of the length it
  expects, out of a request that the policy found legal and the evidence
  resolves. So when append compares the version under the lock, the prefix is the
  whole history and the event is exactly what a replay would decide.
* `ExclusiveAcceptance`: `Spec => []ClaimsExclude`. Exclusion alone is not
  inductive: that a second claim is accepted only when the first has ended is
  decided from the replayed state, not from the history. `Story(h, Replay(h))`
  relates the two: the derived state's last event is the history's (`Follows`),
  times only grow (`Ordered`), and every accepted claim is either the one the state
  still holds or was ended by a later event (`Settled`). `StoryExtends` shows that
  the event of any legal request continues the story; `CommitDecided` shows, from
  `ReplayInv`, that such events are all a commit can append.
* `FencesNeverRestart` and `GenerationsFollow`: `Spec => []FencesCountAcceptances`
  and `Spec => []GenerationsChain`. `Counted` says that the fence and the
  generation of the replayed state are the numbers of acceptances and openings in
  the history, and that an ended generation's end is the last event.
* `AnswersStayTrue`: `Spec => []AnswersAreCommitted`; `HistoryAppendOnly`:
  `Spec => AppendOnly`.
* `ClaimImplementsRegister`: `Spec => ImplementsRegister`, the refinement of the
  exclusive, fenced, timed register. `RegisterOf` reads the register off a history
  without the replay; by `Story` and `Counted` it agrees with the replayed state the
  policy decided from, so each commit is a step of the register and every other
  step a stutter.
* `ReplayAppend`: the replay of `Append(h, e)` is one replay step from the replay
  of `h`. The replay is a recursive function on a function space that depends on
  the history; `FoldLemmas` proves that such a function exists and is unique, by
  a least-counterexample argument.

### Execution Lease (`ExecutionLeaseProofs`)

* `DecidedReplay`: a history each of whose events was decided from the state
  before it (`DecidedHistory`) replays without an error, to the state its last
  event describes. This replaces the recursive replay by a property of
  neighbouring events, which is what the rest argues about.
* `LeaseInvariant`: `LeaseInv` has the types, the indexes, `Histories` (every
  lineage is a decided history on retained evidence), `Held` for every thread, and
  that no two threads created one event. `Pending` is the stale part: an event about
  to be appended was decided from the history of the length it expects, which is
  the present one exactly when the compare under the lock succeeds.
* From it: `LineageStaysOne` (`OneLineage`), `HistoriesAlwaysReplay`
  (`HistoriesReplay`), `AuthorityStaysBounded` (`AuthorityIsBounded`),
  `NothingIsRevoked` (`RevocationFailsClosed`), `AnswersStayTrue`
  (`AnswersAreCommitted`), `BoundariesKeepTheirAnswer` (`BoundariesStayDecided`:
  what `applicable` said of a version stays what the event there says).
* `LeaseImplementsAuthority`: `Spec => ImplementsAuthority`, the refinement.

### Dispatch Decision (`AssignmentProofs`)

A decision is made before the lock from evidence that may have grown since.
Resolving is monotone (`ResolvesMonotone`) because an identifier keeps its first
value (`RetainStep`), so evidence that resolved once goes on resolving alike, and
`DispatchInv` can say of every decision, committed or about to be, that its evidence
resolves now. `DecisionsAlwaysStand`, `ApprovalsAreWarranted`, `DecisionsAppendOnly`
and `RetriesGetTheDecision` state `DecisionsStand`, `ApprovalsWarranted`,
`AppendOnly` and `EquivalentRetriesConverge`. `FoundIsHeld` is why a decision rests on
the very artifacts it names and not only on others under their identifiers.

### Worker Selection (`AssignmentProofs`)

An evaluation is a function of a request and a version, so a selection in flight
needs no part that others could make stale; what has to be shown is that `append`
leaves its three tables in agreement and that a key joining a retained selection
joins one of its own request. `SelectionsAlwaysStand`, `SelectionsAppendOnly` and
`RetriesGetTheSelection` state `SelectionsStand`, `AppendOnly` and
`EquivalentRetriesConverge` of the instance `Sel` in `Assignment`.
`AssignmentsConverge` puts both services together: `RetriesConverge`, as the run
`assignment` checks it.

### Execution Request and Execution Plan (`ExecutionPlanProofs`)

* `AdmissionsAlwaysStand`: of the request service alone, `AdmissionsStand`;
  `AdmissionIsUndisturbed`: the composition with planners is an execution of the
  request service (`Spec => Admission!Spec`), so `AdmissionsStandWhilePlanned`,
  `AdmissionsAreForGood` and `AdmissionRetriesConverge` hold beside any number of
  planners.
* `PlanInvariant`: `derive` holds three locks one after the other. `Holds` says that a
  planner past the first holds an admitted request, and past the second a retained
  verdict that applies to it; both repositories only grow (`MoreEvidence`), so at
  the append they still do.
* From it: `PlansAlwaysStand` (`PlansStand`), `PlansAreWarranted`
  (`PlansRestOnAcceptedEvidence`), `PlansAppendOnly`, `RetriesGetThePlan`.
  `PlanningConverges` (`RetriesConverge`) is the action properties of both services
  together.
* `AcceptedWorkStaysSchedulable`: `Rules!Spec => []AcceptedWorkIsSchedulable`, in
  `Planning`, for steps and dependencies of any number. `PlanRuleResult` never looks for
  a cycle: it asks that the steps are numbered as listed, that no identifier occurs
  twice and that every dependency points forward. That this leaves no cycle is the
  least-position argument: of any set of steps still to do, the one listed first waits
  for none of the others (`WaitsForEarlier`).

### Bets and recommendations (`BettingProofs`)

`create_paper_bet` reads four times before it inserts, each time what is committed by
then, while others close and settle. With two callers placing, the limits can be passed
(Divergences, 9), so the theorem has a hypothesis: `OnePlacer`, at most one caller
places; any number close and settle.

* `OpenBetsStayWithinRules`: `OnePlacer => (Spec => []OpenBetsWithinRules)`. In the
  inductive invariant `BetInv`, `Found` says for every statement the placing call has
  passed that what it read is still an upper bound of what is open: closing and
  settling only shrink the open bets (`ShrunkFound`), nobody else inserts, and what
  the code sums, the unsettled bets, includes the open ones (`OpenIsUnsettled`), also
  when a closing line puts a settled bet back among the unsettled. So each limit that
  was checked with the stake added holds after the insert (`InsertedRules`).
* The sums are folds over sets in the order `CHOOSE` gives. `FoldLemmas` shows, by
  induction on the number of elements, that such a fold is the sum in any order;
  that it adds up, stays the same and is monotonic follows, for every table.
* `FirstRecordsStay`: `Spec => FirstRecordStays`, without `OnePlacer`: two callers may
  close or settle one bet at once, and the first row of each kind stays. The run checks it
  of one bet, `SettledBetsStand`.
* `RecommendationsAreBest`: `OffersHaveLines => (Rec!Spec => []RecommendedIsBest)`, for
  any number of callers, offers and weeks. The hypothesis is Divergence 11; only
  `ThresholdFirst` needs it. That `max` returns a best offer at all is `BestIsBest`: on
  fractions with positive denominators, cross products make "better" an order in which
  what is not beaten by an offer is not beaten by less (`BetterOrder`), so the first best of
  a list exists by induction on its length. `RatedInv` says of every request under way
  and every recommendation that its offer is not beaten by any that was there with the
  requested one, and that its rating is `Decide` of what is recorded with it; a rating is
  monotone because each reason that keeps one recommendation from it keeps a worse
  one from it (`DecisionsAreMonotone`).
* The week is the invariant `WeekInv`: what has been recommended in the present week *and
  what is about to be inserted* stay within the limit and one unit for each further
  caller. A stake that is not 0 was added to the whole sum when it was taken; the others
  pending then are at most a unit each (`SumBounded`). A week that begins has no
  recommendation yet, but may find stakes pending that were taken from the week before
  (`TickWeek`).

### Ingestion, names, offers (`IngestionProofs`)

`run_provider` commits up to four times, waits in between, and may die anywhere; runs
of other processes take steps between any two of its own.

* `TheAuditTrailIsTrue`: `Spec => []JobsTellWhatHappened`, for any number of runs and
  processes. The inductive invariant `IngestionInv` gives every run its `Story`: where
  the run is tells what its job, its batch and the lines of the batch are, before
  anything of it is told (a job that fails to persist has a batch that still claims
  rows until the final commit takes them away; a dead run keeps such a batch). Each
  statement touches only rows of its own run (`OwnBatches`, `BatchesApart`), so the
  stories of all others stay (`StoryStays`), and one lemma per statement leads its
  own story on.
* `EndedIsHistory`: `Spec => EndedJobsStay`, from the same facts: a run that is done
  takes no step, and nobody else's step reaches its rows.
* `SuppressionIsConsecutive`: `Spec => [](OneLoop => OnlyConsecutiveSuppressed)`. With
  one process, at most one run is anywhere but at an await (`OneAtATime`), so the
  digest it read is that of the latest batch until it adds its own (`SeenIsLatest`).
  Two processes may both read before either adds; hence `OneLoop`, which says of a
  state that all runs started so far are of one process.
* `HealthIsTheTale`: `Spec => [](OneLoop => HealthMatchesRuns)`. `HealthInv` adds that
  runs end at consecutive places and that a run about to end still sees its provider's
  row as it is. A success then empties the set of those that ended since the last good
  run (`SuccessTale`), a failure adds one to it (`FailureTale`).
* `RecordsAlwaysMatch`: `Spec => []RecordsMatchRuns`, which is the first, the third and
  the fourth together, as the run `providers` checks them. `EndedIsHistory` is the part of
  its `RunsEndForGood` that is not liveness.
* `NamesResolve`: `Resolution!Spec => AliasesResolve`, for any number of sessions,
  providers and names. `NamesInv` says of every session that what it has written and not
  committed fits what it sees: whoever has written anything holds SQLite's write lock
  (so nobody else commits), and what a session reads before its first write may be
  outdated only in that more is committed by then, which the unique keys of the
  insert catch. `AgreeInv` adds, while sessions follow one another, that names lead
  to one player across providers.
* `OffersStaySound`: `Offers!Spec => []StoredOffersAreSound`, for lists of records of any
  length. `Validated(rs, n, v)` relates what `validate_provider_payload` holds after `n`
  records to the records themselves: what it keeps is placed in order, its flags are those
  of the records so far and each occurs once, `seen` has their contracts, `names` the latest
  spelling of every player. One lemma leads it over a record with a defect (`DefectStep`),
  one over a sound one (`SoundStep`); `ValidationIsTrue` is the induction. A group of two
  in `persist_offers` has the offer and one other (`PairOf`), in whose group it is, so
  both have fair prices that add up to one (`PersistedPairs`).

### Research (`ResearchProofs`)

Commands that meet in files only: features and baselines (`WRBaselines`), and the three of
`ResearchPipeline`; each theorem is of one of them.

* `FeaturesAlwaysRestOnThePast`: `Spec => []FeaturesRestOnThePast`, for every schedule,
  every window and whatever was recorded of the games. The code keeps four histories and
  reads only their ends; the property speaks of sets of earlier games. `Recounts` connects
  them: a history has, of exactly the games it is about, what those games say, one after the
  other in the order of kickoff (`HistoriesTold`). `LatestAreLast` and `LastTells` turn the
  last n entries into the n latest games, `TotalOfSequence` the sum of a sequence
  into that of a set. That a row stays true while games are built after it
  (`PastStays`) is where the order of the games is needed, and that its histories held
  all of its past and nothing else when it was made (`RowMade`) is where rows come before
  histories, and where no team or player may be in two games at once.
* `BaselinesAlwaysRestOnThePast`: `SpecBaselines => []BaselinesRestOnThePast`. The second pass
  keeps histories of its own. `PassTold` says what they come to over the games predicted
  so far, in whatever order `DOMAIN` lists the receivers of a game (`GameAdds`);
  `NextPredicted` that the games before the next one are exactly these. The rows all
  baselines can predict are then those with a game this season: of the first pass by
  `FeaturesKnown`, of the second by `CareerIsOfPredicted` and `LeagueHasRows`.
* `RollingEvaluationIsHonest`: `SpecRolling => []EvaluationIsHonest`, for every list of
  windows and every table. Whether the windows are in order is looked at once, in pairs of
  neighbours, by `ConfigIsValid`; the invariant is about any two windows. `NeighboursInOrder`
  gets from one to the other by induction on the number of windows between. Then the
  windows reported so far are before the present one, what they held out lies in their
  periods, and the pooled rows cannot meet the next cohort (`RollingInv`), so
  neither of the two failures that are about windows is ever reached.
* `LoadedTablesAreDescribed`: `Dataset!Spec => LoadedTableIsTheDescribedOne`. Table and
  manifest are two files replaced one after the other, a writer may crash or raise between
  any two operations, and readers read between. The invariant says what each file and each
  temporary file can be at each place of the writer, and of a reader what it
  has read against what was there when it read: a load that succeeds compared the
  hash of the file it reads *after* the manifest.
* `DownloadsStayDescribed`: `Source!Spec => DownloadsAreDescribed`, for any list of
  datasets and seasons and any cache to start with, damaged ones included. `RunHolds` says that
  what a download holds in memory is what it has put in the cache for the seasons it has
  passed, which no later step of the same download replaces.

### Assumed

The catalogues of evidence have the declared types, requests are records of the
declared type, the kinds of dispatch artifacts are disjoint, a dispatch request
names its plan once (in its stream and by reference), limits and stakes of bets are natural numbers, no price is 0, confidence weights are natural
numbers and not all 0 (`confidence.py:28`), and `None` is none of the
values it stands beside: `CatalogueAssumption`, `LimitsAssumption`, `RecommendingAssumption`,
`RequestsAssumption`,
`PlanningAssumption`, `RulesAssumption`, `NoneAssumption`, `OutcomeAssumption`, `SelectionAssumption`,
`IngestionAssumption` (which also has finitely many runs, at least one attempt, and
offers in a payload exactly when it has rows), `ProvidersAssumption` (that every
name has a normalised form, and no session is called `None`; that payloads are lists, and odds
that are no defect have an implied probability), `PipelineAssumption` (which also has finite
tables, windows that do not end before they start, and a cache that holds at each path a
season, half of one, or nothing), `BaselinesAssumption` (two of the rolling windows) and
`GamesAssumption`: receptions and targets are natural numbers (`research/features.py:264`),
a row is of one of the two teams of its game (`:278`), and neither a team nor a
player is in two games that kick off together. The last is a fact of football and not
checked by the code, which refuses two games of a team in one week (`:297`) and nothing
more; without it the row of the later game id would have seen the other game.
TLC evaluates each of them.

### Only model-checked

* Liveness (`CallsReturn`, `RunsEndForGood`): the prover lacks `ENABLED`.
* What a recursive definition computes for every input, which needs an induction over
  data that the backends cannot instantiate: canonical forms (`SameContentSameMeaning`).
* What a sort returns (`SortSeq` and the community modules' folds of two arguments are
  opaque to the backends): the ranking of workers (`RankingAsDocumented`); movements,
  medians, the ranking of offers and the drawdown (`OrdersAreTrue`).

## 5. Not modelled

* **Feature registry**: frozen definitions checked once at import by validators over
  their own text; no operation changes it.
* **Statistical models and metrics**: regularised Poisson regression, gamma
  functions, bootstrap. Floating-point numerics have no values a model checker could
  represent; which rows reach them is in `RollingEvaluation`.
* **Database, HTTP API, CLI, migrations**: plumbing around the components above. The
  unique constraints of the schema are part of the actions that insert.
* **Building the training table** (`research/dataset.py`): one pass of column
  selection, written in place, which nothing in the repository reads back.
* **Validation of inputs** that refuses a request before anything is read (formats,
  ranges, missing fields): callers submit what passes it, except where the order of a
  refusal and a lookup matters (empty keys, altered references).
* **Two processes on one cache or dataset path**: the research commands are run by
  one person; with two, the manifest would describe the other's files.
* **ADR 0014** (execution attempts) describes what has no code yet.

## 6. Plan

Done: every component of the inventory that keeps state and changes it. Left: a
composition of Dispatch Decision with Execution Lease and Work Claim, once the code has a
caller that connects them.
