------------------------------ MODULE Ingestion ------------------------------
(***************************************************************************)
(* IngestionService.run_provider over the tables ingestion_jobs,            *)
(* odds_snapshot_batches, prop_lines and provider_health.  A run is a task  *)
(* of one process's event loop: it gives way only while it waits for its    *)
(* provider, but processes (the API server, the CLI) interleave at every    *)
(* statement, and a run may die at any of them.                             *)
(***************************************************************************)
EXTENDS Naturals, Sequences, FiniteSetsExt

CONSTANTS
    None,
    Runs, ProcessOf,          \* runs, and the process each is a task of
    Providers, Registered,    \* provider keys, and those the registry knows
    Payloads, KindOf,         \* what a provider may answer, and what it is worth
    RowsOf,                   \* payload -> its number of valid offers
    MaxAttempts               \* provider_retry_count + 1

Kinds == {"offers",           \* some record is a valid offer
          "unusable",         \* none is, or it is no list
          "empty",            \* an empty list
          "empty malformed"}  \* falsy, but no list

Categories == {"TIMEOUT", "PROVIDER_ERROR", "DATA_QUALITY", "PERSISTENCE", "CONFIGURATION"}

\* A row of ingestion_jobs; it ends at the count of those that have ended by then.
Job == [provider : Providers, status : {"RUNNING", "SUCCESS", "DUPLICATE_SUPPRESSED", "FAILED"},
        ended : Nat, attempts : Nat, rows : Nat, category : Categories \cup {None}]

\* A row of provider_health, of the columns that results add up to.
Health == [status : {"HEALTHY", "DEGRADED", "DOWN"}, failures : Nat, successes : Nat,
           records : Nat]

ASSUME IngestionAssumption ==
    /\ Registered \subseteq Providers
    /\ KindOf \in [Payloads -> Kinds]
    /\ RowsOf \in [Payloads -> Nat]
    /\ \A p \in Payloads : KindOf[p] = "offers" <=> RowsOf[p] > 0
    /\ MaxAttempts \in Nat \ {0}
    /\ IsFiniteSet(Runs)
    /\ None \notin Payloads \cup {"no offers"} /\ None \notin Job \cup Health

VARIABLES
    jobs,       \* ingestion_jobs, by the run that made each
    batches,    \* odds_snapshot_batches in the order they were captured
    lines,      \* prop_lines: batch -> how many were stored for it
    health,     \* provider_health
    run         \* where each run is in run_provider

vars == <<jobs, batches, lines, health, run>>

\* What a run remembers: its provider, the attempts made, the payload, the batch
\* it added, the row it found for comparison, and why it fails.
Frame(pc, provider, attempts, payload, batch, seen, category) ==
    [pc |-> pc, provider |-> provider, attempts |-> attempts, payload |-> payload,
     batch |-> batch, seen |-> seen, category |-> category]

Idle == Frame("idle", None, 0, None, 0, None, None)

Init ==
    /\ jobs = [r \in Runs |-> None]
    /\ batches = <<>>
    /\ lines = <<>>
    /\ health = [p \in Providers |-> None]
    /\ run = [r \in Runs |-> Idle]

\* The event loop is at r's disposal: no other task is between two awaits.
Scheduled(r) ==
    \A q \in Runs \ {r} : ProcessOf[q] = ProcessOf[r] =>
        run[q].pc \in {"idle", "fetch", "done", "dead"}

At(r, pc) == run[r].pc = pc /\ Scheduled(r)

Goto(r, frame) == run' = [run EXCEPT ![r] = frame]

-----------------------------------------------------------------------------
(* Fetching                                                                 *)

\* The RUNNING job is committed, then the provider is looked up.
Start(r, provider) ==
    /\ At(r, "idle")
    /\ jobs' = [jobs EXCEPT ![r] = [provider |-> provider, status |-> "RUNNING", ended |-> 0,
                                    attempts |-> 0, rows |-> 0, category |-> None]]
    /\ Goto(r, IF provider \in Registered
               THEN Frame("fetch", provider, 0, None, 0, None, None)
               ELSE Frame("fail", provider, 0, None, 0, None, "CONFIGURATION"))
    /\ UNCHANGED <<batches, lines, health>>

\* An answer in time ends the attempts: without one valid offer, and yet not
\* empty, it is a failure.
Answered(r, payload) ==
    /\ At(r, "fetch")
    /\ Goto(r, LET f == [run[r] EXCEPT !.attempts = @ + 1, !.payload = payload]
               IN  IF KindOf[payload] = "unusable"
                   THEN [f EXCEPT !.pc = "fail", !.category = "DATA_QUALITY"]
                   ELSE [f EXCEPT !.pc = "compare"])
    /\ UNCHANGED <<jobs, batches, lines, health>>

\* Mutant: a timeout starts the attempts over.
Unanswered_Forever(r, category) ==
    /\ At(r, "fetch")
    /\ Goto(r, LET f == [run[r] EXCEPT !.attempts = IF category = "TIMEOUT" THEN 0 ELSE @ + 1,
                                       !.category = category]
               IN  [f EXCEPT !.pc = IF f.attempts = MaxAttempts THEN "fail" ELSE "fetch"])
    /\ UNCHANGED <<jobs, batches, lines, health>>

\* An attempt times out or raises: the next one follows, or the failure.
Unanswered(r, category) ==
    /\ At(r, "fetch")
    /\ Goto(r, LET f == [run[r] EXCEPT !.attempts = @ + 1, !.category = category]
               IN  [f EXCEPT !.pc = IF f.attempts = MaxAttempts THEN "fail" ELSE "fetch"])
    /\ UNCHANGED <<jobs, batches, lines, health>>

-----------------------------------------------------------------------------
(* Storing                                                                  *)

\* _payload_hash: a payload stands for its valid offers in any order.
Digest(payload) == IF KindOf[payload] = "offers" THEN payload ELSE "no offers"

\* The batches of a provider, oldest first, by their places.
BatchesOf(provider) == {n \in DOMAIN batches : batches[n].provider = provider}

LatestDigest(r) ==
    LET own == BatchesOf(run[r].provider)
    IN  IF own = {} THEN None
        ELSE batches[CHOOSE n \in own : \A m \in own : m <= n].digest

\* The latest batch is read.
Compare(r) ==
    /\ At(r, "compare")
    /\ Goto(r, [run[r] EXCEPT !.pc = "batch", !.seen = LatestDigest(r)])
    /\ UNCHANGED <<jobs, batches, lines, health>>

\* The batch is committed, as a duplicate or with the rows it is about to have.
AddBatch(r) ==
    LET digest == Digest(run[r].payload)
        duplicate == digest = run[r].seen
    IN  /\ At(r, "batch")
        /\ batches' = Append(batches, [job |-> r, provider |-> run[r].provider, digest |-> digest,
                                       duplicate |-> duplicate,
                                       rows |-> IF duplicate THEN 0 ELSE RowsOf[run[r].payload]])
        /\ lines' = Append(lines, 0)
        /\ Goto(r, [run[r] EXCEPT !.pc = IF duplicate THEN "complete" ELSE "persist",
                                  !.batch = Len(batches) + 1])
        /\ UNCHANGED <<jobs, health>>

\* persist_offers stores all offers of the batch in one transaction,
Persist(r) ==
    /\ At(r, "persist")
    /\ lines' = [lines EXCEPT ![run[r].batch] = RowsOf[run[r].payload]]
    /\ Goto(r, [run[r] EXCEPT !.pc = "complete"])
    /\ UNCHANGED <<jobs, batches, health>>

\* or raises and stores none.
PersistFails(r) ==
    /\ At(r, "persist")
    /\ Goto(r, [run[r] EXCEPT !.pc = "fail", !.category = "PERSISTENCE"])
    /\ UNCHANGED <<jobs, batches, lines, health>>

-----------------------------------------------------------------------------
(* The final transaction                                                    *)

Fresh == [status |-> "HEALTHY", failures |-> 0, successes |-> 0, records |-> 0]

\* _health: the provider's row is read, to be written at the commit.
ReadHealth(r) ==
    /\ run[r].pc \in {"complete", "fail"} /\ Scheduled(r)
    /\ Goto(r, [run[r] EXCEPT !.pc = IF @ = "fail" THEN "failing" ELSE "completing",
                              !.seen = health[run[r].provider]])
    /\ UNCHANGED <<jobs, batches, lines, health>>

\* The row to be inserted is there by now: its unique key makes the flush raise,
\* out of run_provider.
HealthCollides(r) ==
    /\ run[r].pc \in {"completing", "failing"} /\ Scheduled(r)
    /\ run[r].seen = None /\ health[run[r].provider] # None
    /\ Goto(r, [run[r] EXCEPT !.pc = "dead"])
    /\ UNCHANGED <<jobs, batches, lines, health>>

Unchallenged(r) == run[r].seen # None \/ health[run[r].provider] = None

Read(r) == IF run[r].seen = None THEN Fresh ELSE run[r].seen

Ended == {r \in Runs : jobs[r] # None /\ jobs[r].ended # 0}

\* _record_success
Recovered(h, records) ==
    [status |-> "HEALTHY", failures |-> 0, successes |-> h.successes + 1, records |-> records]

\* _record_failure
Worsened(h) ==
    [h EXCEPT !.failures = @ + 1, !.status = IF h.failures + 1 >= 3 THEN "DOWN" ELSE "DEGRADED"]

\* The job ends with SUCCESS or DUPLICATE_SUPPRESSED, and the provider is healthy.
Complete(r) ==
    LET duplicate == batches[run[r].batch].duplicate
    IN  /\ At(r, "completing") /\ Unchallenged(r)
        /\ jobs' = [jobs EXCEPT ![r] = [@ EXCEPT
               !.status = IF duplicate THEN "DUPLICATE_SUPPRESSED" ELSE "SUCCESS",
               !.ended = Cardinality(Ended) + 1, !.attempts = run[r].attempts,
               !.rows = IF duplicate THEN 0 ELSE RowsOf[run[r].payload]]]
        /\ health' = [health EXCEPT ![run[r].provider] =
                         Recovered(Read(r), RowsOf[run[r].payload])]
        /\ Goto(r, [run[r] EXCEPT !.pc = "done"])
        /\ UNCHANGED <<batches, lines>>

\* Mutant: the batch of offers that were not stored keeps its row count.
Fail_KeepsRows(r) ==
    /\ At(r, "failing") /\ Unchallenged(r)
    /\ jobs' = [jobs EXCEPT ![r] = [@ EXCEPT
           !.status = "FAILED", !.ended = Cardinality(Ended) + 1,
           !.attempts = run[r].attempts, !.category = run[r].category]]
    /\ health' = [health EXCEPT ![run[r].provider] = Worsened(Read(r))]
    /\ Goto(r, [run[r] EXCEPT !.pc = "done"])
    /\ UNCHANGED <<batches, lines>>

\* The job ends with FAILED: a batch whose offers were not stored loses its rows.
Fail(r) ==
    /\ At(r, "failing") /\ Unchallenged(r)
    /\ jobs' = [jobs EXCEPT ![r] = [@ EXCEPT
           !.status = "FAILED", !.ended = Cardinality(Ended) + 1,
           !.attempts = run[r].attempts, !.category = run[r].category]]
    /\ batches' = IF run[r].category = "PERSISTENCE"
                  THEN [batches EXCEPT ![run[r].batch].rows = 0] ELSE batches
    /\ health' = [health EXCEPT ![run[r].provider] = Worsened(Read(r))]
    /\ Goto(r, [run[r] EXCEPT !.pc = "done"])
    /\ UNCHANGED lines

\* The process stops, its loop is shut down, or a transaction that run_provider
\* does not guard raises: nothing ever looks at the job again.
Die(r) ==
    /\ run[r].pc \notin {"idle", "done", "dead"}
    /\ Goto(r, [run[r] EXCEPT !.pc = "dead"])
    /\ UNCHANGED <<jobs, batches, lines, health>>

-----------------------------------------------------------------------------

RunStep(r) ==
    \/ \E p \in Payloads : Answered(r, p)
    \/ \E c \in {"TIMEOUT", "PROVIDER_ERROR"} : Unanswered(r, c)
    \/ Compare(r) \/ AddBatch(r) \/ Persist(r) \/ PersistFails(r)
    \/ ReadHealth(r) \/ HealthCollides(r) \/ Complete(r) \/ Fail(r)

Next ==
    \E r \in Runs : (\E p \in Providers : Start(r, p)) \/ RunStep(r) \/ Die(r)

\* asyncio.wait_for bounds each attempt, and the loop runs what is ready.
Fairness == \A r \in Runs : WF_vars(RunStep(r))

Spec == Init /\ [][Next]_vars

(* Properties                                                               *)

BatchOf(r) == {n \in DOMAIN batches : batches[n].job = r}

\* The audit trail is true: what a job's status, rows and error say of its run is
\* what the tables hold, for any interleaving of processes, failures and deaths;
\* only a run that died leaves a batch that claims rows nobody stored.
JobsTellWhatHappened ==
    \A r \in Runs : jobs[r] # None =>
       LET own == BatchOf(r)
           stored == SumSet({lines[n] : n \in own})
       IN  /\ Cardinality(own) <= 1
           /\ jobs[r].status = "SUCCESS" =>
                 /\ \E n \in own : ~batches[n].duplicate /\ batches[n].rows = jobs[r].rows
                 /\ stored = jobs[r].rows
           /\ jobs[r].status = "DUPLICATE_SUPPRESSED" =>
                 stored = 0 /\ \E n \in own : batches[n].duplicate /\ batches[n].rows = 0
           /\ jobs[r].status = "FAILED" =>
                 /\ stored = 0 /\ jobs[r].rows = 0 /\ \A n \in own : batches[n].rows = 0
                 /\ own # {} <=> jobs[r].category = "PERSISTENCE"
                 /\ jobs[r].category \in {"TIMEOUT", "PROVIDER_ERROR"} =>
                       jobs[r].attempts = MaxAttempts
           /\ jobs[r].status = "RUNNING" => run[r].pc # "done"

\* Of the batches of one provider, those and only those that repeat the one
\* before are suppressed, however the waiting tasks of a process interleave.
OnlyConsecutiveSuppressed ==
    \A n \in DOMAIN batches :
       LET before == {m \in BatchesOf(batches[n].provider) : m < n}
       IN  batches[n].duplicate <=>
              before # {} /\ batches[Max(before)].digest = batches[n].digest

EndedOf(provider) == {r \in Ended : jobs[r].provider = provider}

\* The health of a provider is the tale of its ended runs, in the order they
\* ended: how many succeeded, how many failed in a row, DOWN from the third on.
HealthMatchesRuns ==
    \A p \in Providers :
       LET good == {r \in EndedOf(p) : jobs[r].status # "FAILED"}
           last == Max({0} \cup {jobs[r].ended : r \in good})
           failures == Cardinality({r \in EndedOf(p) : jobs[r].ended > last})
       IN  IF EndedOf(p) = {} THEN health[p] = None
           ELSE /\ health[p].successes = Cardinality(good)
                /\ health[p].failures = failures
                /\ health[p].status = CASE failures = 0 -> "HEALTHY"
                                        [] failures \in {1, 2} -> "DEGRADED"
                                        [] OTHER -> "DOWN"

\* Every run so far is a task of one event loop.
OneLoop ==
    \A q, r \in Runs : run[q].pc # "idle" /\ run[r].pc # "idle" => ProcessOf[q] = ProcessOf[r]

\* The records are those of what happened: the audit trail whatever processes run, and
\* within one process also which batches are suppressed and the health of providers
\* (IngestionService.run_provider; two processes may both read before either writes).
RecordsMatchRuns ==
    /\ JobsTellWhatHappened
    /\ OneLoop => OnlyConsecutiveSuppressed /\ HealthMatchesRuns

\* A job that has ended, its batch and the lines stored for it are history.
EndedJobsStay ==
    [][ \A r \in Ended :
          /\ jobs'[r] = jobs[r]
          /\ \A n \in BatchOf(r) : batches'[n] = batches[n] /\ lines'[n] = lines[n] ]_vars

\* A started job does not stay RUNNING unless its run dies: attempts are bounded.
RunsEnd ==
    \A r \in Runs : run[r].pc \notin {"idle", "done", "dead"} ~> run[r].pc \in {"done", "dead"}

\* README and test: an unchanged response is suppressed because its offers are
\* stored already.
SuppressedOffersAreStored ==
    \A r \in Runs : jobs[r] # None /\ jobs[r].status = "DUPLICATE_SUPPRESSED" =>
       \E n \in DOMAIN batches : batches[n].digest = Digest(run[r].payload)
                                 /\ lines[n] = RowsOf[run[r].payload]

\* Test: a malformed payload is recorded as a failure of data quality.
\* Not so of this code: README, Divergences.
MalformedIsFailure ==
    \A r \in Ended : run[r].payload # None /\ KindOf[run[r].payload] \in {"unusable", "empty malformed"}
       => jobs[r].status = "FAILED" /\ jobs[r].category = "DATA_QUALITY"
=============================================================================
