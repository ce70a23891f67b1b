--------------------------- MODULE SelectionPolicy ---------------------------
(***************************************************************************)
(* The pure half of app/runtime/worker_selection: which workers a request's *)
(* readiness evidence makes eligible, how they are scored and ranked, and   *)
(* what the selection is called when none is left.                          *)
(***************************************************************************)
EXTENDS Integers, Sequences, FiniteSetsExt, SequencesExt

CONSTANTS
    None,
    Streams,          \* (organization, workload context)
    Capabilities,
    Weights,          \* score component -> its weight, SCORING_POLICY_V1
    Unit, One,        \* raw scores are in Unit-ths of the last kept digit; One is 1.0
    References        \* readiness references

Components == DOMAIN Weights

ScoreAssumption ==
    /\ Weights \in [Components -> Nat]
    /\ Unit \in Nat \ {0} /\ One \in Nat /\ One % Unit = 0

\* WorkerReadinessEvidence.  Worker ids are numbered in the order of their UUIDs.
Evidence == [worker : Nat, reference : References, stream : Streams, intact : BOOLEAN,
             supported : BOOLEAN, evaluated : Nat, expires : Nat, ready : BOOLEAN,
             capabilities : SUBSET Capabilities, policy : {"pass", "fail", "unknown"},
             consistent : BOOLEAN, scores : UNION {[S -> Nat] : S \in SUBSET Components}]

\* WorkerSelectionRequest: readiness is kept in the order of worker ids, however
\* it was given.
SelectionRequest(stream, plan, required, readiness, boundary) ==
    [stream |-> stream, plan |-> plan, required |-> required,
     readiness |-> SortSeq(readiness, LAMBDA e, f : e.worker < f.worker),
     boundary |-> boundary]

\* The content of selection_id: references stand for the evidence, and what the
\* work requires is left out.
SelectionId(r) ==
    <<r.stream, r.plan, r.boundary,
      [n \in DOMAIN r.readiness |-> r.readiness[n].reference]>>

-----------------------------------------------------------------------------
(* Eligibility                                                              *)

\* _exclusion_reasons
Reasons(r, e) ==
    {x \in {"ORGANIZATION_OR_WORKLOAD_MISMATCH"} : e.stream # r.stream}
    \cup {x \in {"REQUIRED_EVIDENCE_INVALID"} : ~e.intact}
    \cup {x \in {"READINESS_VERSION_UNSUPPORTED"} : ~e.supported}
    \cup {x \in {"READINESS_EXPIRED"} : e.expires < r.boundary}
    \cup {x \in {"WORKER_NOT_READY"} : ~e.ready}
    \cup {x \in {"REQUIRED_CAPABILITY_MISSING"} : ~(r.required \subseteq e.capabilities)}
    \cup {x \in {"HARD_POLICY_EVIDENCE_UNAVAILABLE"} : e.policy = "unknown"}
    \cup {x \in {"HARD_POLICY_FILTERED"} : e.policy = "fail"}
    \cup {x \in {"CONTRADICTORY_EVIDENCE"} : ~e.consistent}

AllReasons(r) == UNION {Reasons(r, r.readiness[n]) : n \in DOMAIN r.readiness}

Eligible(r) == SelectSeq(r.readiness, LAMBDA e : Reasons(r, e) = {})

\* _validate_request, and score evidence outside [0, 1]; the scores of a worker
\* that is excluded are never read.
Valid(r) ==
    /\ \A m, n \in DOMAIN r.readiness :
          r.readiness[m].worker = r.readiness[n].worker => m = n
    /\ \A n \in DOMAIN Eligible(r) : LET e == Eligible(r)[n] IN
          \A c \in DOMAIN e.scores : e.scores[c] <= One

-----------------------------------------------------------------------------
(* Score and rank                                                           *)

\* Mutant: halves are rounded up.
RoundHalfEven_Up(n) == (2 * n + Unit) \div (2 * Unit)

\* quantize(SCALE, ROUND_HALF_EVEN)
RoundHalfEven(n) ==
    LET q == n \div Unit
        rest == 2 * (n % Unit)
    IN  IF rest > Unit \/ (rest = Unit /\ q % 2 = 1) THEN q + 1 ELSE q

\* score_components: each normalised score rounded once and weighted by an
\* integer; a component nothing is known about scores nothing.
Weighted(e, c) == IF c \in DOMAIN e.scores THEN Weights[c] * RoundHalfEven(e.scores[c]) ELSE 0

Score(e) == MapThenSumSet(LAMBDA c : Weighted(e, c), Components)

\* Highest score, then oldest readiness, then lowest worker id.
RanksBefore(e, f) ==
    \/ Score(e) > Score(f)
    \/ Score(e) = Score(f) /\ e.evaluated < f.evaluated
    \/ Score(e) = Score(f) /\ e.evaluated = f.evaluated /\ e.worker < f.worker

Candidates(r) == SortSeq(Eligible(r), RanksBefore)

Unavailable == {"ORGANIZATION_OR_WORKLOAD_MISMATCH", "REQUIRED_EVIDENCE_INVALID",
                "READINESS_VERSION_UNSUPPORTED", "READINESS_EXPIRED",
                "REQUIRED_CAPABILITY_MISSING"}

\* _outcome, from the reasons of all workers together.
SelectionOutcome(r) ==
    CASE Eligible(r) # <<>> -> "CandidateFound"
      [] OTHER ->
         IF "CONTRADICTORY_EVIDENCE" \in AllReasons(r) THEN "Indeterminate"
         ELSE IF "HARD_POLICY_EVIDENCE_UNAVAILABLE" \in AllReasons(r) THEN "EvidenceUnavailable"
         ELSE IF AllReasons(r) = {"HARD_POLICY_FILTERED"} THEN "PolicyFiltered"
         ELSE IF AllReasons(r) \cap Unavailable # {} THEN "EvidenceUnavailable"
         ELSE "NoEligibleWorkers"

\* WorkerSelectionEvaluator.evaluate.  covers is the version under the canonical
\* hash, which append leaves as it was computed.
Evaluate(r, version) ==
    [request |-> r, version |-> version, covers |-> version, outcome |-> SelectionOutcome(r),
     candidates |-> [n \in DOMAIN Candidates(r) |-> Candidates(r)[n].worker]]
=============================================================================
