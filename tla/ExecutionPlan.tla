---------------------------- MODULE ExecutionPlan ----------------------------
(***************************************************************************)
(* ExecutionPlanService over InMemoryExecutionPlanRepository, composed with *)
(* the ExecutionRequest service whose repository it reads (as its accepted  *)
(* request source) and the repository of validation evidence.  derive takes *)
(* a lock of each in turn: request, evidence, then its own, in append.      *)
(***************************************************************************)
EXTENDS Integers, Sequences, FiniteSets

CONSTANTS
    None,
    Callers, Drafts, CanonicalOf, ScopeOf, OrganizationOf, Keys, EmptyKey,
    Planners,                      \* threads calling derive and reconstruct
    Policies, Configurations,      \* planning policies and configurations
    Validations, ValidationOf,     \* evidence -> [request, digest, scope, outcome]
    Inputs                         \* what planners may submit

VARIABLES byId, byIdempotency, call      \* of ExecutionRequest

Admission == INSTANCE ExecutionRequest

VARIABLES
    evidence,        \* InMemoryRequestValidationEvidenceRepository._by_id
    streams,         \* _RepositoryState.streams
    plans,           \* _RepositoryState.by_id
    idempotency,     \* _RepositoryState.by_idempotency
    current,         \* _RepositoryState.current
    planner          \* where each planning thread is in the service

requestVars == <<byId, byIdempotency, call>>
repository == <<streams, plans, idempotency, current>>
vars == <<requestVars, evidence, repository, planner>>

\* ExecutionPlanningInput with the version and the key of the derivation.  The
\* request is named by its id, in the scope the caller states.
Input == [request : Admission!Request, scope : Admission!Scopes,
          validation : Validations, policy : Policies,
          configuration : Configurations, expected : Nat, key : Keys]

\* RequestValidationEvidence: a verdict on a request, by its id and its digest.
Verdict == [request : Admission!Request, digest : Admission!Request,
            scope : Admission!Scopes, outcome : {"Valid", "Invalid"}]

ASSUME PlanningAssumption ==
    /\ Admission!DraftAssumption
    /\ Admission!NoneAssumption
    /\ Inputs \subseteq Input
    /\ ValidationOf \in [Validations -> Verdict]

\* ExecutionPlan, what the rule makes of its canonical input.
Plan == [request : Admission!Request, validation : Validations,
         policy : Policies, configuration : Configurations]

\* ExecutionPlanRecord: a plan at its place in the stream of its request.
Record == [plan : Plan, version : Nat \ {0}]

\* plan_idempotency_identity: scope, request and key.
Identities == Admission!Request \X (Keys \ {EmptyKey})

Identity(i) == <<i.request, i.key>>

\* build_execution_plan by the registered rule.
BuildPlan(i) ==
    [request |-> i.request, validation |-> i.validation,
     policy |-> i.policy, configuration |-> i.configuration]

\* _plan_id: a digest of the canonical input.  The key of the derivation and the
\* version it expects are not part of it.
PlanId(i) == <<i.request, i.validation, i.policy, i.configuration>>

Outcome == {"Created", "ExistingEquivalent", "Reconstructed", "RequestInvalid",
            "Invalid", "IdempotencyConflict", "VersionConflict", "ReconstructionFailed",
            "ReplayDiverged", "PersistenceFailure"}

ASSUME NoneAssumption == None \notin Record /\ None \notin Input /\ None \notin Outcome

Frame(pc, input, record, outcome) ==
    [pc |-> pc, input |-> input, record |-> record, outcome |-> outcome]

Idle == Frame("idle", None, None, None)

PlannerState == [pc : {"idle", "validation", "append", "rebuild", "done"},
                 input : Input \cup {None}, record : Record \cup {None},
                 outcome : Outcome \cup {None}]

Init ==
    /\ Admission!Init
    /\ evidence = {}
    /\ streams = [r \in Admission!Request |-> <<>>]
    /\ plans = {}
    /\ idempotency = [i \in Identities |-> None]
    /\ current = [r \in Admission!Request |-> None]
    /\ planner = [p \in Planners |-> Idle]

Answer(p, outcome, record) ==
    planner' = [planner EXCEPT ![p] = Frame("done", planner[p].input, record, outcome)]

Elsewhere == UNCHANGED <<requestVars, evidence>>
ReadOnly == Elsewhere /\ UNCHANGED repository

-----------------------------------------------------------------------------
(* Evidence                                                                 *)

\* InMemoryRequestValidationEvidenceRepository.retain.  Evidence is named by a
\* digest of its content, so no two values meet under one identifier.
Retain(v) ==
    /\ v \notin evidence
    /\ evidence' = evidence \cup {v}
    /\ UNCHANGED <<requestVars, repository, planner>>

\* The retained evidence is a positive verdict on this very request.
Applies(v, r) ==
    /\ ValidationOf[v].outcome = "Valid"
    /\ ValidationOf[v].request = r
    /\ ValidationOf[v].digest = r
    /\ ValidationOf[v].scope = r.identity[1]

-----------------------------------------------------------------------------
(* derive                                                                   *)

\* accepted_requests.record and its reconstruction: only an admitted request of
\* the stated scope is planned.
LookUpRequest(p, i) ==
    /\ planner[p].pc = "idle"
    /\ planner' = [planner EXCEPT ![p] =
                     IF i.request \in byId /\ i.request.identity[1] = i.scope
                     THEN Frame("validation", i, None, None)
                     ELSE Frame("done", i, None, "RequestInvalid")]
    /\ ReadOnly

\* Mutant: the evidence is looked up, and what it says is left unread.
LookUpValidation_Unread(p) ==
    LET i == planner[p].input
    IN  /\ planner[p].pc = "validation"
        /\ IF i.validation \in evidence /\ i.key # EmptyKey
           THEN planner' = [planner EXCEPT ![p].pc = "append"]
           ELSE Answer(p, "RequestInvalid", None)
        /\ ReadOnly

\* validation_evidence.get and its checks, the identity and the plan; an empty
\* key is refused by plan_idempotency_identity.
LookUpValidation(p) ==
    LET i == planner[p].input
    IN  /\ planner[p].pc = "validation"
        /\ IF i.validation \notin evidence \/ ~Applies(i.validation, i.request)
           THEN Answer(p, "RequestInvalid", None)
           ELSE IF i.key = EmptyKey THEN Answer(p, "Invalid", None)
           ELSE planner' = [planner EXCEPT ![p].pc = "append"]
        /\ ReadOnly

Prior(p) == idempotency[Identity(planner[p].input)]

\* The record of this plan, if it was derived before under any key.
Known(p) == {x \in plans : PlanId(x.plan) = PlanId(planner[p].input)}

Version(p) == Len(streams[planner[p].input.request])

\* A candidate record accepted as the next of its stream.
Candidate(p) == [plan |-> BuildPlan(planner[p].input), version |-> Version(p) + 1]

\* Mutant: the current-plan pointer is set for the first plan only.
AppendPlan_KeepsPointer(p) ==
    LET r == planner[p].input.request
    IN  /\ planner[p].pc = "append"
        /\ Prior(p) = None /\ Known(p) = {}
        /\ planner[p].input.expected = Version(p)
        /\ streams' = [streams EXCEPT ![r] = Append(@, Candidate(p))]
        /\ plans' = plans \cup {Candidate(p)}
        /\ idempotency' = [idempotency EXCEPT ![Identity(planner[p].input)] = Candidate(p)]
        /\ current' = [current EXCEPT ![r] = IF @ = None THEN Candidate(p).plan ELSE @]
        /\ Answer(p, "Created", Candidate(p))
        /\ Elsewhere

\* repository.append of a plan not seen before, at the version it expects: the
\* four indexes are published together.
AppendPlan(p) ==
    LET r == planner[p].input.request
    IN  /\ planner[p].pc = "append"
        /\ Prior(p) = None /\ Known(p) = {}
        /\ planner[p].input.expected = Version(p)
        /\ streams' = [streams EXCEPT ![r] = Append(@, Candidate(p))]
        /\ plans' = plans \cup {Candidate(p)}
        /\ idempotency' = [idempotency EXCEPT ![Identity(planner[p].input)] = Candidate(p)]
        /\ current' = [current EXCEPT ![r] = Candidate(p).plan]
        /\ Answer(p, "Created", Candidate(p))
        /\ Elsewhere

\* repository.append of a plan already retained under another key, at the
\* version it expects: the key now leads to that record, wherever it stands in
\* the stream, and neither the stream nor the current plan changes.
AliasPlan(p) ==
    /\ planner[p].pc = "append"
    /\ Prior(p) = None
    /\ planner[p].input.expected = Version(p)
    /\ \E x \in Known(p) :
          /\ x.plan = BuildPlan(planner[p].input)
          /\ idempotency' = [idempotency EXCEPT ![Identity(planner[p].input)] = x]
          /\ Answer(p, "ExistingEquivalent", x)
    /\ UNCHANGED <<streams, plans, current>>
    /\ Elsewhere

\* _commit_state raises: the prepared state is dropped.
CommitFails(p) ==
    /\ planner[p].pc = "append"
    /\ Prior(p) = None
    /\ planner[p].input.expected = Version(p)
    /\ Answer(p, "PersistenceFailure", None)
    /\ ReadOnly

\* Mutant: the version is compared before the identity is looked up.
AppendLoses_VersionFirst(p) ==
    LET i == planner[p].input
        prior == Prior(p)
    IN  /\ planner[p].pc = "append"
        /\ \/ i.expected # Version(p) /\ Answer(p, "VersionConflict", None)
           \/ /\ i.expected = Version(p) /\ prior # None
              /\ IF prior.plan = BuildPlan(i) THEN Answer(p, "ExistingEquivalent", prior)
                 ELSE Answer(p, "IdempotencyConflict", None)
        /\ ReadOnly

\* repository.append meets an earlier commit: under its identity the same plan
\* is the answer and another a conflict; otherwise the version has moved on.
AppendLoses(p) ==
    LET i == planner[p].input
        prior == Prior(p)
    IN  /\ planner[p].pc = "append"
        /\ \/ /\ prior # None
              /\ IF prior.plan = BuildPlan(i) THEN Answer(p, "ExistingEquivalent", prior)
                 ELSE Answer(p, "IdempotencyConflict", None)
           \/ /\ prior = None /\ i.expected # Version(p)
              /\ Answer(p, "VersionConflict", None)
        /\ ReadOnly

-----------------------------------------------------------------------------
(* reconstruct                                                              *)

\* repository.record(plan_id), for an id some planner was given.
Reconstruct(p, x) ==
    /\ planner[p].pc = "idle"
    /\ x \in plans
    /\ planner' = [planner EXCEPT ![p] = Frame("rebuild", None, x, None)]
    /\ ReadOnly

\* _planning_input_from_document: what a retained plan was derived from, read
\* back from its canonical input.
PlanningInputOf(plan) ==
    [request |-> plan.request, validation |-> plan.validation,
     policy |-> plan.policy, configuration |-> plan.configuration]

\* repository.history, under a second lock, then the plan derived once more from
\* its record alone.
Rebuild(p) ==
    LET x == planner[p].record
        history == streams[x.plan.request]
    IN  /\ planner[p].pc = "rebuild"
        /\ Answer(p, IF \E n \in DOMAIN history : history[n].version # n
                     THEN "ReconstructionFailed"
                     ELSE IF BuildPlan(PlanningInputOf(x.plan)) # x.plan
                     THEN "ReplayDiverged" ELSE "Reconstructed", x)
        /\ ReadOnly

\* The call returns or raises to its caller, which may call again.
Return(p) ==
    /\ planner[p].pc = "done"
    /\ planner' = [planner EXCEPT ![p] = Idle]
    /\ ReadOnly

-----------------------------------------------------------------------------

PlannerStep(p) ==
    \/ LookUpValidation(p)
    \/ AppendPlan(p)
    \/ AliasPlan(p)
    \/ CommitFails(p)
    \/ AppendLoses(p)
    \/ Rebuild(p)
    \/ Return(p)

Next ==
    \/ Admission!Next /\ UNCHANGED <<evidence, repository, planner>>
    \/ \E v \in Validations : Retain(v)
    \/ \E p \in Planners, i \in Inputs : LookUpRequest(p, i)
    \/ \E p \in Planners : \E x \in plans : Reconstruct(p, x)
    \/ \E p \in Planners : PlannerStep(p)

Spec == Init /\ [][Next]_vars

-----------------------------------------------------------------------------
(* Properties                                                               *)

\* The types of the state.
TypeOK ==
    /\ Admission!TypeOK
    /\ evidence \subseteq Validations
    /\ streams \in [Admission!Request -> Seq(Record)]
    /\ plans \subseteq Record
    /\ idempotency \in [Identities -> Record \cup {None}]
    /\ current \in [Admission!Request -> Plan \cup {None}]
    /\ planner \in [Planners -> PlannerState]

\* Atomic publication: the four indexes describe the same plans, each at its own
\* version of the stream of its own request; every key leads to a record of its
\* request, several to one if need be, and the current plan is the last one.
IndexesAgree ==
    /\ plans = UNION {{streams[r][n] : n \in DOMAIN streams[r]} : r \in Admission!Request}
    /\ \A r \in Admission!Request :
          /\ \A n \in DOMAIN streams[r] :
                streams[r][n].version = n /\ streams[r][n].plan.request = r
          /\ current[r] = IF streams[r] = <<>> THEN None
                          ELSE streams[r][Len(streams[r])].plan
    /\ \A i \in Identities : idempotency[i] # None =>
          idempotency[i] \in plans /\ idempotency[i].plan.request = i[1]
    /\ \A x \in plans : \E i \in Identities : idempotency[i] = x

\* ADR 0009 prohibits a plan without a valid request and validation reference:
\* behind every plan stands a request the request service admitted, and retained
\* evidence that this very request is valid, whatever else was admitted, planned
\* or retained while it was derived.
PlansRestOnAcceptedEvidence ==
    \A x \in plans :
       /\ x.plan.request \in byId
       /\ x.plan.validation \in evidence
       /\ ValidationOf[x.plan.validation] =
             [request |-> x.plan.request, digest |-> x.plan.request,
              scope |-> x.plan.request.identity[1], outcome |-> "Valid"]

\* ADR 0009: concurrent equivalent planners converge on one canonical plan,
\* whatever keys they use and however long ago it was derived.
OneCanonicalPlan == \A x, y \in plans : x.plan = y.plan => x = y

\* What a planner is told stays true: the record it was given is committed, was
\* derived from its own input, and no other planner created it too.
AnswersAreCommitted ==
    /\ \A p \in Planners :
          planner[p].outcome \in {"Created", "ExistingEquivalent"} =>
             /\ planner[p].record \in plans
             /\ planner[p].record.plan = BuildPlan(planner[p].input)
    /\ \A p, q \in Planners :
          p # q /\ planner[p].outcome = "Created" /\ planner[q].outcome = "Created" =>
             planner[p].record # planner[q].record

\* Every committed plan reconstructs, even while its stream grows between the
\* two locks a reconstruction takes.
PlansReconstruct ==
    \A p \in Planners : planner[p].outcome \notin {"ReconstructionFailed", "ReplayDiverged"}

\* However planners race over keys and versions, the four indexes of the plan
\* repository agree, a canonical plan is retained once, an answer stays true and
\* every plan reconstructs (InMemoryExecutionPlanRepository.append,
\* ExecutionPlanService.reconstruct).
PlansStand ==
    TypeOK /\ IndexesAgree /\ AnswersAreCommitted /\ OneCanonicalPlan /\ PlansReconstruct

\* History is append-only: plans are never replaced or dropped, a used key never
\* leads elsewhere, and the current plan changes only by a longer history.
AppendOnly ==
    [][ /\ plans \subseteq plans'
        /\ \A r \in Admission!Request :
              /\ Len(streams[r]) <= Len(streams'[r])
              /\ SubSeq(streams'[r], 1, Len(streams[r])) = streams[r]
              /\ current'[r] # current[r] => Len(streams'[r]) = Len(streams[r]) + 1
        /\ \A i \in Identities :
              idempotency[i] # None => idempotency'[i] = idempotency[i] ]_vars

\* ADR 0009: repeating a key with identical canonical content returns the result
\* accepted before, whatever version the retry expects and however far the
\* stream has moved on.
EquivalentRetriesConverge ==
    [][ \A p \in Planners :
          planner[p].pc = "append" /\ Prior(p) # None
          /\ Prior(p).plan = BuildPlan(planner[p].input) /\ planner'[p] # planner[p] =>
             planner'[p].outcome = "ExistingEquivalent"
             /\ planner'[p].record = Prior(p) ]_vars

\* The indexes of the request repository agree and an answer stays true, whoever
\* admits or fails to, and whoever plans meanwhile
\* (InMemoryExecutionRequestRepository.admit).
AdmissionsStand == Admission!AdmissionsStand

\* History is never rewritten, in either repository, and an equivalent retry gets
\* the record or request of the call it repeats: whatever version it expects and
\* however its draft is written (append and admit look the identity up first).
RetriesConverge ==
    /\ AppendOnly /\ EquivalentRetriesConverge
    /\ Admission!AdmissionIsForGood /\ Admission!EquivalentRetriesConverge
=============================================================================
