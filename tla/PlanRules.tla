------------------------------ MODULE PlanRules ------------------------------
(***************************************************************************)
(* What a planning rule may produce (app/runtime/execution_plan/rules.py):  *)
(* numbered steps, dependencies between them, capabilities and evidence, as *)
(* PlanRuleResult accepts them, and the one registered rule.                *)
(***************************************************************************)
EXTENDS Integers, Sequences, FiniteSets, SequencesExt

CONSTANTS
    None,
    StepIds,          \* step identifiers
    Capabilities,
    Evidence,         \* what a step may be derived from
    Results           \* the rule results constructed

\* PlanStep.
Step == [sequence : Nat, id : StepIds]

\* PlanDependency: refuses a step that would depend on itself.
Dependency == {d \in StepIds \X StepIds : d[1] # d[2]}

\* PlanRuleResult, as a rule hands it over.
Result == [steps : Seq(Step), dependencies : Seq(Dependency),
           capabilities : Seq(Capabilities), evidence : Seq(Evidence)]

RegisteredEvidence ==
    <<"request", "request digest", "validation", "validation digest">>

ResultsAssumption ==
    /\ Results \subseteq Result
    /\ ToSet(RegisteredEvidence) \subseteq Evidence
    /\ None \notin {"accepted", "refused"}

NoDuplicates(s) == Cardinality(ToSet(s)) = Len(s)

\* Sequence numbers are contiguous from zero, in the order of the steps.
Numbered(steps) == \A n \in DOMAIN steps : steps[n].sequence = n - 1

StepIdsOf(steps) == [n \in DOMAIN steps |-> steps[n].id]

\* Mutant: only the ends are looked up.
PointsForward_Somewhere(d, steps) ==
    {d[1], d[2]} \subseteq ToSet(StepIdsOf(steps))

\* Both ends are steps, the predecessor the earlier of the two.
PointsForward(d, steps) ==
    \E m, n \in DOMAIN steps : steps[m].id = d[1] /\ steps[n].id = d[2] /\ m < n

\* PlanRuleResult.__post_init__ does not raise.
Accepted(x) ==
    /\ x.steps # <<>>
    /\ Numbered(x.steps)
    /\ NoDuplicates(StepIdsOf(x.steps))
    /\ NoDuplicates(x.dependencies)
    /\ \A n \in DOMAIN x.dependencies : PointsForward(x.dependencies[n], x.steps)
    /\ NoDuplicates(x.capabilities)
    /\ x.evidence # <<>> /\ NoDuplicates(x.evidence)

\* The registered rule: one step, nothing to depend on, the policy's
\* capabilities, and the request and its validation as evidence.
DeterministicRuleV1(id, required) ==
    [steps |-> <<[sequence |-> 0, id |-> id]>>, dependencies |-> <<>>,
     capabilities |-> required,
     evidence |-> RegisteredEvidence]

-----------------------------------------------------------------------------

VARIABLES
    result,     \* the result a rule constructs, if any
    verdict     \* whether it was accepted

vars == <<result, verdict>>

Init == result = None /\ verdict = None

\* A rule constructs its result.
Construct(x) ==
    /\ result = None
    /\ result' = x
    /\ verdict' = IF Accepted(x) THEN "accepted" ELSE "refused"

\* A policy's required capabilities are unique (PlanningPolicy._unique_sorted).
RunRegistered(id, required) ==
    /\ result = None
    /\ NoDuplicates(required)
    /\ result' = DeterministicRuleV1(id, required)
    /\ verdict' = IF Accepted(result') THEN "accepted" ELSE "refused"

Return ==
    /\ result # None
    /\ result' = None
    /\ verdict' = None

Next ==
    \/ \E x \in Results : Construct(x)
    \/ \E id \in StepIds, required \in SeqOf(Capabilities, 2) : RunRegistered(id, required)
    \/ Return

Spec == Init /\ [][Next]_vars

-----------------------------------------------------------------------------
(* Properties                                                               *)

\* What a step waits for.
WaitsFor(x, t) == {s \in StepIds : <<s, t>> \in ToSet(x.dependencies)}

\* Accepted work can be done: whatever part of it is still to be done, a step of that
\* part waits for nothing in it, so no step waits, however indirectly, for itself.
\* It can be done in the order it is listed, in which no step is listed twice, and
\* no step waits for one that is not part of the work.
AcceptedWorkIsSchedulable ==
    verdict = "accepted" =>
       LET position == StepIdsOf(result.steps)
           work == ToSet(position)
       IN  /\ \A rest \in SUBSET work : rest # {} =>
                 \E t \in rest : WaitsFor(result, t) \cap rest = {}
           /\ \A t \in StepIds : WaitsFor(result, t) # {} =>
                 t \in work /\ WaitsFor(result, t) \subseteq work
           /\ \A m, n \in DOMAIN position :
                 /\ position[m] \in WaitsFor(result, position[n]) => m < n
                 /\ position[m] = position[n] => m = n
           /\ \A n \in DOMAIN position : result.steps[n].sequence = n - 1

\* The registered rule can plan any work of any policy: nothing it produces is
\* refused.
RegisteredRuleAccepted ==
    result # None /\ (\E id \in StepIds, required \in SeqOf(Capabilities, 2) :
        NoDuplicates(required) /\ result = DeterministicRuleV1(id, required))
    => verdict = "accepted"
=============================================================================
