------------------------------- MODULE Planning -------------------------------
(***************************************************************************)
(* What turns a draft into a plan: the plan service (the module extended)   *)
(* and the rule that makes the plan's steps.  The rule is a function of a   *)
(* plan's canonical input: it keeps nothing, and what it may return is      *)
(* decided where the result is constructed.                                 *)
(***************************************************************************)
EXTENDS ExecutionPlan

CONSTANTS StepIds, Capabilities, Evidence, Results      \* of PlanRules

VARIABLES rule_result, rule_verdict

Rules == INSTANCE PlanRules WITH result <- rule_result, verdict <- rule_verdict

ASSUME RulesAssumption == Rules!ResultsAssumption

-----------------------------------------------------------------------------

\* A result PlanRuleResult accepts can be done in the order it lists, and what
\* the registered rule produces is accepted (PlanRuleResult.__post_init__,
\* deterministic_rule_v1).
AcceptedWorkIsSchedulable == Rules!AcceptedWorkIsSchedulable /\ Rules!RegisteredRuleAccepted
=============================================================================
