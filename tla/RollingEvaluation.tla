------------------------- MODULE RollingEvaluation -------------------------
(***************************************************************************)
(* evaluate_wr_poisson_rolling: a configuration of held-out windows is     *)
(* validated, then for each window a model is trained on everything from   *)
(* the fixed start to just before the window and compared with the best    *)
(* baseline on the window's rows; the rows of all windows are pooled.      *)
(* What models and metrics compute is left out: the cohorts they are       *)
(* computed on are what is modelled.  One time unit is one microsecond.    *)
(***************************************************************************)
EXTENDS Integers, FiniteSetsExt, SequencesExt

CONSTANTS
    Configs,        \* [training_start, windows], a window is [id, start, end]
    Tables,         \* feature tables: sets of [key, kickoff, complete, shared]
    MinimumTrainingRows,
    MinimumEvaluationRows

\* A row is complete when no model feature of it is null, shared when every
\* baseline has a prediction for it.  A window does not end before it starts
\* (EvaluationPeriod), and a table has finitely many rows.
RollingAssumption ==
    /\ MinimumTrainingRows \in Nat \ {0} /\ MinimumEvaluationRows \in Nat \ {0}
    /\ \A c \in Configs :
          LET ids == {c.windows[i].id : i \in DOMAIN c.windows}
          IN  /\ c.training_start \in Int
              /\ c.windows \in Seq([id : ids, start : Int, end : Int])
              /\ \A i \in DOMAIN c.windows : c.windows[i].start <= c.windows[i].end
    /\ \A t \in Tables : IsFiniteSet(t) /\ \A r \in t : r.kickoff \in Int

VARIABLES
    config,
    table,
    phase,          \* "submitted" | "running" | "reported" | "rejected" | "failed"
    error,
    results,        \* by window: [trained, held_out, learned, baseline]
    pooled          \* the keys pooled so far

rolling_vars == <<config, table, phase, error, results, pooled>>

InitRolling ==
    /\ config \in Configs
    /\ table \in Tables
    /\ phase = "submitted"
    /\ error = "none"
    /\ results = <<>>
    /\ pooled = {}

-----------------------------------------------------------------------------

Canonical(v, w) ==
    \/ v.start < w.start
    \/ v.start = w.start /\ v.end < w.end
    \/ v.start = w.start /\ v.end = w.end /\ v.id <= w.id

\* Mutant: the order of the windows is not looked at.
ConfigIsValid_AnyOrder(c) ==
    LET n == Len(c.windows)
    IN  /\ n > 0
        /\ \A i, j \in 1 .. n : c.windows[i].id = c.windows[j].id => i = j
        /\ \A i \in 1 .. n : c.training_start < c.windows[i].start

\* validate_windows
ConfigIsValid(c) ==
    LET n == Len(c.windows)
    IN  /\ n > 0
        /\ \A i, j \in 1 .. n : c.windows[i].id = c.windows[j].id => i = j
        /\ \A i \in 1 .. n : c.training_start < c.windows[i].start
        /\ \A i \in 1 .. n - 1 :
              /\ Canonical(c.windows[i], c.windows[i + 1])
              /\ c.windows[i].end < c.windows[i + 1].start

Validate ==
    /\ phase = "submitted"
    /\ phase' = IF ConfigIsValid(config) THEN "running" ELSE "rejected"
    /\ UNCHANGED <<config, table, error, results, pooled>>

-----------------------------------------------------------------------------

\* _period_for_window
TrainingPeriod(n) == [start |-> config.training_start, end |-> config.windows[n].start - 1]

Within(period) == {r \in table : period.start <= r.kickoff /\ r.kickoff <= period.end}

Complete(rows) == {r \in rows : r.complete}

\* chronological_model_split
Training(n) == Within(TrainingPeriod(n))
Evaluation(n) == Within(config.windows[n])

\* build_governed_baseline_cohort: rows of the period, joined with the eligible keys,
\* that every baseline can predict.
GovernedCohort(n) == {r \in Evaluation(n) : r \in Complete(Evaluation(n)) /\ r.shared}

\* fit_and_evaluate_wr_poisson
LearnedCohort(n) == {r \in Evaluation(n) : r \in GovernedCohort(n)}

\* _ordered_window_inputs
WindowCohort(n) == {r \in Complete(Evaluation(n)) : r \in GovernedCohort(n)}

\* The checks along the way, in their order; "none" when all are passed.
FirstError(n) ==
    IF TrainingPeriod(n).end >= config.windows[n].start THEN "training must end first"
    ELSE IF Training(n) = {} THEN "empty training cohort"
    ELSE IF Evaluation(n) = {} THEN "empty evaluation cohort"
    ELSE IF Cardinality(Complete(Training(n))) < MinimumTrainingRows THEN "too few training rows"
    ELSE IF Complete(Evaluation(n)) = {} THEN "no eligible evaluation rows"
    ELSE IF Cardinality(GovernedCohort(n)) < MinimumEvaluationRows THEN "too few shared rows"
    ELSE IF pooled \cap WindowCohort(n) # {} THEN "duplicate held-out rows"
    ELSE "none"

Window == Len(results) + 1

EvaluateWindow ==
    /\ phase = "running" /\ Window <= Len(config.windows)
    /\ FirstError(Window) = "none"
    /\ results' = Append(results,
          [trained |-> Complete(Training(Window)), held_out |-> WindowCohort(Window),
           learned |-> LearnedCohort(Window), baseline |-> GovernedCohort(Window)])
    /\ pooled' = pooled \cup WindowCohort(Window)
    /\ UNCHANGED <<config, table, phase, error>>

\* Any exception ends the evaluation: no scorecard is made of the windows done.
Fail ==
    /\ phase = "running" /\ Window <= Len(config.windows)
    /\ FirstError(Window) # "none"
    /\ phase' = "failed"
    /\ error' = FirstError(Window)
    /\ UNCHANGED <<config, table, results, pooled>>

\* The model does not converge, or is numerically unsound on these rows (ModelFitError): found
\* once there are rows to train on, before or after the cohorts to judge it on are made.
FailToFit ==
    /\ phase = "running" /\ Window <= Len(config.windows)
    /\ FirstError(Window) \notin {"training must end first", "empty training cohort",
                                 "empty evaluation cohort", "too few training rows"}
    /\ phase' = "failed"
    /\ error' = "model not fitted"
    /\ UNCHANGED <<config, table, results, pooled>>

Report ==
    /\ phase = "running" /\ Window > Len(config.windows)
    /\ phase' = "reported"
    /\ UNCHANGED <<config, table, error, results, pooled>>

NextRolling == Validate \/ EvaluateWindow \/ Fail \/ FailToFit \/ Report

SpecRolling == InitRolling /\ [][NextRolling]_rolling_vars

-----------------------------------------------------------------------------

\* No model has seen, when it is judged, any row it is judged on or any later one: what is
\* held out in a window was in no training set up to that window's (docs/wr-poisson-model.md,
\* _period_for_window, rolling.py:259-265; chronological_model_split).
HeldOutRowsAreUnseen ==
    \A j \in DOMAIN results : \A i \in 1 .. j :
        /\ results[i].trained \cap results[j].held_out = {}
        /\ \A r \in results[i].trained, s \in results[j].held_out : r.kickoff < s.kickoff

\* The windows expand: each model is trained on all that the models before it were trained
\* on and on all they were judged on (rolling.py:259-265, 335-342).
TrainingExpands ==
    \A j \in DOMAIN results : \A i \in 1 .. j - 1 :
        results[i].trained \cup results[i].held_out \subseteq results[j].trained

\* A configuration that was accepted cannot fail for its windows: the periods never turn
\* out to overlap nor a row to be held out twice halfway through the evaluation
\* (validate_windows, rolling.py:66-95; rolling.py:388-390).
AcceptedWindowsAreChronological ==
    error \notin {"training must end first", "duplicate held-out rows"}

\* The learned model and the baseline are measured on the same rows, worked out three
\* times over, and the pooled metrics count every one of them once (rolling.py:268-310,
\* 391-394; learned.py:142-180).
CohortsAreTheSame ==
    /\ \A i \in DOMAIN results :
          results[i].learned = results[i].held_out /\ results[i].baseline = results[i].held_out
    /\ Cardinality(pooled) =
          FoldSeq(LAMBDA w, n : Cardinality(w.held_out) + n, 0, results)
    /\ phase = "reported" => \A i \in DOMAIN results : results[i].held_out # {}
=============================================================================
