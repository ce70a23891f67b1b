---------------------------- MODULE ResearchProofs ----------------------------
(***************************************************************************)
(* Proofs about the research commands: what rolling evaluation trains on   *)
(* and what it judges, what a loaded feature dataset is while another is   *)
(* written or a writer dies, what a download leaves in the cache, and that *)
(* features and baselines rest on earlier games and on all of them.        *)
(***************************************************************************)
EXTENDS WRBaselines, ResearchPipeline, FoldLemmas, SequenceTheorems

-----------------------------------------------------------------------------
(* Rolling evaluation                                                       *)

\* The windows of a configuration that was accepted follow one another, after the
\* start of training.
Chronological(c) ==
    /\ \A i, j \in DOMAIN c.windows : i < j => c.windows[i].end < c.windows[j].start
    /\ \A i \in DOMAIN c.windows : c.training_start < c.windows[i].start

\* What a window of this configuration and table contributes: no other window
\* has a part in it.
Evaluated(n) ==
    [trained |-> Complete(Training(n)), held_out |-> WindowCohort(n),
     learned |-> LearnedCohort(n), baseline |-> GovernedCohort(n)]

\* Every pooled row kicked off before the window that comes next.
PooledBefore ==
    Window <= Len(config.windows) =>
        \A r \in pooled : r.kickoff < config.windows[Window].start

\* The sum the pooled rows are counted against.
HeldOutRows(s) == FoldSeq(LAMBDA w, n : Cardinality(w.held_out) + n, 0, s)

\* What a window contributes is made of rows of the table.
Cohorts(t) ==
    [trained : SUBSET t, held_out : SUBSET t, learned : SUBSET t, baseline : SUBSET t]

RollingTyped ==
    /\ config \in Configs /\ table \in Tables
    /\ phase \in {"submitted", "running", "reported", "rejected", "failed"}
    /\ results \in Seq(Cohorts(table))
    /\ Len(results) <= Len(config.windows)
    /\ pooled \in SUBSET table

RollingInv ==
    /\ RollingTyped
    /\ phase = "submitted" => results = <<>> /\ pooled = {}
    /\ phase = "running" => Chronological(config) /\ PooledBefore
    /\ results # <<>> => Chronological(config)
    /\ \A i \in DOMAIN results : results[i] = Evaluated(i)
    /\ \A i \in DOMAIN results : results[i].held_out # {}
    /\ Cardinality(pooled) = HeldOutRows(results)
    /\ AcceptedWindowsAreChronological

\* What is assumed of a configuration and of a table, as facts of the ones a
\* behaviour has.
LEMMA ConfigFacts ==
    ASSUME config \in Configs, table \in Tables
    PROVE  /\ MinimumTrainingRows \in Nat \ {0} /\ MinimumEvaluationRows \in Nat \ {0}
           /\ config.training_start \in Int
           /\ Len(config.windows) \in Nat
           /\ DOMAIN config.windows = 1 .. Len(config.windows)
           /\ \A i \in DOMAIN config.windows :
                 /\ config.windows[i].start \in Int /\ config.windows[i].end \in Int
                 /\ config.windows[i].start <= config.windows[i].end
           /\ IsFiniteSet(table)
           /\ \A r \in table : r.kickoff \in Int
<1>1. RollingAssumption BY PipelineAssumption
<1>2. PICK ids : config.windows \in Seq([id : ids, start : Int, end : Int])
    BY <1>1, Zenon DEF RollingAssumption
<1>3. /\ Len(config.windows) \in Nat
      /\ DOMAIN config.windows = 1 .. Len(config.windows)
      /\ \A i \in DOMAIN config.windows :
            config.windows[i].start \in Int /\ config.windows[i].end \in Int
  <2> DEFINE w == config.windows
             W == [id : ids, start : Int, end : Int]
  <2>1. w \in Seq(W) BY <1>2
  <2> HIDE DEF w, W
  <2>2. Len(w) \in Nat /\ DOMAIN w = 1 .. Len(w) /\ \A i \in DOMAIN w : w[i] \in W
      BY <2>1
  <2> QED BY <2>2 DEF w, W
<1> QED BY <1>1, <1>3 DEF RollingAssumption

\* validate_windows compares neighbours only; since no window ends before it
\* starts, all windows are in order.
LEMMA NeighboursInOrder ==
    ASSUME config \in Configs, table \in Tables, ConfigIsValid(config)
    PROVE  Chronological(config)
<1> DEFINE w == config.windows
           N == Len(w)
<1>1. /\ N \in Nat /\ DOMAIN w = 1 .. N
      /\ \A i \in 1 .. N : w[i].start \in Int /\ w[i].end \in Int /\ w[i].start <= w[i].end
      /\ \A i \in 1 .. N - 1 : w[i].end < w[i + 1].start
      /\ \A i \in 1 .. N : config.training_start < w[i].start
    BY ConfigFacts DEF ConfigIsValid
<1> HIDE DEF w, N
<1> DEFINE Good == {n \in 0 .. N : \A i, j \in 1 .. n : i < j => w[i].end < w[j].start}
<1>2. 0 \in Good BY <1>1
<1>3. ASSUME NEW n \in 1 .. N, n - 1 \in Good PROVE n \in Good
  <2>0. n \in 0 .. N BY <1>1
  <2>1. SUFFICES ASSUME NEW i \in 1 .. n, NEW j \in 1 .. n, i < j
                 PROVE  w[i].end < w[j].start
      BY <2>0
  <2>2. CASE j < n
    <3>1. i \in 1 .. n - 1 /\ j \in 1 .. n - 1 BY <2>1, <2>2
    <3> QED BY <1>3, <2>1, <3>1
  <2>3. CASE j = n /\ i = n - 1
    <3>1. i \in 1 .. N - 1 /\ j = i + 1 BY <1>1, <2>1, <2>3
    <3> QED BY <1>1, <3>1
  <2>4. CASE j = n /\ i < n - 1
    <3>1. i \in 1 .. n - 1 /\ n - 1 \in 1 .. n - 1 /\ n - 1 \in 1 .. N - 1 BY <1>1, <2>1, <2>4
    <3>2. w[i].end < w[n - 1].start BY <1>3, <2>4, <3>1
    <3>3. w[n - 1].start <= w[n - 1].end /\ w[n - 1].end < w[n].start BY <1>1, <3>1
    <3>4. w[i].end \in Int /\ w[n - 1].start \in Int /\ w[n - 1].end \in Int /\ w[n].start \in Int
        BY <1>1, <3>1
    <3> QED BY <2>4, <3>2, <3>3, <3>4
  <2> QED BY <2>1, <2>2, <2>3, <2>4
<1> HIDE DEF Good
<1>4. 0 .. N \subseteq Good BY <1>1, <1>2, <1>3, UpTo
<1>5. N \in Good BY <1>1, <1>4
<1>6. \A i, j \in 1 .. N : i < j => w[i].end < w[j].start BY <1>5 DEF Good
<1> QED BY <1>1, <1>6 DEF Chronological, w, N

-----------------------------------------------------------------------------
(* One window *)

\* The first check that fails is an error, none if none does.
LEMMA FirstErrorFacts ==
    ASSUME NEW n
    PROVE  /\ FirstError(n) = "none" =>
                 /\ ~(Cardinality(GovernedCohort(n)) < MinimumEvaluationRows)
                 /\ pooled \cap WindowCohort(n) = {}
           /\ FirstError(n) = "training must end first" =>
                 TrainingPeriod(n).end >= config.windows[n].start
           /\ FirstError(n) = "duplicate held-out rows" => pooled \cap WindowCohort(n) # {}
BY DEF FirstError

\* Rows of a window are rows of the table, within the window and complete; the three
\* ways the code works out a window's cohort give the same rows.
LEMMA WindowRows ==
    ASSUME config \in Configs, table \in Tables, NEW n \in DOMAIN config.windows
    PROVE  /\ Evaluated(n).trained = Complete(Training(n))
           /\ Evaluated(n).held_out = GovernedCohort(n)
           /\ Evaluated(n).learned = GovernedCohort(n) /\ Evaluated(n).baseline = GovernedCohort(n)
           /\ \A r \in Complete(Training(n)) :
                 /\ r \in table /\ r.complete
                 /\ config.training_start <= r.kickoff /\ r.kickoff < config.windows[n].start
           /\ \A r \in table :
                 r.complete /\ config.training_start <= r.kickoff
                 /\ r.kickoff < config.windows[n].start => r \in Complete(Training(n))
           /\ \A r \in GovernedCohort(n) :
                 /\ r \in table /\ r.complete
                 /\ config.windows[n].start <= r.kickoff /\ r.kickoff <= config.windows[n].end
<1>1. WindowCohort(n) = GovernedCohort(n)
    BY DEF WindowCohort, GovernedCohort
<1>2. LearnedCohort(n) = GovernedCohort(n)
    BY DEF LearnedCohort, GovernedCohort
<1>3. /\ \A r \in table : r.kickoff \in Int
      /\ config.training_start \in Int
      /\ config.windows[n].start \in Int /\ config.windows[n].end \in Int
    BY ConfigFacts
<1>4. ASSUME NEW r \in table
      PROVE  r \in Training(n) <=> config.training_start <= r.kickoff
                                   /\ r.kickoff < config.windows[n].start
    BY <1>3 DEF Training, TrainingPeriod, Within
<1>5. Training(n) \subseteq table BY DEF Training, Within
<1>6. \A r \in Evaluation(n) :
        r \in table /\ config.windows[n].start <= r.kickoff /\ r.kickoff <= config.windows[n].end
    BY DEF Evaluation, Within
<1> QED BY <1>1, <1>2, <1>4, <1>5, <1>6 DEF Evaluated, Complete, GovernedCohort

\* What a window contributes has the type of a result.
LEMMA EvaluatedType ==
    ASSUME config \in Configs, table \in Tables, NEW n \in DOMAIN config.windows
    PROVE  Evaluated(n) \in Cohorts(table)
<1>1. /\ Complete(Training(n)) \subseteq table /\ GovernedCohort(n) \subseteq table
    BY WindowRows
<1>2. Evaluated(n) = [trained |-> Complete(Training(n)), held_out |-> GovernedCohort(n),
                      learned |-> GovernedCohort(n), baseline |-> GovernedCohort(n)]
    BY DEF Evaluated, WindowCohort, GovernedCohort, LearnedCohort
<1> QED BY <1>1, <1>2 DEF Cohorts

\* The rows counted against the pool are those held out in each window, in
\* whatever order the fold takes the windows.
LEMMA HeldOutIsSum ==
    ASSUME NEW N \in Nat, NEW s, DOMAIN s = 1 .. N, NEW f,
           \A i \in 1 .. N : f[i] = Cardinality(s[i].held_out) /\ f[i] \in Nat
    PROVE  HeldOutRows(s) = TotalOf(f, 1 .. N)
<1> DEFINE S == 1 .. N
           R(h) == [t \in SUBSET DOMAIN s |->
                      IF t = {} THEN 0
                      ELSE Cardinality(s[CHOOSE x \in t : TRUE].held_out)
                           + h[t \ {CHOOSE x \in t : TRUE}]]
           iter == CHOOSE h : h = R(h)
<1>1. HeldOutRows(s) = iter[DOMAIN s]
    BY DEF HeldOutRows, FoldSeq, FoldFunction, FoldFunctionOnSet, MapThenFoldSet
<1>2. NaturalOn(f, S) BY DEF NaturalOn
<1>3. IsFiniteSet(S)
  <2>1. N \in Int /\ 1 \in Int OBVIOUS
  <2> QED BY <2>1, FS_Interval
<1>4. ASSUME NEW h PROVE h = R(h) <=> Summing(h, f, S)
  <2>1. \A t \in SUBSET S : t # {} => f[Taken(t)] = Cardinality(s[Taken(t)].held_out) BY DEF Taken
  <2>2. R(h) = [t \in SUBSET S |->
                  IF t = {} THEN 0 ELSE Cardinality(s[Taken(t)].held_out) + h[t \ {Taken(t)}]]
      BY DEF Taken
  <2>3. R(h) = [t \in SUBSET S |-> IF t = {} THEN 0 ELSE f[Taken(t)] + h[t \ {Taken(t)}]]
      BY <2>1, <2>2
  <2> QED BY <2>3 DEF Summing
<1>5. iter = R(iter)
  <2>1. PICK k : Summing(k, f, S) BY <1>2, <1>3, FoldIsSum
  <2>2. k = R(k) BY <1>4, <2>1
  <2> HIDE DEF R
  <2> QED BY <2>2
<1> HIDE DEF iter
<1>6. Summing(iter, f, S) BY <1>4, <1>5
<1>7. iter[S] = TotalOf(f, S) BY <1>2, <1>3, <1>6, FoldIsSum
<1> QED BY <1>1, <1>7

\* No window, no row; one more window, its rows more.
LEMMA HeldOutGrows ==
    ASSUME NEW W, NEW s \in Seq(W), NEW w \in W,
           \A v \in W : Cardinality(v.held_out) \in Nat
    PROVE  /\ HeldOutRows(<<>>) = 0
           /\ HeldOutRows(Append(s, w)) = HeldOutRows(s) + Cardinality(w.held_out)
           /\ HeldOutRows(s) \in Nat
<1> DEFINE N == Len(s)
           a == Append(s, w)
           f == [i \in 1 .. N + 1 |-> Cardinality(a[i].held_out)]
           T == 1 .. N + 1
<1>1. /\ N \in Nat /\ DOMAIN s = 1 .. N /\ DOMAIN a = T
      /\ \A i \in 1 .. N : a[i] = s[i] /\ s[i] \in W
      /\ a[N + 1] = w /\ \A i \in T : a[i] \in W
    OBVIOUS
<1> HIDE DEF a, N
<1>2. /\ \A i \in T : f[i] = Cardinality(a[i].held_out) /\ f[i] \in Nat
      /\ \A i \in 1 .. N : f[i] = Cardinality(s[i].held_out) /\ f[i] \in Nat
      /\ f[N + 1] = Cardinality(w.held_out)
  <2>1. \A i \in 1 .. N : i \in T BY <1>1
  <2>2. N + 1 \in T BY <1>1
  <2> QED BY <1>1, <2>1, <2>2
<1> HIDE DEF f
<1>3. N + 1 \in Nat BY <1>1
<1>4. HeldOutRows(s) = TotalOf(f, 1 .. N) BY <1>1, <1>2, HeldOutIsSum
<1>5. HeldOutRows(a) = TotalOf(f, T) BY <1>1, <1>2, <1>3, HeldOutIsSum
<1>6. T = (1 .. N) \cup {N + 1} /\ N + 1 \notin 1 .. N BY <1>1
<1>7. IsFiniteSet(1 .. N)
  <2>1. N \in Int /\ 1 \in Int BY <1>1
  <2> QED BY <2>1, FS_Interval
<1>8. NaturalOn(f, T) /\ NaturalOn(f, 1 .. N) BY <1>2 DEF NaturalOn
<1>9. TotalOf(f, T) = f[N + 1] + TotalOf(f, 1 .. N)
  <2> DEFINE D == 1 .. N
             k == N + 1
  <2>1. T = D \cup {k} /\ k \notin D /\ IsFiniteSet(D) /\ NaturalOn(f, D \cup {k})
      BY <1>6, <1>7, <1>8
  <2> HIDE DEF D, k, T
  <2>2. TotalOf(f, D \cup {k}) = f[k] + TotalOf(f, D) BY <2>1, SumOneMore
  <2>3. TotalOf(f, T) = f[k] + TotalOf(f, D) BY <2>1, <2>2
  <2> QED BY <2>3 DEF D, k
<1>10. TotalOf(f, 1 .. N) \in Nat /\ TotalOf(f, {}) = 0
  <2>1. 1 .. N \in SUBSET (1 .. N) OBVIOUS
  <2> QED BY <1>7, <1>8, <2>1, SumAdds
<1>11. HeldOutRows(<<>>) = 0
  <2>1. DOMAIN <<>> = 1 .. 0 /\ 1 .. 0 = {} /\ 0 \in Nat OBVIOUS
  <2> DEFINE e == <<>>
  <2>2. DOMAIN e = 1 .. 0 /\ \A i \in 1 .. 0 : f[i] = Cardinality(e[i].held_out) /\ f[i] \in Nat
      BY <2>1
  <2> HIDE DEF e
  <2>3. HeldOutRows(e) = TotalOf(f, 1 .. 0) BY <2>1, <2>2, HeldOutIsSum
  <2> QED BY <2>1, <2>3, <1>10 DEF e
<1>12. Cardinality(w.held_out) \in Nat OBVIOUS
<1>13. HeldOutRows(a) = HeldOutRows(s) + Cardinality(w.held_out)
    BY <1>2, <1>4, <1>5, <1>9, <1>10, <1>12
<1> QED BY <1>4, <1>10, <1>11, <1>13 DEF a

-----------------------------------------------------------------------------
(* The steps of the evaluation *)

\* What a window contributes depends on the configuration and the table alone.
LEMMA EvaluatedKept ==
    ASSUME UNCHANGED <<config, table>>, NEW n
    PROVE  Evaluated(n)' = Evaluated(n)
BY DEF Evaluated, Complete, Training, TrainingPeriod, Within, WindowCohort, LearnedCohort,
       GovernedCohort, Evaluation

\* Nothing is evaluated at first.
LEMMA RollingBegins ==
    ASSUME InitRolling
    PROVE  RollingInv
<1>1. /\ config \in Configs /\ table \in Tables /\ phase = "submitted" /\ error = "none"
      /\ results = <<>> /\ pooled = {}
    BY DEF InitRolling
<1>2. Len(config.windows) \in Nat /\ IsFiniteSet(table) BY <1>1, ConfigFacts
<1>3. Len(results) = 0 /\ DOMAIN results = {} /\ results \in Seq(Cohorts(table)) BY <1>1
<1>4. Cardinality(pooled) = HeldOutRows(results)
  <2>1. \A v \in {} : Cardinality(v.held_out) \in Nat OBVIOUS
  <2>2. Cardinality({}) = 0 BY FS_EmptySet
  <2>3. HeldOutRows(<<>>) = 0
    <3> DEFINE c == [held_out |-> {}]
               W == {c}
    <3>1. <<>> \in Seq(W) /\ c \in W OBVIOUS
    <3>2. \A v \in W : Cardinality(v.held_out) \in Nat BY <2>2
    <3> HIDE DEF W, c
    <3> QED BY <3>1, <3>2, HeldOutGrows
  <2> QED BY <1>1, <2>2, <2>3
<1>5. AcceptedWindowsAreChronological BY <1>1 DEF AcceptedWindowsAreChronological
<1> QED BY <1>1, <1>2, <1>3, <1>4, <1>5 DEF RollingInv, RollingTyped

\* A configuration that is accepted has its windows in order.
LEMMA ValidateKeeps ==
    ASSUME RollingInv, Validate
    PROVE  RollingInv'
<1>1. /\ phase = "submitted" /\ UNCHANGED <<config, table, error, results, pooled>>
      /\ phase' = IF ConfigIsValid(config) THEN "running" ELSE "rejected"
    BY DEF Validate
<1>2. config \in Configs /\ table \in Tables /\ results = <<>> /\ pooled = {}
    BY <1>1 DEF RollingInv, RollingTyped
<1>3. RollingTyped' BY <1>1 DEF RollingInv, RollingTyped
<1>4. (phase = "running" => Chronological(config) /\ PooledBefore)'
  <2>1. ConfigIsValid(config) => Chronological(config) BY <1>2, NeighboursInOrder
  <2>2. Chronological(config)' <=> Chronological(config) BY <1>1
  <2>3. PooledBefore' BY <1>1, <1>2 DEF PooledBefore
  <2> QED BY <1>1, <2>1, <2>2, <2>3
<1>5. (\A i \in DOMAIN results : results[i] = Evaluated(i))' BY <1>1, <1>2
<1> QED BY <1>1, <1>2, <1>3, <1>4, <1>5 DEF RollingInv, AcceptedWindowsAreChronological

\* A window more: its rows kicked off before the next one, none of them was pooled.
LEMMA EvaluateKeeps ==
    ASSUME RollingInv, EvaluateWindow
    PROVE  RollingInv'
<1> DEFINE n == Window
           L == Len(results)
           e == Evaluated(n)
           W == Cohorts(table)
<1>1. /\ phase = "running" /\ n <= Len(config.windows) /\ FirstError(n) = "none"
      /\ results' = Append(results, e) /\ pooled' = pooled \cup e.held_out
      /\ UNCHANGED <<config, table, phase, error>>
    BY DEF EvaluateWindow, Evaluated
<1>2. /\ config \in Configs /\ table \in Tables /\ results \in Seq(W)
      /\ Len(results) <= Len(config.windows) /\ pooled \in SUBSET table
      /\ Chronological(config) /\ PooledBefore
      /\ \A i \in DOMAIN results : results[i] = Evaluated(i)
      /\ \A i \in DOMAIN results : results[i].held_out # {}
      /\ Cardinality(pooled) = HeldOutRows(results)
      /\ AcceptedWindowsAreChronological
    BY <1>1 DEF RollingInv, RollingTyped
<1>3. n = L + 1 /\ L \in Nat /\ DOMAIN results = 1 .. L BY <1>2 DEF Window
<1>4. n \in DOMAIN config.windows BY <1>1, <1>2, <1>3, ConfigFacts
<1>5. e \in W /\ e.held_out \subseteq table
  <2>1. e \in W BY <1>2, <1>4, EvaluatedType
  <2> HIDE DEF e
  <2> QED BY <2>1 DEF Cohorts
<1>6. /\ ~(Cardinality(e.held_out) < MinimumEvaluationRows)
      /\ pooled \cap e.held_out = {}
  <2>1. e.held_out = GovernedCohort(n) /\ e.held_out = WindowCohort(n)
      BY <1>2, <1>4, WindowRows DEF Evaluated
  <2> HIDE DEF e, n
  <2> QED BY <1>1, <2>1, FirstErrorFacts
<1>7. IsFiniteSet(table) /\ MinimumEvaluationRows \in Nat \ {0} BY <1>2, ConfigFacts
<1>8. \A v \in W : Cardinality(v.held_out) \in Nat
  <2>1. \A v \in W : v.held_out \subseteq table BY DEF Cohorts
  <2> HIDE DEF W
  <2> QED BY <1>7, <2>1, FS_Subset, FS_CardinalityType
<1>9. e.held_out # {}
  <2> HIDE DEF e
  <2>1. Cardinality({}) = 0 BY FS_EmptySet
  <2> QED BY <1>6, <1>7, <2>1
<1>10. /\ results' \in Seq(W) /\ Len(results') = L + 1
       /\ \A i \in 1 .. L : results'[i] = results[i]
       /\ results'[L + 1] = e /\ DOMAIN results' = 1 .. L + 1
  <2> HIDE DEF e, W
  <2> QED BY <1>1, <1>2, <1>3, <1>5, AppendProperties
<1>11. RollingTyped'
  <2>1. pooled' \in SUBSET table BY <1>1, <1>2, <1>5
  <2>2. Len(results') <= Len(config.windows) BY <1>1, <1>3, <1>10
  <2>3. W' = W BY <1>1
  <2> HIDE DEF W
  <2> QED BY <1>1, <1>2, <1>10, <2>1, <2>2, <2>3 DEF RollingInv, RollingTyped, W
<1>12. (\A i \in DOMAIN results : results[i] = Evaluated(i) /\ results[i].held_out # {})'
  <2>1. ASSUME NEW i \in 1 .. L + 1
        PROVE  results'[i] = Evaluated(i) /\ results'[i].held_out # {}
    <3>1. CASE i = L + 1 BY <1>3, <1>9, <1>10, <3>1
    <3>2. CASE i # L + 1
      <4>1. i \in 1 .. L BY <1>3, <3>2
      <4> HIDE DEF e
      <4> QED BY <1>2, <1>3, <1>10, <4>1
    <3> QED BY <3>1, <3>2
  <2>2. \A i : Evaluated(i)' = Evaluated(i) BY <1>1, EvaluatedKept
  <2> HIDE DEF e, L
  <2> QED BY <1>10, <2>1, <2>2
<1>13. (Cardinality(pooled) = HeldOutRows(results))'
  <2> HIDE DEF W, e
  <2>1. HeldOutRows(results') = HeldOutRows(results) + Cardinality(e.held_out)
        /\ HeldOutRows(results) \in Nat
      BY <1>1, <1>2, <1>5, <1>8, HeldOutGrows
  <2>2. IsFiniteSet(pooled) /\ IsFiniteSet(e.held_out) BY <1>2, <1>5, <1>7, FS_Subset
  <2>3. Cardinality(pooled \cup e.held_out) = Cardinality(pooled) + Cardinality(e.held_out)
    <3>1. Cardinality(pooled \cap e.held_out) = 0 BY <1>6, FS_EmptySet
    <3>2. Cardinality(pooled) \in Nat /\ Cardinality(e.held_out) \in Nat
        BY <2>2, FS_CardinalityType
    <3>3. Cardinality(pooled \cup e.held_out)
            = Cardinality(pooled) + Cardinality(e.held_out) - Cardinality(pooled \cap e.held_out)
        BY <2>2, FS_Union
    <3> QED BY <3>1, <3>2, <3>3
  <2> QED BY <1>1, <1>2, <2>1, <2>3
<1>14. PooledBefore'
  <2>1. Window' = L + 2 BY <1>3, <1>10 DEF Window
  <2>2. SUFFICES ASSUME L + 2 <= Len(config.windows), NEW r \in pooled'
                 PROVE  r.kickoff < config.windows[L + 2].start
      BY <1>1, <2>1 DEF PooledBefore
  <2> DEFINE m == L + 2
  <2>3. m \in DOMAIN config.windows /\ n < m BY <1>2, <1>3, <2>2, ConfigFacts
  <2>4. config.windows[n].end < config.windows[m].start BY <1>2, <1>4, <2>3 DEF Chronological
  <2>5. /\ config.windows[n].start \in Int /\ config.windows[n].end \in Int
        /\ config.windows[m].start \in Int
        /\ config.windows[n].start <= config.windows[n].end
        /\ \A x \in table : x.kickoff \in Int
      BY <1>2, <1>4, <2>3, ConfigFacts
  <2>6. r \in table BY <1>1, <1>2, <1>5
  <2>7. CASE r \in pooled
    <3>1. r.kickoff < config.windows[n].start BY <1>1, <1>2, <2>7 DEF PooledBefore
    <3> HIDE DEF n, m
    <3>2. r.kickoff < config.windows[m].start BY <2>4, <2>5, <2>6, <3>1
    <3> QED BY <3>2 DEF m
  <2>8. CASE r \in e.held_out
    <3>1. r.kickoff <= config.windows[n].end BY <1>2, <1>4, <2>8, WindowRows
    <3> HIDE DEF n, m
    <3>2. r.kickoff < config.windows[m].start BY <2>4, <2>5, <2>6, <3>1
    <3> QED BY <3>2 DEF m
  <2> QED BY <1>1, <2>2, <2>7, <2>8
<1>15. AcceptedWindowsAreChronological' BY <1>1, <1>2 DEF AcceptedWindowsAreChronological
<1>16. Chronological(config)' BY <1>1, <1>2
<1> QED BY <1>1, <1>11, <1>12, <1>13, <1>14, <1>15, <1>16 DEF RollingInv

\* A window that fails does not fail for its period nor for a row held out before.
LEMMA FailKeeps ==
    ASSUME RollingInv, Fail
    PROVE  RollingInv'
<1> DEFINE n == Window
<1>1. /\ phase = "running" /\ n <= Len(config.windows)
      /\ phase' = "failed" /\ error' = FirstError(n)
      /\ UNCHANGED <<config, table, results, pooled>>
    BY DEF Fail
<1>2. /\ config \in Configs /\ table \in Tables /\ results \in Seq(Cohorts(table))
      /\ Chronological(config) /\ PooledBefore
    BY <1>1 DEF RollingInv, RollingTyped
<1>3. n \in DOMAIN config.windows BY <1>1, <1>2, ConfigFacts DEF Window
<1>4. config.windows[n].start \in Int /\ \A r \in table : r.kickoff \in Int
    BY <1>2, <1>3, ConfigFacts
<1>5. ~(TrainingPeriod(n).end >= config.windows[n].start)
  <2> HIDE DEF n
  <2> QED BY <1>4 DEF TrainingPeriod
<1>6. pooled \cap WindowCohort(n) = {}
  <2>1. ASSUME NEW r \in pooled, r \in WindowCohort(n) PROVE FALSE
    <3>1. r.kickoff < config.windows[n].start BY <1>1, <1>2, <2>1 DEF PooledBefore
    <3>2. WindowCohort(n) = GovernedCohort(n) BY DEF WindowCohort, GovernedCohort
    <3>3. r \in table /\ config.windows[n].start <= r.kickoff
        BY <1>2, <1>3, <2>1, <3>2, WindowRows
    <3> HIDE DEF n
    <3> QED BY <1>4, <3>1, <3>3
  <2> QED BY <2>1
<1>7. AcceptedWindowsAreChronological'
  <2> HIDE DEF n
  <2> QED BY <1>1, <1>5, <1>6, FirstErrorFacts DEF AcceptedWindowsAreChronological
<1>8. \A i : Evaluated(i)' = Evaluated(i) BY <1>1, EvaluatedKept
<1>9. RollingTyped' BY <1>1 DEF RollingInv, RollingTyped
<1> HIDE DEF n
<1> QED BY <1>1, <1>7, <1>8, <1>9 DEF RollingInv

\* A model that cannot be fitted is no failure of the windows.
LEMMA FailToFitKeeps ==
    ASSUME RollingInv, FailToFit
    PROVE  RollingInv'
<1>1. /\ phase' = "failed" /\ error' = "model not fitted"
      /\ UNCHANGED <<config, table, results, pooled>>
    BY DEF FailToFit
<1>2. \A i : Evaluated(i)' = Evaluated(i) BY <1>1, EvaluatedKept
<1>3. RollingTyped' BY <1>1 DEF RollingInv, RollingTyped
<1>4. AcceptedWindowsAreChronological' BY <1>1 DEF AcceptedWindowsAreChronological
<1> QED BY <1>1, <1>2, <1>3, <1>4 DEF RollingInv

\* What the report and a stuttering step leave alone.
LEMMA ReportKeeps ==
    ASSUME RollingInv, Report \/ UNCHANGED rolling_vars
    PROVE  RollingInv'
<1>1. /\ UNCHANGED <<config, table, results, pooled, error>>
      /\ phase' = phase \/ phase' = "reported"
    BY DEF Report, rolling_vars
<1>2. \A i : Evaluated(i)' = Evaluated(i) BY <1>1, EvaluatedKept
<1>3. RollingTyped' BY <1>1 DEF RollingInv, RollingTyped
<1>4. PooledBefore' <=> PooledBefore BY <1>1 DEF PooledBefore, Window
<1> QED BY <1>1, <1>2, <1>3, <1>4 DEF RollingInv, AcceptedWindowsAreChronological

\* Rows of earlier periods kicked off before those of later windows.
LEMMA HonestWindows ==
    ASSUME RollingInv
    PROVE  EvaluationIsHonest
<1>1. /\ config \in Configs /\ table \in Tables /\ results \in Seq(Cohorts(table))
      /\ Len(results) <= Len(config.windows)
      /\ results # <<>> => Chronological(config)
      /\ \A i \in DOMAIN results : results[i] = Evaluated(i)
    BY DEF RollingInv, RollingTyped
<1>2. /\ \A i \in DOMAIN results : i \in DOMAIN config.windows /\ i \in Int
      /\ \A j \in DOMAIN results : \A i \in 1 .. j : i \in DOMAIN results
      /\ DOMAIN results # {} => Chronological(config)
    BY <1>1, ConfigFacts
<1>3. /\ \A i \in DOMAIN config.windows :
            /\ config.windows[i].start \in Int /\ config.windows[i].end \in Int
            /\ config.windows[i].start <= config.windows[i].end
      /\ config.training_start \in Int
      /\ \A r \in table : r.kickoff \in Int
    BY <1>1, ConfigFacts
<1>4. ASSUME NEW j \in DOMAIN results, NEW i \in 1 .. j
      PROVE  /\ i \in DOMAIN results
             /\ config.windows[i].start <= config.windows[j].start
             /\ i < j => config.windows[i].end < config.windows[j].start
  <2>1. i \in DOMAIN results /\ i \in DOMAIN config.windows /\ j \in DOMAIN config.windows
        /\ i \in Int /\ j \in Int
      BY <1>2
  <2>2. i < j => config.windows[i].end < config.windows[j].start
      BY <1>2, <2>1 DEF Chronological
  <2>3. CASE i = j BY <1>3, <2>1, <2>3
  <2>4. CASE i < j BY <1>3, <2>1, <2>2, <2>4
  <2> QED BY <2>1, <2>2, <2>3, <2>4
<1>5. ASSUME NEW i \in DOMAIN results
      PROVE  /\ \A r \in results[i].trained :
                   r \in table /\ r.complete /\ config.training_start <= r.kickoff
                   /\ r.kickoff < config.windows[i].start
             /\ \A r \in table :
                   r.complete /\ config.training_start <= r.kickoff
                   /\ r.kickoff < config.windows[i].start => r \in results[i].trained
             /\ \A r \in results[i].held_out :
                   r \in table /\ r.complete
                   /\ config.windows[i].start <= r.kickoff /\ r.kickoff <= config.windows[i].end
             /\ results[i].learned = results[i].held_out
             /\ results[i].baseline = results[i].held_out
  <2>1. results[i] = Evaluated(i) /\ i \in DOMAIN config.windows BY <1>1, <1>2
  <2> QED BY <1>1, <2>1, WindowRows
<1>6. HeldOutRowsAreUnseen
  <2>1. SUFFICES ASSUME NEW j \in DOMAIN results, NEW i \in 1 .. j,
                        NEW r \in results[i].trained, NEW s \in results[j].held_out
                 PROVE  r.kickoff < s.kickoff
    <3>1. \A x \in table : ~(x.kickoff < x.kickoff) BY <1>3
    <3> QED BY <1>4, <1>5, <3>1 DEF HeldOutRowsAreUnseen
  <2>2. /\ r \in table /\ r.kickoff < config.windows[i].start
        /\ s \in table /\ config.windows[j].start <= s.kickoff
        /\ config.windows[i].start <= config.windows[j].start
      BY <1>4, <1>5
  <2>3. i \in DOMAIN config.windows /\ j \in DOMAIN config.windows BY <1>2
  <2> QED BY <1>3, <2>2, <2>3
<1>7. TrainingExpands
  <2>1. SUFFICES ASSUME NEW j \in DOMAIN results, NEW i \in 1 .. j - 1,
                        NEW r \in results[i].trained \cup results[i].held_out
                 PROVE  r \in results[j].trained
      BY DEF TrainingExpands
  <2>2. i \in 1 .. j /\ i < j BY <1>2
  <2>3. /\ i \in DOMAIN results /\ config.windows[i].end < config.windows[j].start
        /\ config.windows[i].start <= config.windows[j].start
      BY <1>4, <2>2
  <2>4. /\ i \in DOMAIN config.windows /\ j \in DOMAIN config.windows
        /\ config.training_start < config.windows[i].start
      BY <1>2, <2>3 DEF Chronological
  <2>5. r \in table /\ r.complete BY <1>5, <2>3
  <2>6. CASE r \in results[i].trained
    <3>1. config.training_start <= r.kickoff /\ r.kickoff < config.windows[i].start
        BY <1>5, <2>3, <2>6
    <3>2. r.kickoff < config.windows[j].start BY <1>3, <2>3, <2>4, <2>5, <3>1
    <3> QED BY <1>5, <2>5, <3>1, <3>2
  <2>7. CASE r \in results[i].held_out
    <3>1. config.windows[i].start <= r.kickoff /\ r.kickoff <= config.windows[i].end
        BY <1>5, <2>3, <2>7
    <3>2. config.training_start <= r.kickoff /\ r.kickoff < config.windows[j].start
        BY <1>3, <2>3, <2>4, <2>5, <3>1
    <3> QED BY <1>5, <2>5, <3>2
  <2> QED BY <2>6, <2>7
<1>8. CohortsAreTheSame
  <2>1. Cardinality(pooled) = FoldSeq(LAMBDA w, n : Cardinality(w.held_out) + n, 0, results)
      BY DEF RollingInv, HeldOutRows
  <2>2. \A i \in DOMAIN results : results[i].held_out # {} BY DEF RollingInv
  <2> QED BY <1>5, <2>1, <2>2 DEF CohortsAreTheSame
<1> QED BY <1>6, <1>7, <1>8 DEF EvaluationIsHonest, RollingInv

\* Whatever the windows and the table: no model is judged on a row that it or a model
\* before it was trained on, training takes in all that came before, an accepted
\* configuration never fails for its windows half-way, and the learned model and the
\* baseline are measured on the same rows, each pooled once
\* (evaluate_wr_poisson_rolling).
THEOREM RollingEvaluationIsHonest == SpecRolling => []EvaluationIsHonest
<1>1. InitRolling => RollingInv BY RollingBegins
<1>2. RollingInv /\ [NextRolling]_rolling_vars => RollingInv'
    BY ValidateKeeps, EvaluateKeeps, FailKeeps, FailToFitKeeps, ReportKeeps DEF NextRolling
<1>3. RollingInv => EvaluationIsHonest BY HonestWindows
<1> QED BY <1>1, <1>2, <1>3, PTL DEF SpecRolling

-----------------------------------------------------------------------------
(* The feature dataset                                                      *)

\* Manifests that describe a whole table: the hash is the hash of that content.
Describing == {m \in Dataset!Manifests : m.file = m.content}

\* Where the writer is, and how far its table and its manifest have got.
TableWritten == {"hash table", "write manifest", "fill manifest", "replace manifest"}
TableHashed == {"write manifest", "fill manifest", "replace manifest"}
WriterSteps == {"idle", "write table", "fill table", "replace table"} \cup TableWritten

Writers == [at : WriterSteps, content : Contents \cup {Absent},
            registry : Registries \cup {Absent}, file : Contents \cup {Absent}]

LoaderSteps == {"idle", "read table", "read manifest", "hash table", "loaded", "refused"}

Loadings == [at : LoaderSteps, registry : Registries \cup {Absent},
             frame : Contents \cup {Absent}, manifest : Describing \cup {Absent}]

WriterInv ==
    /\ set_writer \in Writers
    /\ set_writer.at # "idle" =>
          /\ set_completed = Absent
          /\ set_writer.content \in Contents /\ set_writer.registry \in Registries
    /\ set_writer.at = "replace table" => set_data_tmp = set_writer.content
    /\ set_writer.at \in TableWritten => set_data = set_writer.content
    /\ set_writer.at \in TableHashed => set_writer.file = set_writer.content
    /\ set_writer.at = "replace manifest" =>
          set_manifest_tmp = [content |-> set_writer.content, file |-> set_writer.content,
                              registry |-> set_writer.registry]

FilesInv ==
    /\ set_data \in Contents \cup {Absent}
    /\ set_manifest \in Describing \cup {Absent}
    /\ Dataset!CompletedWriteIsLoadable

LoaderInv ==
    /\ set_loader \in [Loaders -> Loadings]
    /\ \A l \in Loaders : set_loader[l].at = "hash table" =>
          /\ set_loader[l].manifest \in Describing
          /\ set_loader[l].manifest.content = set_loader[l].frame

DatasetInv == WriterInv /\ FilesInv /\ LoaderInv

\* The markers are neither contents nor manifests.
LEMMA Markers ==
    /\ Absent # Partial
    /\ Absent \notin Contents /\ Partial \notin Contents
    /\ Absent \notin Describing /\ Partial \notin Describing
BY PipelineAssumption DEF Dataset!FeatureDatasetAssumption, Describing

\* What a whole manifest says.
LEMMA DescribingFacts ==
    /\ \A m \in Describing :
          /\ m.content \in Contents /\ m.file = m.content /\ m.registry \in Registries
    /\ \A c \in Contents, r \in Registries :
          [content |-> c, file |-> c, registry |-> r] \in Describing
BY DEF Describing, Dataset!Manifests

\* Nothing is there at first.
LEMMA DatasetBegins ==
    ASSUME Dataset!Init
    PROVE  DatasetInv
<1>1. WriterInv
    BY DEF Dataset!Init, Dataset!Idle, WriterInv, Writers, WriterSteps, TableWritten, TableHashed
<1>2. FilesInv BY DEF Dataset!Init, FilesInv, Dataset!CompletedWriteIsLoadable
<1>3. LoaderInv
  <2>1. Dataset!NotLoading \in Loadings BY DEF Dataset!NotLoading, Loadings, LoaderSteps
  <2>2. Dataset!NotLoading.at # "hash table" BY DEF Dataset!NotLoading
  <2> QED BY <2>1, <2>2 DEF Dataset!Init, LoaderInv
<1> QED BY <1>1, <1>2, <1>3 DEF DatasetInv

\* What the writer does keeps what it has written and what it describes.
LEMMA WritingKeeps ==
    ASSUME WriterInv, FilesInv,
           \/ \E c \in Contents, r \in Registries : Dataset!StartWrite(c, r)
           \/ Dataset!OpenTable \/ Dataset!FillTable \/ Dataset!ReplaceTable
           \/ Dataset!HashTable \/ Dataset!OpenManifest \/ Dataset!FillManifest
           \/ Dataset!ReplaceManifest \/ Dataset!Crash \/ Dataset!Raise
    PROVE  WriterInv' /\ FilesInv' /\ UNCHANGED set_loader
<1> USE DEF WriterInv, FilesInv, Writers, WriterSteps, TableWritten, TableHashed, Dataset!files,
            Dataset!Step, Dataset!Idle, Dataset!CompletedWriteIsLoadable
<1>1. CASE \E c \in Contents, r \in Registries : Dataset!StartWrite(c, r)
    BY <1>1 DEF Dataset!StartWrite
<1>2. CASE Dataset!OpenTable BY <1>2 DEF Dataset!OpenTable
<1>3. CASE Dataset!FillTable BY <1>3 DEF Dataset!FillTable
<1>4. CASE Dataset!ReplaceTable BY <1>4 DEF Dataset!ReplaceTable
<1>5. CASE Dataset!HashTable BY <1>5 DEF Dataset!HashTable
<1>6. CASE Dataset!OpenManifest BY <1>6 DEF Dataset!OpenManifest
<1>7. CASE Dataset!FillManifest BY <1>7 DEF Dataset!FillManifest
<1>8. CASE Dataset!ReplaceManifest
    BY <1>8, DescribingFacts DEF Dataset!ReplaceManifest
<1>9. CASE Dataset!Crash BY <1>9 DEF Dataset!Crash
<1>10. CASE Dataset!Raise BY <1>10 DEF Dataset!Raise
<1> QED BY <1>1, <1>2, <1>3, <1>4, <1>5, <1>6, <1>7, <1>8, <1>9, <1>10

\* The fields of a load after one step of it.
LEMMA LoadingFields ==
    ASSUME NEW x \in Loadings, NEW a \in LoaderSteps
    PROVE  /\ [x EXCEPT !.at = a]
                = [at |-> a, registry |-> x.registry, frame |-> x.frame, manifest |-> x.manifest]
           /\ \A r \in Registries \cup {Absent} :
                 [x EXCEPT !.at = a, !.registry = r]
                    = [at |-> a, registry |-> r, frame |-> x.frame, manifest |-> x.manifest]
           /\ \A d \in Contents \cup {Absent} :
                 [x EXCEPT !.at = a, !.frame = d]
                    = [at |-> a, registry |-> x.registry, frame |-> d, manifest |-> x.manifest]
           /\ \A m \in Describing \cup {Absent} :
                 [x EXCEPT !.at = a, !.manifest = m]
                    = [at |-> a, registry |-> x.registry, frame |-> x.frame, manifest |-> m]
<1> DEFINE R == Registries \cup {Absent}
           F == Contents \cup {Absent}
           M == Describing \cup {Absent}
<1>0. x \in [at : LoaderSteps, registry : R, frame : F, manifest : M] BY DEF Loadings
<1> HIDE DEF R, F, M
<1>1. PICK z : z = [x EXCEPT !.at = a] OBVIOUS
<1>2. /\ z \in [at : LoaderSteps, registry : R, frame : F, manifest : M]
      /\ z = [at |-> a, registry |-> x.registry, frame |-> x.frame, manifest |-> x.manifest]
    BY <1>0, <1>1
<1>3. z.at = a /\ z.registry = x.registry /\ z.frame = x.frame /\ z.manifest = x.manifest
    BY <1>2
<1>4. ASSUME NEW r \in R
      PROVE  [x EXCEPT !.at = a, !.registry = r]
                = [at |-> a, registry |-> r, frame |-> x.frame, manifest |-> x.manifest]
  <2>1. [z EXCEPT !.registry = r]
          = [at |-> z.at, registry |-> r, frame |-> z.frame, manifest |-> z.manifest]
      BY <1>2
  <2>2. [x EXCEPT !.at = a, !.registry = r] = [z EXCEPT !.registry = r] BY <1>1, Zenon
  <2> QED BY <1>3, <2>1, <2>2
<1>5. ASSUME NEW d \in F
      PROVE  [x EXCEPT !.at = a, !.frame = d]
                = [at |-> a, registry |-> x.registry, frame |-> d, manifest |-> x.manifest]
  <2>1. [z EXCEPT !.frame = d]
          = [at |-> z.at, registry |-> z.registry, frame |-> d, manifest |-> z.manifest]
      BY <1>2
  <2>2. [x EXCEPT !.at = a, !.frame = d] = [z EXCEPT !.frame = d] BY <1>1, Zenon
  <2> QED BY <1>3, <2>1, <2>2
<1>6. ASSUME NEW m \in M
      PROVE  [x EXCEPT !.at = a, !.manifest = m]
                = [at |-> a, registry |-> x.registry, frame |-> x.frame, manifest |-> m]
  <2>1. [z EXCEPT !.manifest = m]
          = [at |-> z.at, registry |-> z.registry, frame |-> z.frame, manifest |-> m]
      BY <1>2
  <2>2. [x EXCEPT !.at = a, !.manifest = m] = [z EXCEPT !.manifest = m] BY <1>1, Zenon
  <2> QED BY <1>3, <2>1, <2>2
<1> QED BY <1>1, <1>2, <1>4, <1>5, <1>6, Zenon DEF R, F, M

\* A load that goes on has read a whole table and a manifest of it.
LEMMA LoadingKeeps ==
    ASSUME FilesInv, LoaderInv, NEW l \in Loaders,
           \/ \E r \in Registries : Dataset!StartLoad(l, r)
           \/ Dataset!ReadTable(l) \/ Dataset!ReadManifest(l) \/ Dataset!CheckFile(l)
    PROVE  /\ LoaderInv'
           /\ UNCHANGED <<set_data, set_data_tmp, set_manifest, set_manifest_tmp, set_writer,
                          set_completed>>
           /\ \A k \in Loaders : set_loader[k].at # "loaded" /\ set_loader'[k].at = "loaded" =>
                 /\ set_loader'[k].frame = set_data
                 /\ set_loader'[k].manifest.content = set_data
                 /\ set_loader'[k].manifest.registry = set_loader'[k].registry
<1>1. /\ set_loader \in [Loaders -> Loadings]
      /\ set_data \in Contents \cup {Absent} /\ set_manifest \in Describing \cup {Absent}
      /\ \A k \in Loaders : set_loader[k].at = "hash table" =>
            /\ set_loader[k].manifest \in Describing
            /\ set_loader[k].manifest.content = set_loader[k].frame
    BY DEF FilesInv, LoaderInv
<1>2. UNCHANGED <<set_data, set_data_tmp, set_manifest, set_manifest_tmp, set_writer,
                  set_completed>>
    BY DEF Dataset!StartLoad, Dataset!ReadTable, Dataset!ReadManifest, Dataset!CheckFile,
           Dataset!files
<1>3. PICK f \in Loadings :
         /\ set_loader' = [set_loader EXCEPT ![l] = f]
         /\ f.at = "hash table" => f.manifest \in Describing /\ f.manifest.content = f.frame
         /\ f.at = "loaded" =>
               /\ f.frame = set_data /\ f.manifest.content = set_data
               /\ f.manifest.registry = f.registry
  <2> DEFINE x == set_loader[l]
  <2>0. /\ x \in Loadings /\ x.registry \in Registries \cup {Absent}
        /\ x.frame \in Contents \cup {Absent} /\ x.manifest \in Describing \cup {Absent}
        /\ x = [at |-> x.at, registry |-> x.registry, frame |-> x.frame,
                manifest |-> x.manifest]
        /\ x.at = "hash table" => x.manifest \in Describing /\ x.manifest.content = x.frame
    <3>1. x \in Loadings BY <1>1
    <3>2. x.at = "hash table" => x.manifest \in Describing /\ x.manifest.content = x.frame
        BY <1>1
    <3> HIDE DEF x
    <3> QED BY <3>1, <3>2 DEF Loadings
  <2>1. CASE \E r \in Registries : Dataset!StartLoad(l, r)
    <3>1. PICK r \in Registries : Dataset!StartLoad(l, r) BY <2>1
    <3> DEFINE f == [at |-> "read table", registry |-> r, frame |-> Absent, manifest |-> Absent]
    <3>2. [Dataset!NotLoading EXCEPT !.at = "read table", !.registry = r] = f
      <4>0. "read table" \in LoaderSteps BY DEF LoaderSteps
      <4>1. Dataset!NotLoading \in Loadings
          BY DEF Dataset!NotLoading, Loadings, LoaderSteps
      <4>2. Dataset!NotLoading.frame = Absent /\ Dataset!NotLoading.manifest = Absent
          BY DEF Dataset!NotLoading
      <4>3. r \in Registries \cup {Absent} OBVIOUS
      <4> DEFINE y == Dataset!NotLoading
      <4>4. [y EXCEPT !.at = "read table", !.registry = r]
              = [at |-> "read table", registry |-> r, frame |-> y.frame, manifest |-> y.manifest]
        <5>1. y \in Loadings BY <4>1
        <5> HIDE DEF x, y, f
        <5>2. \A q \in Registries \cup {Absent} :
                 [y EXCEPT !.at = "read table", !.registry = q]
                    = [at |-> "read table", registry |-> q, frame |-> y.frame,
                       manifest |-> y.manifest]
            BY <4>0, <5>1, LoadingFields, Zenon
        <5> QED BY <4>3, <5>2, Zenon
      <4> QED BY <4>2, <4>4
    <3>5. set_loader' = [set_loader EXCEPT ![l] = f]
      <4> HIDE DEF f
      <4> QED BY <3>1, <3>2 DEF Dataset!StartLoad
    <3>3. f \in Loadings /\ f.at = "read table" BY DEF Loadings, LoaderSteps
    <3> HIDE DEF f
    <3> QED BY <3>3, <3>5
  <2>2. CASE Dataset!ReadTable(l)
    <3> DEFINE a == IF set_data \in Contents THEN "read manifest" ELSE "refused"
               f == [at |-> a, registry |-> x.registry, frame |-> set_data,
                     manifest |-> x.manifest]
    <3>1. set_loader' = [set_loader EXCEPT ![l] = [x EXCEPT !.at = a, !.frame = set_data]]
        BY <2>2, <1>1 DEF Dataset!ReadTable
    <3>3. a \in {"read manifest", "refused"} OBVIOUS
    <3>2. [x EXCEPT !.at = a, !.frame = set_data] = f
      <4> HIDE DEF x, a
      <4>1. a \in LoaderSteps BY <3>3 DEF LoaderSteps
      <4> QED BY <1>1, <2>0, <4>1, LoadingFields, ZenonT(30)
    <3>4. f \in Loadings /\ f.at \notin {"hash table", "loaded"}
      <4> HIDE DEF x, a
      <4> QED BY <1>1, <2>0, <3>3 DEF Loadings, LoaderSteps
    <3> HIDE DEF f, x, a
    <3> QED BY <3>1, <3>2, <3>4
  <2>3. CASE Dataset!ReadManifest(l)
    <3> DEFINE a == IF set_manifest # Absent /\ set_manifest.content = x.frame
                    THEN "hash table" ELSE "refused"
               f == [at |-> a, registry |-> x.registry, frame |-> x.frame,
                     manifest |-> set_manifest]
    <3>1. set_loader' = [set_loader EXCEPT ![l] = [x EXCEPT !.at = a, !.manifest = set_manifest]]
        BY <2>3, <1>1 DEF Dataset!ReadManifest
    <3>3. /\ a \in {"hash table", "refused"}
          /\ a = "hash table" => set_manifest # Absent /\ set_manifest.content = x.frame
        OBVIOUS
    <3>2. [x EXCEPT !.at = a, !.manifest = set_manifest] = f
      <4> HIDE DEF x, a
      <4>1. a \in LoaderSteps BY <3>3 DEF LoaderSteps
      <4> QED BY <1>1, <2>0, <4>1, LoadingFields, ZenonT(30)
    <3>4. /\ f \in Loadings /\ f.at # "loaded"
          /\ f.at = "hash table" => f.manifest \in Describing /\ f.manifest.content = f.frame
      <4> HIDE DEF x, a
      <4> QED BY <1>1, <2>0, <3>3 DEF Loadings, LoaderSteps
    <3> HIDE DEF f, x, a
    <3> QED BY <3>1, <3>2, <3>4
  <2>4. CASE Dataset!CheckFile(l)
    <3> DEFINE a == IF x.manifest.file = set_data /\ x.manifest.registry = x.registry
                    THEN "loaded" ELSE "refused"
               f == [at |-> a, registry |-> x.registry, frame |-> x.frame,
                     manifest |-> x.manifest]
    <3>1. x.at = "hash table" /\ set_loader' = [set_loader EXCEPT ![l] = [x EXCEPT !.at = a]]
        BY <2>4, <1>1 DEF Dataset!CheckFile
    <3>3. /\ a \in {"loaded", "refused"}
          /\ a = "loaded" => x.manifest.file = set_data /\ x.manifest.registry = x.registry
        OBVIOUS
    <3>2. [x EXCEPT !.at = a] = f
      <4> HIDE DEF x, a
      <4>1. a \in LoaderSteps BY <3>3 DEF LoaderSteps
      <4> QED BY <1>1, <2>0, <4>1, LoadingFields, ZenonT(30)
    <3>4. x.manifest.file = x.manifest.content /\ x.manifest.content = x.frame
      <4> HIDE DEF x
      <4> QED BY <2>0, <3>1, DescribingFacts
    <3>5. /\ f \in Loadings /\ f.at # "hash table"
          /\ f.at = "loaded" =>
                /\ f.frame = set_data /\ f.manifest.content = set_data
                /\ f.manifest.registry = f.registry
      <4> HIDE DEF x, a
      <4> QED BY <2>0, <3>3, <3>4 DEF Loadings, LoaderSteps
    <3> HIDE DEF f, x, a
    <3> QED BY <3>1, <3>2, <3>5
  <2> QED BY <2>1, <2>2, <2>3, <2>4
<1>4. /\ set_loader'[l] = f /\ \A k \in Loaders : k # l => set_loader'[k] = set_loader[k]
      /\ set_loader' \in [Loaders -> Loadings]
    BY <1>1, <1>3
<1>5. LoaderInv' BY <1>1, <1>3, <1>4 DEF LoaderInv
<1> QED BY <1>2, <1>3, <1>4, <1>5

\* Every step keeps the invariant, and a load that ends well ends on the table it read.
LEMMA DatasetStep ==
    ASSUME DatasetInv, [Dataset!Next]_(Dataset!vars)
    PROVE  /\ DatasetInv'
           /\ \A l \in Loaders : set_loader[l].at # "loaded" /\ set_loader'[l].at = "loaded" =>
                 /\ set_loader'[l].frame = set_data
                 /\ set_loader'[l].manifest.content = set_data
                 /\ set_loader'[l].manifest.registry = set_loader'[l].registry
<1>1. CASE \/ \E c \in Contents, r \in Registries : Dataset!StartWrite(c, r)
           \/ Dataset!OpenTable \/ Dataset!FillTable \/ Dataset!ReplaceTable
           \/ Dataset!HashTable \/ Dataset!OpenManifest \/ Dataset!FillManifest
           \/ Dataset!ReplaceManifest \/ Dataset!Crash \/ Dataset!Raise
  <2>1. WriterInv' /\ FilesInv' /\ UNCHANGED set_loader BY <1>1, WritingKeeps DEF DatasetInv
  <2> QED BY <2>1 DEF DatasetInv, LoaderInv
<1>2. CASE \E l \in Loaders :
              \/ \E r \in Registries : Dataset!StartLoad(l, r)
              \/ Dataset!ReadTable(l) \/ Dataset!ReadManifest(l) \/ Dataset!CheckFile(l)
  <2>1. PICK l \in Loaders :
           \/ \E r \in Registries : Dataset!StartLoad(l, r)
           \/ Dataset!ReadTable(l) \/ Dataset!ReadManifest(l) \/ Dataset!CheckFile(l)
      BY <1>2
  <2>2. /\ LoaderInv'
        /\ UNCHANGED <<set_data, set_data_tmp, set_manifest, set_manifest_tmp, set_writer,
                       set_completed>>
        /\ \A k \in Loaders : set_loader[k].at # "loaded" /\ set_loader'[k].at = "loaded" =>
              /\ set_loader'[k].frame = set_data
              /\ set_loader'[k].manifest.content = set_data
              /\ set_loader'[k].manifest.registry = set_loader'[k].registry
      BY <2>1, LoadingKeeps DEF DatasetInv
  <2>3. WriterInv' BY <2>2 DEF DatasetInv, WriterInv
  <2>4. FilesInv' BY <2>2 DEF DatasetInv, FilesInv, Dataset!CompletedWriteIsLoadable
  <2> QED BY <2>2, <2>3, <2>4 DEF DatasetInv
<1>3. CASE UNCHANGED Dataset!vars
  <2>1. UNCHANGED <<set_data, set_data_tmp, set_manifest, set_manifest_tmp, set_writer,
                    set_completed, set_loader>>
      BY <1>3 DEF Dataset!vars, Dataset!files
  <2>2. WriterInv' BY <2>1 DEF DatasetInv, WriterInv
  <2>3. FilesInv' BY <2>1 DEF DatasetInv, FilesInv, Dataset!CompletedWriteIsLoadable
  <2>4. LoaderInv' BY <2>1 DEF DatasetInv, LoaderInv
  <2> QED BY <2>1, <2>2, <2>3, <2>4 DEF DatasetInv
<1> QED BY <1>1, <1>2, <1>3 DEF Dataset!Next

\* Whoever writes, is interrupted and starts again while a table is loaded: a load that
\* succeeds has the table that is there, described by the manifest it read; a write that
\* returned can be loaded until the next one begins; no half-written file is seen
\* (write_wr_feature_dataset, load_and_validate_wr_feature_dataset).
THEOREM LoadedTablesAreDescribed == Dataset!Spec => LoadedTableIsTheDescribedOne
<1>1. Dataset!Init => DatasetInv BY DatasetBegins
<1>2. DatasetInv /\ [Dataset!Next]_(Dataset!vars) => DatasetInv' BY DatasetStep
<1>3. DatasetInv => Dataset!CompletedWriteIsLoadable BY DEF DatasetInv, FilesInv
<1>4. DatasetInv => Dataset!NoPartOfATableIsSeen
    BY Markers DEF DatasetInv, FilesInv, Dataset!NoPartOfATableIsSeen
<1>5. DatasetInv /\ [Dataset!Next]_(Dataset!vars) =>
        [\A l \in Loaders :
            set_loader[l].at # "loaded" /\ set_loader'[l].at = "loaded" =>
                /\ set_loader'[l].frame = set_data
                /\ set_loader'[l].manifest.content = set_data
                /\ set_loader'[l].manifest.registry = set_loader'[l].registry]_(Dataset!vars)
    BY DatasetStep
<1> QED BY <1>1, <1>2, <1>3, <1>4, <1>5, PTL
         DEF Dataset!Spec, LoadedTableIsTheDescribedOne, Dataset!LoadedTableIsTheDescribedOne

-----------------------------------------------------------------------------
(* The cache of source data                                                 *)

\* A download: where it is, what it was asked for, and its cursor into that.
RunSteps == {"ready", "fetch", "read cached", "load", "fill", "replace", "describe",
             "write manifest", "done", "failed"}
Active == RunSteps \ {"ready", "done", "failed"}

\* The files of the dataset and season the cursor is at, of those before it, of all.
AtCursor(r) == <<r.wanted[r.dataset], r.seasons[r.season]>>

Passed(r, d, s) == d < r.dataset \/ (d = r.dataset /\ s < r.season)

BeforeCursor(r) ==
    {f \in Source!Files :
        \E d \in 1 .. Len(r.wanted), s \in 1 .. Len(r.seasons) :
            Passed(r, d, s) /\ f = <<r.wanted[d], r.seasons[s]>>}

Whole(r) ==
    {f \in Source!Files :
        \E d \in 1 .. Len(r.wanted), s \in 1 .. Len(r.seasons) :
            f = <<r.wanted[d], r.seasons[s]>>}

AskedDatasets == Source!ToSet(Datasets)
AskedSeasons == Source!ToSet(SourceSeasons)

IsTable(t) == t = [x \in DOMAIN t |-> t[x]]

Runs(r) ==
    [at : RunSteps, force : {r.force}, wanted : Seq(AskedDatasets), seasons : Seq(AskedSeasons),
     dataset : Nat, season : Nat, frames : {r.frames}, files : {r.files}]

RunTyped(r) ==
    /\ r \in Runs(r)
    /\ IsTable(r.frames) /\ IsTable(r.files)

CursorIn(r) == r.dataset \in 1 .. Len(r.wanted) /\ r.season \in 1 .. Len(r.seasons)

\* The frames that the cache holds as well, and all of them usable.
Cached(frames, D, c) == \A f \in D : frames[f] = c[f]
AllUsable(frames) == \A f \in DOMAIN frames : Source!Usable(frames[f], f[2])

\* What the run r has in hand while the cache is c, the temporary files are t and the
\* manifests m.
RunHolds(r, c, t, m) ==
    /\ r.at \in Active => CursorIn(r) /\ AllUsable(r.frames)
    /\ r.at \in {"fetch", "read cached", "load", "fill", "replace"} => r.files = <<>>
    /\ r.at \in {"fetch", "read cached", "load"} =>
          DOMAIN r.frames = BeforeCursor(r) /\ Cached(r.frames, DOMAIN r.frames, c)
    /\ r.at \in {"fill", "replace"} =>
          /\ DOMAIN r.frames = BeforeCursor(r) \cup {AtCursor(r)}
          /\ Cached(r.frames, DOMAIN r.frames \ {AtCursor(r)}, c)
    /\ r.at = "replace" => t[AtCursor(r)] = r.frames[AtCursor(r)]
    /\ r.at \in {"describe", "write manifest"} =>
          /\ DOMAIN r.frames = Whole(r) /\ Cached(r.frames, DOMAIN r.frames, c)
          /\ Cached(r.files, DOMAIN r.files, c)
    /\ r.at = "describe" => DOMAIN r.files = BeforeCursor(r)
    /\ r.at = "write manifest" => DOMAIN r.files = Whole(r)
    /\ r.at = "done" =>
          /\ r.files = r.frames /\ DOMAIN r.frames = Whole(r) /\ AllUsable(r.frames)
          /\ r.files \in m

\* The files of the cache, whatever is in them.
OnFiles(t) == DOMAIN t = Source!Files /\ IsTable(t)

SourceInv ==
    /\ OnFiles(src_cache) /\ OnFiles(src_tmp)
    /\ RunTyped(src_run)
    /\ RunHolds(src_run, src_cache, src_tmp, src_manifests)

\* The fields of a run after one step of it.
LEMMA RunFields ==
    ASSUME NEW r, RunTyped(r)
    PROVE  /\ r.at \in RunSteps /\ r.dataset \in Nat /\ r.season \in Nat
           /\ r.wanted \in Seq(AskedDatasets) /\ r.seasons \in Seq(AskedSeasons)
           /\ Len(r.wanted) \in Nat /\ Len(r.seasons) \in Nat
           /\ \A d \in 1 .. Len(r.wanted) : r.wanted[d] \in AskedDatasets
           /\ \A s \in 1 .. Len(r.seasons) : r.seasons[s] \in AskedSeasons
           /\ CursorIn(r) => AtCursor(r) \in Source!Files
<1>1. /\ r.at \in RunSteps /\ r.dataset \in Nat /\ r.season \in Nat
      /\ r.wanted \in Seq(AskedDatasets) /\ r.seasons \in Seq(AskedSeasons)
    BY DEF RunTyped, Runs
<1> DEFINE w == r.wanted
           v == r.seasons
<1>2. w \in Seq(AskedDatasets) /\ v \in Seq(AskedSeasons) BY <1>1
<1> HIDE DEF w, v
<1>3. /\ Len(w) \in Nat /\ Len(v) \in Nat
      /\ \A d \in 1 .. Len(w) : w[d] \in AskedDatasets
      /\ \A s \in 1 .. Len(v) : v[s] \in AskedSeasons
    BY <1>2
<1> USE DEF w, v
<1>4. CursorIn(r) => AtCursor(r) \in Source!Files
    BY <1>3 DEF CursorIn, AtCursor, Source!Files, AskedDatasets, AskedSeasons
<1> QED BY <1>1, <1>3, <1>4

\* The cursor moves over the seasons of each dataset in turn: the file it was at joins
\* those before it, until these are all.
LEMMA CursorMoves ==
    ASSUME NEW r, RunTyped(r), CursorIn(r), NEW n, n.dataset \in Nat, n.season \in Nat,
           n.wanted = r.wanted, n.seasons = r.seasons
    PROVE  /\ r.season < Len(r.seasons) /\ n.dataset = r.dataset /\ n.season = r.season + 1 =>
                 CursorIn(n) /\ BeforeCursor(n) = BeforeCursor(r) \cup {AtCursor(r)}
           /\ r.season = Len(r.seasons) /\ r.dataset < Len(r.wanted)
              /\ n.dataset = r.dataset + 1 /\ n.season = 1 =>
                 CursorIn(n) /\ BeforeCursor(n) = BeforeCursor(r) \cup {AtCursor(r)}
           /\ r.season = Len(r.seasons) /\ r.dataset = Len(r.wanted) =>
                 Whole(r) = BeforeCursor(r) \cup {AtCursor(r)}
           /\ n.dataset = 1 /\ n.season = 1 => CursorIn(n) /\ BeforeCursor(n) = {}
           /\ Whole(n) = Whole(r)
<1>0. PICK d \in Nat, s \in Nat : n.dataset = d /\ n.season = s OBVIOUS
<1> DEFINE D == 1 .. Len(r.wanted)
           S == 1 .. Len(r.seasons)
           a == r.dataset
           b == r.season
           P(x, y) == <<r.wanted[x], r.seasons[y]>>
<1>1. /\ Len(r.wanted) \in Nat /\ Len(r.seasons) \in Nat /\ a \in D /\ b \in S
      /\ AtCursor(r) \in Source!Files /\ AtCursor(r) = P(a, b)
    BY RunFields DEF CursorIn, AtCursor
<1>2. /\ BeforeCursor(r) = {f \in Source!Files : \E x \in D, y \in S :
                              (x < a \/ (x = a /\ y < b)) /\ f = P(x, y)}
      /\ BeforeCursor(n) = {f \in Source!Files : \E x \in D, y \in S :
                              (x < d \/ (x = d /\ y < s)) /\ f = P(x, y)}
      /\ Whole(r) = {f \in Source!Files : \E x \in D, y \in S : f = P(x, y)}
      /\ Whole(n) = Whole(r)
    BY <1>0 DEF BeforeCursor, Passed, Whole
<1>3. CursorIn(n) <=> d \in D /\ s \in S BY <1>0 DEF CursorIn
<1>4. \A x \in D, y \in S : x \in Nat /\ y \in Nat /\ x >= 1 /\ y >= 1 BY <1>1
<1>5. ASSUME b < Len(r.seasons) /\ d = a /\ s = b + 1
      PROVE  CursorIn(n) /\ BeforeCursor(n) = BeforeCursor(r) \cup {AtCursor(r)}
  <2>1. d \in D /\ s \in S BY <1>1, <1>5
  <2>2. \A x \in D, y \in S : (x < d \/ (x = d /\ y < s))
                              <=> ((x < a \/ (x = a /\ y < b)) \/ (x = a /\ y = b))
      BY <1>1, <1>4, <1>5
  <2>3. BeforeCursor(n) = BeforeCursor(r) \cup {AtCursor(r)}
    <3> HIDE DEF D, S, a, b, P
    <3> QED BY <1>1, <1>2, <2>2
  <2> QED BY <1>3, <2>1, <2>3
<1>6. ASSUME b = Len(r.seasons) /\ a < Len(r.wanted) /\ d = a + 1 /\ s = 1
      PROVE  CursorIn(n) /\ BeforeCursor(n) = BeforeCursor(r) \cup {AtCursor(r)}
  <2>1. d \in D /\ s \in S BY <1>1, <1>6
  <2>2. \A x \in D, y \in S : (x < d \/ (x = d /\ y < s))
                              <=> ((x < a \/ (x = a /\ y < b)) \/ (x = a /\ y = b))
      BY <1>1, <1>4, <1>6
  <2>3. BeforeCursor(n) = BeforeCursor(r) \cup {AtCursor(r)}
    <3> HIDE DEF D, S, a, b, P
    <3> QED BY <1>1, <1>2, <2>2
  <2> QED BY <1>3, <2>1, <2>3
<1>7. ASSUME b = Len(r.seasons) /\ a = Len(r.wanted)
      PROVE  Whole(r) = BeforeCursor(r) \cup {AtCursor(r)}
  <2>1. \A x \in D, y \in S : (x < a \/ (x = a /\ y < b)) \/ (x = a /\ y = b)
      BY <1>1, <1>4, <1>7
  <2> HIDE DEF D, S, a, b, P
  <2> QED BY <1>1, <1>2, <2>1
<1>8. ASSUME d = 1 /\ s = 1
      PROVE  CursorIn(n) /\ BeforeCursor(n) = {}
  <2>1. d \in D /\ s \in S BY <1>1, <1>8
  <2>2. \A x \in D, y \in S : ~(x < d \/ (x = d /\ y < s)) BY <1>4, <1>8
  <2>3. BeforeCursor(n) = {}
    <3> HIDE DEF D, S, P
    <3> QED BY <1>2, <2>2
  <2> QED BY <1>3, <2>1, <2>3
<1> QED BY <1>0, <1>2, <1>5, <1>6, <1>7, <1>8

\* n is the run r with its step and its cursor changed.
Turned(r, n, a, d, s) ==
    /\ RunTyped(n)
    /\ n.at = a /\ n.dataset = d /\ n.season = s
    /\ n.wanted = r.wanted /\ n.seasons = r.seasons
    /\ n.frames = r.frames /\ n.files = r.files

\* n is the run r with its step changed and with other frames and files.
Filled(r, n, a, frames, files) ==
    /\ RunTyped(n)
    /\ n.at = a /\ n.dataset = r.dataset /\ n.season = r.season
    /\ n.wanted = r.wanted /\ n.seasons = r.seasons
    /\ n.frames = frames /\ n.files = files

\* The ways a run is changed.
LEMMA RunTurns ==
    ASSUME NEW r, RunTyped(r), NEW a \in RunSteps
    PROVE  /\ Turned(r, [r EXCEPT !.at = a], a, r.dataset, r.season)
           /\ Turned(r, [r EXCEPT !.season = @ + 1], r.at, r.dataset, r.season + 1)
           /\ Turned(r, [r EXCEPT !.at = a, !.dataset = @ + 1, !.season = 1], a, r.dataset + 1, 1)
           /\ Turned(r, [r EXCEPT !.at = a, !.dataset = 1, !.season = 1], a, 1, 1)
<1>1. Turned(r, [r EXCEPT !.at = a], a, r.dataset, r.season) BY DEF RunTyped, Runs, Turned
<1>2. Turned(r, [r EXCEPT !.season = @ + 1], r.at, r.dataset, r.season + 1)
    BY DEF RunTyped, Runs, Turned
<1>3. ASSUME NEW d \in Nat
      PROVE  Turned(r, [r EXCEPT !.at = a, !.dataset = d, !.season = 1], a, d, 1)
    BY DEF RunTyped, Runs, Turned
<1>4. Turned(r, [r EXCEPT !.at = a, !.dataset = @ + 1, !.season = 1], a, r.dataset + 1, 1)
      /\ Turned(r, [r EXCEPT !.at = a, !.dataset = 1, !.season = 1], a, 1, 1)
  <2>1. r.dataset + 1 \in Nat /\ 1 \in Nat BY RunFields
  <2>2. PICK d \in Nat : d = r.dataset + 1 BY <2>1
  <2>3. Turned(r, [r EXCEPT !.at = a, !.dataset = d, !.season = 1], a, d, 1) BY <1>3
  <2>4. [r EXCEPT !.at = a, !.dataset = @ + 1, !.season = 1]
          = [r EXCEPT !.at = a, !.dataset = d, !.season = 1]
    <3>1. [r EXCEPT !.at = a].dataset = r.dataset BY DEF RunTyped, Runs
    <3> QED BY <2>2, <3>1
  <2> QED BY <1>3, <2>1, <2>2, <2>3, <2>4, Zenon
<1> QED BY <1>1, <1>2, <1>4, Zenon

\* A file more in hand, with what it says.
LEMMA RunFills ==
    ASSUME NEW r, RunTyped(r), NEW a \in RunSteps, NEW k, NEW v
    PROVE  /\ Filled(r, [r EXCEPT !.frames = Source!Put(@, k, v)], r.at,
                      Source!Put(r.frames, k, v), r.files)
           /\ Filled(r, [r EXCEPT !.at = a, !.frames = Source!Put(@, k, v)], a,
                      Source!Put(r.frames, k, v), r.files)
           /\ Filled(r, [r EXCEPT !.files = Source!Put(@, k, v)], r.at,
                      r.frames, Source!Put(r.files, k, v))
<1> DEFINE P(x) == Source!Put(x, k, v)
<1>1. \A x : IsTable(P(x)) BY DEF IsTable, Source!Put
<1> HIDE DEF P
<1>2. Filled(r, [r EXCEPT !.frames = P(@)], r.at, P(r.frames), r.files)
    BY <1>1 DEF RunTyped, Runs, Filled
<1>3. Filled(r, [r EXCEPT !.at = a, !.frames = P(@)], a, P(r.frames), r.files)
    BY <1>1 DEF RunTyped, Runs, Filled
<1>4. Filled(r, [r EXCEPT !.files = P(@)], r.at, r.frames, P(r.files))
    BY <1>1 DEF RunTyped, Runs, Filled
<1> QED BY <1>2, <1>3, <1>4 DEF P

\* What is in hand after one file more.
LEMMA PutFacts ==
    ASSUME NEW t, NEW k, NEW v
    PROVE  /\ DOMAIN Source!Put(t, k, v) = DOMAIN t \cup {k}
           /\ Source!Put(t, k, v)[k] = v
           /\ \A x \in DOMAIN t : x # k => Source!Put(t, k, v)[x] = t[x]
BY DEF Source!Put

\* A usable file more keeps what is in hand usable and cached.
LEMMA PutKeeps ==
    ASSUME NEW t, NEW k, NEW v, NEW u, u = Source!Put(t, k, v), NEW c
    PROVE  /\ DOMAIN u = DOMAIN t \cup {k}
           /\ AllUsable(t) /\ Source!Usable(v, k[2]) => AllUsable(u)
           /\ Cached(t, DOMAIN t, c) => Cached(u, DOMAIN u \ {k}, c)
           /\ Cached(t, DOMAIN t, c) /\ v = c[k] => Cached(u, DOMAIN u, c)
<1>1. /\ DOMAIN u = DOMAIN t \cup {k} /\ u[k] = v
      /\ \A x \in DOMAIN t : x # k => u[x] = t[x]
    BY DEF Source!Put
<1>2. ASSUME AllUsable(t), Source!Usable(v, k[2]), NEW x \in DOMAIN u
      PROVE  Source!Usable(u[x], x[2])
  <2>1. CASE x = k BY <1>1, <1>2, <2>1, Zenon
  <2>2. CASE x # k
    <3>1. x \in DOMAIN t /\ u[x] = t[x] BY <1>1, <2>2
    <3>2. Source!Usable(t[x], x[2]) BY <1>2, <3>1, Zenon DEF AllUsable
    <3> QED BY <3>1, <3>2, Zenon
  <2> QED BY <2>1, <2>2
<1>3. ASSUME Cached(t, DOMAIN t, c), NEW x \in DOMAIN u, x # k
      PROVE  u[x] = c[x]
    BY <1>1, <1>3 DEF Cached
<1> QED BY <1>1, <1>2, <1>3, Zenon DEF AllUsable, Cached

\* On to the next season: the cursor has passed one file more, or all of them.
LEMMA NextSeasonMoves ==
    ASSUME NEW r, RunTyped(r), CursorIn(r), NEW follows \in {"fetch", "describe"}, NEW n,
           n = Source!NextSeason(r, follows)
    PROVE  /\ Turned(r, n, n.at, n.dataset, n.season) /\ CursorIn(n) /\ Whole(n) = Whole(r)
           /\ \/ /\ n.at \in {r.at, follows}
                 /\ BeforeCursor(n) = BeforeCursor(r) \cup {AtCursor(r)}
              \/ /\ n.at = IF follows = "fetch" THEN "describe" ELSE "write manifest"
                 /\ BeforeCursor(n) = {} /\ Whole(r) = BeforeCursor(r) \cup {AtCursor(r)}
<1> DEFINE last == IF follows = "fetch" THEN "describe" ELSE "write manifest"
<1>1. r.dataset \in Nat /\ r.season \in Nat /\ Len(r.wanted) \in Nat /\ Len(r.seasons) \in Nat
      /\ r.season <= Len(r.seasons) /\ r.dataset <= Len(r.wanted)
    BY RunFields DEF CursorIn
<1>2. follows \in RunSteps /\ last \in RunSteps BY DEF RunSteps
<1>3. CASE r.season < Len(r.seasons)
  <2>1. n = [r EXCEPT !.season = @ + 1] BY <1>3 DEF Source!NextSeason
  <2>2. Turned(r, n, r.at, r.dataset, r.season + 1) BY <1>2, <2>1, RunTurns
  <2>3. r.season + 1 \in Nat BY <1>1
  <2>4. /\ n.wanted = r.wanted /\ n.seasons = r.seasons
        /\ n.dataset = r.dataset /\ n.season = r.season + 1 /\ n.at = r.at
      BY <2>2 DEF Turned
  <2> QED BY <1>1, <1>3, <2>2, <2>3, <2>4, CursorMoves
<1>4. CASE ~(r.season < Len(r.seasons)) /\ r.dataset < Len(r.wanted)
  <2>1. n = [r EXCEPT !.at = follows, !.dataset = @ + 1, !.season = 1]
      BY <1>4 DEF Source!NextSeason
  <2>2. Turned(r, n, follows, r.dataset + 1, 1)
    <3>1. Turned(r, [r EXCEPT !.at = follows, !.dataset = @ + 1, !.season = 1],
                 follows, r.dataset + 1, 1)
        BY <1>2, RunTurns
    <3> QED BY <2>1, <3>1
  <2>3. r.dataset + 1 \in Nat /\ 1 \in Nat /\ r.season = Len(r.seasons) BY <1>1, <1>4
  <2>4. /\ n.wanted = r.wanted /\ n.seasons = r.seasons
        /\ n.dataset = r.dataset + 1 /\ n.season = 1 /\ n.at = follows
      BY <2>2 DEF Turned
  <2> QED BY <1>1, <1>4, <2>2, <2>3, <2>4, CursorMoves
<1>5. CASE ~(r.season < Len(r.seasons)) /\ ~(r.dataset < Len(r.wanted))
  <2>1. n = [r EXCEPT !.at = last, !.dataset = 1, !.season = 1]
      BY <1>5 DEF Source!NextSeason
  <2>2. Turned(r, n, last, 1, 1)
    <3> HIDE DEF last
    <3>1. Turned(r, [r EXCEPT !.at = last, !.dataset = 1, !.season = 1], last, 1, 1)
        BY <1>2, RunTurns, Zenon
    <3> QED BY <2>1, <3>1, Zenon
  <2>3. r.season = Len(r.seasons) /\ r.dataset = Len(r.wanted) /\ 1 \in Nat BY <1>1, <1>5
  <2> QED BY <1>1, <2>2, <2>3, CursorMoves DEF Turned
<1> QED BY <1>3, <1>4, <1>5

\* No file is before the first.
LEMMA FirstCursor ==
    ASSUME NEW r, r.dataset = 1, r.season = 1
    PROVE  BeforeCursor(r) = {}
<1>1. \A d \in 1 .. Len(r.wanted), s \in 1 .. Len(r.seasons) : ~Passed(r, d, s)
    BY DEF Passed
<1> QED BY <1>1 DEF BeforeCursor

\* The cursor is where it was when nothing moves it.
LEMMA SameCursor ==
    ASSUME NEW r, NEW n, n.dataset = r.dataset, n.season = r.season,
           n.wanted = r.wanted, n.seasons = r.seasons
    PROVE  /\ BeforeCursor(n) = BeforeCursor(r) /\ AtCursor(n) = AtCursor(r)
           /\ Whole(n) = Whole(r) /\ (CursorIn(n) <=> CursorIn(r))
BY DEF BeforeCursor, Passed, AtCursor, Whole, CursorIn

\* A run before anything was asked of it, or after it failed.
LEMMA IdleRun ==
    /\ RunTyped(Source!Ready)
    /\ Source!Ready.dataset = 1 /\ Source!Ready.season = 1
    /\ Source!Ready.frames = <<>> /\ Source!Ready.files = <<>>
    /\ Source!Ready.at = "ready"
<1> DEFINE r == Source!Ready
<1>1. r = [at |-> "ready", force |-> FALSE, wanted |-> <<>>, seasons |-> <<>>,
           dataset |-> 1, season |-> 1, frames |-> <<>>, files |-> <<>>]
    BY DEF Source!Ready
<1>2. PICK e : e = <<>> OBVIOUS
<1>3. e \in Seq(AskedDatasets) /\ e \in Seq(AskedSeasons) /\ IsTable(e)
  <2>1. DOMAIN e = {} BY <1>2
  <2>2. e = [x \in DOMAIN e |-> e[x]] BY <1>2
  <2> QED BY <1>2, <2>2 DEF IsTable
<1>4. PICK no : no = FALSE OBVIOUS
<1>5. r = [at |-> "ready", force |-> no, wanted |-> e, seasons |-> e,
           dataset |-> 1, season |-> 1, frames |-> e, files |-> e]
    BY <1>1, <1>2, <1>4, Zenon
<1> HIDE DEF r
<1>6. "ready" \in RunSteps /\ 1 \in Nat BY DEF RunSteps
<1>7. RunTyped(r) BY <1>3, <1>5, <1>6 DEF RunTyped, Runs
<1>8. r.dataset = 1 /\ r.season = 1 /\ r.frames = <<>> /\ r.files = <<>> /\ r.at = "ready"
    BY <1>2, <1>5
<1> QED BY <1>7, <1>8 DEF r

\* An ended run has nothing in hand.
LEMMA EndedRun ==
    ASSUME NEW a \in {"ready", "failed"}, NEW n, n = Source!Ended(a), NEW c, NEW t, NEW m
    PROVE  RunTyped(n) /\ RunHolds(n, c, t, m)
<1>1. PICK r : r = Source!Ready OBVIOUS
<1>2. RunTyped(r) BY <1>1, IdleRun
<1>3. a \in RunSteps BY DEF RunSteps
<1>4. Turned(r, [r EXCEPT !.at = a], a, r.dataset, r.season) BY <1>2, <1>3, RunTurns
<1>5. Turned(r, n, a, r.dataset, r.season) BY <1>1, <1>4, Zenon DEF Source!Ended
<1>6. RunTyped(n) /\ n.at = a BY <1>5 DEF Turned
<1> QED BY <1>6 DEF RunHolds, Active

\* A download that begins.
LEMMA AskedRun ==
    ASSUME NEW w \in Seq(AskedDatasets), NEW s \in Seq(AskedSeasons), w # <<>>, s # <<>>, NEW g,
           NEW n, n = [Source!Ready EXCEPT !.at = "fetch", !.force = g, !.wanted = w, !.seasons = s],
           NEW c, NEW t, NEW m
    PROVE  RunTyped(n) /\ RunHolds(n, c, t, m)
<1>1. PICK r : r = Source!Ready OBVIOUS
<1>2. /\ RunTyped(r) /\ r.dataset = 1 /\ r.season = 1 /\ r.frames = <<>> /\ r.files = <<>>
    BY <1>1, IdleRun
<1>3. n = [r EXCEPT !.at = "fetch", !.force = g, !.wanted = w, !.seasons = s] BY <1>1, Zenon
<1>4. "fetch" \in RunSteps /\ "fetch" \in Active BY DEF RunSteps, Active
<1>5. /\ RunTyped(n) /\ n.at = "fetch" /\ n.wanted = w /\ n.seasons = s
      /\ n.dataset = 1 /\ n.season = 1 /\ n.frames = <<>> /\ n.files = <<>>
    BY <1>2, <1>3, <1>4 DEF RunTyped, Runs
<1>6. BeforeCursor(n) = {} BY <1>5, FirstCursor
<1>7. CursorIn(n) BY <1>5 DEF CursorIn
<1>8. DOMAIN n.frames = {} BY <1>5
<1> QED BY <1>4, <1>5, <1>6, <1>7, <1>8 DEF RunHolds, AllUsable, Cached

\* One entry of the files changed.
LEMMA FileChanged ==
    ASSUME NEW t, OnFiles(t), NEW k \in Source!Files, NEW v, NEW u, u = [t EXCEPT ![k] = v]
    PROVE  OnFiles(u) /\ u[k] = v /\ \A x \in Source!Files : x # k => u[x] = t[x]
BY DEF OnFiles, IsTable

\* The cache is taken when every season of the dataset is there.
LEMMA FetchHolds ==
    ASSUME SourceInv, Source!Fetch
    PROVE  SourceInv'
<1>1. PICK a \in {"read cached", "load"} : src_run' = [src_run EXCEPT !.at = a]
    BY DEF Source!Fetch
<1>2. PICK r, n : r = src_run /\ n = src_run' OBVIOUS
<1>3. /\ OnFiles(src_cache) /\ OnFiles(src_tmp) /\ RunTyped(r)
      /\ RunHolds(r, src_cache, src_tmp, src_manifests)
      /\ UNCHANGED <<src_cache, src_tmp, src_manifests>> /\ r.at = "fetch"
    BY <1>2 DEF SourceInv, Source!Fetch
<1>4. a \in RunSteps BY DEF RunSteps
<1>5. Turned(r, n, a, r.dataset, r.season)
  <2>1. Turned(r, [r EXCEPT !.at = a], a, r.dataset, r.season) BY <1>3, <1>4, RunTurns
  <2> QED BY <1>1, <1>2, <2>1, Zenon
<1>6. /\ BeforeCursor(n) = BeforeCursor(r) /\ (CursorIn(n) <=> CursorIn(r))
    BY <1>5, SameCursor DEF Turned
<1>7. RunHolds(n, src_cache, src_tmp, src_manifests)
    BY <1>3, <1>5, <1>6 DEF RunHolds, Turned, Active, RunSteps, AllUsable, Cached
<1> QED BY <1>2, <1>3, <1>5, <1>7 DEF SourceInv, Turned

\* A cached season is taken as it is, when it is usable.
LEMMA ReadCachedHolds ==
    ASSUME SourceInv, Source!ReadCached
    PROVE  SourceInv'
<1>1. PICK r, n : r = src_run /\ n = src_run' OBVIOUS
<1>2. /\ OnFiles(src_cache) /\ OnFiles(src_tmp) /\ RunTyped(r)
      /\ RunHolds(r, src_cache, src_tmp, src_manifests)
      /\ UNCHANGED <<src_cache, src_tmp, src_manifests>> /\ r.at = "read cached"
    BY <1>1 DEF SourceInv, Source!ReadCached
<1>3. PICK k : k = AtCursor(r) OBVIOUS
<1>4. PICK v : v = src_cache[k] OBVIOUS
<1>5. k = Source!Here BY <1>1, <1>3 DEF AtCursor, Source!Here
<1>6. \/ n = Source!Ended("failed")
      \/ /\ Source!Usable(v, k[2])
         /\ n = Source!NextSeason([r EXCEPT !.frames = Source!Put(@, k, v)], "fetch")
    BY <1>1, <1>4, <1>5 DEF Source!ReadCached
<1>7. CASE n = Source!Ended("failed")
  <2>1. RunTyped(n) /\ RunHolds(n, src_cache, src_tmp, src_manifests) BY <1>7, EndedRun
  <2> QED BY <1>1, <1>2, <2>1 DEF SourceInv
<1>8. CASE /\ Source!Usable(v, k[2])
           /\ n = Source!NextSeason([r EXCEPT !.frames = Source!Put(@, k, v)], "fetch")
  <2>1. PICK x : x = [r EXCEPT !.frames = Source!Put(@, k, v)] OBVIOUS
  <2>2. Filled(r, x, r.at, Source!Put(r.frames, k, v), r.files)
    <3>1. r.at \in RunSteps BY <1>2, RunFields
    <3> QED BY <1>2, <2>1, <3>1, RunFills, Zenon
  <2>3. /\ BeforeCursor(x) = BeforeCursor(r) /\ AtCursor(x) = k
        /\ Whole(x) = Whole(r) /\ CursorIn(x) /\ RunTyped(x) /\ x.at = "read cached"
        /\ x.files = <<>>
    <3>1. CursorIn(r) /\ r.files = <<>> BY <1>2 DEF RunHolds, Active, RunSteps
    <3> QED BY <1>2, <1>3, <2>2, <3>1, SameCursor DEF Filled
  <2>4. n = Source!NextSeason(x, "fetch") BY <1>8, <2>1, Zenon
  <2>5. /\ Turned(x, n, n.at, n.dataset, n.season) /\ CursorIn(n) /\ Whole(n) = Whole(x)
        /\ \/ n.at \in {"read cached", "fetch"} /\ BeforeCursor(n) = BeforeCursor(x) \cup {k}
           \/ /\ n.at = "describe" /\ BeforeCursor(n) = {}
              /\ Whole(x) = BeforeCursor(x) \cup {k}
      BY <2>3, <2>4, NextSeasonMoves
  <2>6. /\ n.frames = Source!Put(r.frames, k, v) /\ n.files = <<>> /\ RunTyped(n)
      BY <2>2, <2>3, <2>5 DEF Turned, Filled
  <2>7. /\ DOMAIN r.frames = BeforeCursor(r) /\ AllUsable(r.frames)
        /\ Cached(r.frames, DOMAIN r.frames, src_cache)
      BY <1>2 DEF RunHolds, Active, RunSteps
  <2>8. /\ DOMAIN n.frames = BeforeCursor(r) \cup {k} /\ AllUsable(n.frames)
        /\ Cached(n.frames, DOMAIN n.frames, src_cache)
    <3>1. PICK x1, u, c : x1 = r.frames /\ u = n.frames /\ c = src_cache OBVIOUS
    <3>2. /\ u = Source!Put(x1, k, v) /\ v = c[k] /\ DOMAIN x1 = BeforeCursor(r)
          /\ AllUsable(x1) /\ Cached(x1, DOMAIN x1, c) /\ Source!Usable(v, k[2])
        BY <1>4, <1>8, <2>6, <2>7, <3>1, Zenon
    <3>3. /\ DOMAIN u = DOMAIN x1 \cup {k}
          /\ AllUsable(x1) /\ Source!Usable(v, k[2]) => AllUsable(u)
          /\ Cached(x1, DOMAIN x1, c) /\ v = c[k] => Cached(u, DOMAIN u, c)
        BY <3>2, PutKeeps
    <3>4. DOMAIN u = BeforeCursor(r) \cup {k} /\ AllUsable(u) /\ Cached(u, DOMAIN u, c)
        BY <3>2, <3>3
    <3> QED BY <3>1, <3>4, Zenon
  <2>9. DOMAIN n.files = {} BY <2>6
  <2>10. RunHolds(n, src_cache, src_tmp, src_manifests)
      BY <2>3, <2>5, <2>6, <2>8, <2>9 DEF RunHolds, Active, RunSteps, Cached
  <2> QED BY <1>1, <1>2, <2>6, <2>10 DEF SourceInv
<1> QED BY <1>6, <1>7, <1>8

\* A delivery is written to a temporary file only when it is usable.
LEMMA LoadHolds ==
    ASSUME SourceInv, NEW v, Source!Load(v)
    PROVE  SourceInv'
<1>1. PICK r, n : r = src_run /\ n = src_run' OBVIOUS
<1>2. /\ OnFiles(src_cache) /\ OnFiles(src_tmp) /\ RunTyped(r)
      /\ RunHolds(r, src_cache, src_tmp, src_manifests)
      /\ UNCHANGED <<src_cache, src_manifests>> /\ r.at = "load"
    BY <1>1 DEF SourceInv, Source!Load
<1>3. PICK k : k = AtCursor(r) OBVIOUS
<1>5. k = Source!Here BY <1>1, <1>3 DEF AtCursor, Source!Here
<1>6. \/ n = Source!Ended("failed") /\ src_tmp' = src_tmp
      \/ /\ Source!Usable(v, k[2]) /\ src_tmp' = [src_tmp EXCEPT ![k] = Partial]
         /\ n = [r EXCEPT !.at = "fill", !.frames = Source!Put(@, k, v)]
    BY <1>1, <1>5 DEF Source!Load
<1>7. CASE n = Source!Ended("failed") /\ src_tmp' = src_tmp
  <2>1. RunTyped(n) /\ RunHolds(n, src_cache, src_tmp, src_manifests) BY <1>7, EndedRun
  <2> QED BY <1>1, <1>2, <1>7, <2>1 DEF SourceInv
<1>8. CASE /\ Source!Usable(v, k[2]) /\ src_tmp' = [src_tmp EXCEPT ![k] = Partial]
           /\ n = [r EXCEPT !.at = "fill", !.frames = Source!Put(@, k, v)]
  <2>1. "fill" \in RunSteps /\ "fill" \in Active BY DEF RunSteps, Active
  <2>2. Filled(r, n, "fill", Source!Put(r.frames, k, v), r.files)
      BY <1>2, <1>8, <2>1, RunFills, Zenon
  <2>3. CursorIn(r) /\ r.files = <<>> BY <1>2 DEF RunHolds, Active, RunSteps
  <2>4. /\ BeforeCursor(n) = BeforeCursor(r) /\ AtCursor(n) = k /\ CursorIn(n)
      BY <1>3, <2>2, <2>3, SameCursor DEF Filled
  <2>5. /\ DOMAIN r.frames = BeforeCursor(r) /\ AllUsable(r.frames)
        /\ Cached(r.frames, DOMAIN r.frames, src_cache)
      BY <1>2 DEF RunHolds, Active, RunSteps
  <2>6. n.at = "fill" /\ n.frames = Source!Put(r.frames, k, v) /\ n.files = <<>> /\ RunTyped(n)
      BY <2>2, <2>3 DEF Filled
  <2>7. /\ DOMAIN n.frames = BeforeCursor(r) \cup {k} /\ AllUsable(n.frames)
        /\ Cached(n.frames, DOMAIN n.frames \ {k}, src_cache)
    <3>1. PICK x1, u, c : x1 = r.frames /\ u = n.frames /\ c = src_cache OBVIOUS
    <3>2. /\ u = Source!Put(x1, k, v) /\ DOMAIN x1 = BeforeCursor(r)
          /\ AllUsable(x1) /\ Cached(x1, DOMAIN x1, c) /\ Source!Usable(v, k[2])
        BY <1>8, <2>5, <2>6, <3>1, Zenon
    <3>3. /\ DOMAIN u = DOMAIN x1 \cup {k}
          /\ AllUsable(x1) /\ Source!Usable(v, k[2]) => AllUsable(u)
          /\ Cached(x1, DOMAIN x1, c) => Cached(u, DOMAIN u \ {k}, c)
        BY <3>2, PutKeeps
    <3>4. DOMAIN u = BeforeCursor(r) \cup {k} /\ AllUsable(u) /\ Cached(u, DOMAIN u \ {k}, c)
        BY <3>2, <3>3
    <3> QED BY <3>1, <3>4, Zenon
  <2>8. k \in Source!Files BY <1>2, <1>3, <2>3, RunFields
  <2>9. OnFiles(src_tmp') BY <1>2, <1>8, <2>8, FileChanged
  <2>10. RunHolds(n, src_cache, src_tmp', src_manifests)
      BY <2>1, <2>4, <2>6, <2>7 DEF RunHolds
  <2> QED BY <1>1, <1>2, <2>6, <2>9, <2>10 DEF SourceInv
<1> QED BY <1>6, <1>7, <1>8

\* The temporary file has the whole delivery.
LEMMA FillHolds ==
    ASSUME SourceInv, Source!Fill
    PROVE  SourceInv'
<1>1. PICK r, n : r = src_run /\ n = src_run' OBVIOUS
<1>2. PICK k : k = AtCursor(r) OBVIOUS
<1>3. k = Source!Here BY <1>1, <1>2 DEF AtCursor, Source!Here
<1>4. /\ OnFiles(src_cache) /\ OnFiles(src_tmp) /\ RunTyped(r)
      /\ RunHolds(r, src_cache, src_tmp, src_manifests)
      /\ UNCHANGED <<src_cache, src_manifests>> /\ r.at = "fill"
      /\ src_tmp' = [src_tmp EXCEPT ![k] = r.frames[k]]
      /\ n = [r EXCEPT !.at = "replace"]
    BY <1>1, <1>3 DEF SourceInv, Source!Fill
<1>5. "replace" \in RunSteps /\ "replace" \in Active BY DEF RunSteps, Active
<1>6. Turned(r, n, "replace", r.dataset, r.season)
  <2>1. Turned(r, [r EXCEPT !.at = "replace"], "replace", r.dataset, r.season)
      BY <1>4, <1>5, RunTurns
  <2> QED BY <1>4, <2>1, Zenon
<1>7. CursorIn(r) /\ AllUsable(r.frames) /\ r.files = <<>>
      /\ DOMAIN r.frames = BeforeCursor(r) \cup {k}
      /\ Cached(r.frames, DOMAIN r.frames \ {k}, src_cache)
    BY <1>2, <1>4 DEF RunHolds, Active, RunSteps
<1>8. /\ BeforeCursor(n) = BeforeCursor(r) /\ AtCursor(n) = k /\ CursorIn(n)
      /\ n.at = "replace" /\ n.frames = r.frames /\ n.files = r.files /\ RunTyped(n)
    BY <1>2, <1>6, <1>7, SameCursor DEF Turned
<1>9. k \in Source!Files BY <1>2, <1>4, <1>7, RunFields
<1>10. OnFiles(src_tmp') /\ src_tmp'[k] = r.frames[k]
  <2>1. PICK v : v = r.frames[k] OBVIOUS
  <2>2. PICK t, u : t = src_tmp /\ u = src_tmp' OBVIOUS
  <2>3. u = [t EXCEPT ![k] = v] /\ OnFiles(t) BY <1>4, <2>1, <2>2, Zenon
  <2>4. OnFiles(u) BY <1>9, <2>3, FileChanged
  <2>5. u[k] = v BY <1>9, <2>3 DEF OnFiles
  <2> QED BY <2>1, <2>2, <2>4, <2>5, Zenon
<1>11. RunHolds(n, src_cache, src_tmp', src_manifests)
    BY <1>5, <1>7, <1>8, <1>10 DEF RunHolds
<1> QED BY <1>1, <1>4, <1>8, <1>10, <1>11 DEF SourceInv

\* A usable season is replaced by what was filled in, which is usable.
LEMMA ReplaceHolds ==
    ASSUME SourceInv, Source!Replace
    PROVE  /\ SourceInv'
           /\ \A f \in Source!Files :
                 Source!Usable(src_cache[f], f[2]) => Source!Usable(src_cache'[f], f[2])
<1>1. PICK r, n : r = src_run /\ n = src_run' OBVIOUS
<1>2. PICK k : k = AtCursor(r) OBVIOUS
<1>3. k = Source!Here BY <1>1, <1>2 DEF AtCursor, Source!Here
<1>4. PICK t, u, c, e : t = src_tmp /\ u = src_tmp' /\ c = src_cache /\ e = src_cache' OBVIOUS
<1>5. PICK x : x = Source!NextSeason(r, "fetch") OBVIOUS
<1>6. /\ OnFiles(c) /\ OnFiles(t) /\ RunTyped(r)
      /\ RunHolds(r, c, t, src_manifests)
      /\ UNCHANGED src_manifests /\ r.at = "replace"
      /\ e = [c EXCEPT ![k] = t[k]] /\ u = [t EXCEPT ![k] = Absent]
      /\ n = IF x.at = "replace" THEN [x EXCEPT !.at = "load"] ELSE x
    BY <1>1, <1>3, <1>4, <1>5 DEF SourceInv, Source!Replace
<1>7. /\ CursorIn(r) /\ AllUsable(r.frames) /\ r.files = <<>>
      /\ DOMAIN r.frames = BeforeCursor(r) \cup {k}
      /\ Cached(r.frames, DOMAIN r.frames \ {k}, c)
      /\ t[k] = r.frames[k]
    BY <1>2, <1>6 DEF RunHolds, Active, RunSteps
<1>8. k \in Source!Files BY <1>2, <1>6, <1>7, RunFields
<1>9. OnFiles(e) /\ OnFiles(u)
  <2>1. PICK v, w : v = t[k] /\ w = Absent OBVIOUS
  <2>2. e = [c EXCEPT ![k] = v] /\ u = [t EXCEPT ![k] = w] BY <1>6, <2>1, Zenon
  <2>3. OnFiles(c) /\ OnFiles(t) BY <1>6
  <2>4. OnFiles(e) BY <2>2, <2>3 DEF OnFiles, IsTable
  <2>5. OnFiles(u) BY <2>2, <2>3 DEF OnFiles, IsTable
  <2> QED BY <2>4, <2>5
<1>10. e[k] = r.frames[k] /\ \A f : f # k => e[f] = c[f]
  <2>1. DOMAIN c = Source!Files BY <1>6 DEF OnFiles
  <2>2. e[k] = t[k] BY <1>6, <1>8, <2>1
  <2>3. ASSUME NEW f, f # k PROVE e[f] = c[f] BY <1>6, <2>3
  <2> QED BY <1>7, <2>2, <2>3
<1>11. Source!Usable(e[k], k[2])
  <2>1. k \in DOMAIN r.frames BY <1>7
  <2> QED BY <1>7, <1>10, <2>1, Zenon DEF AllUsable
<1>12. Cached(r.frames, DOMAIN r.frames, e)
    BY <1>7, <1>10 DEF Cached
<1>13. /\ Turned(r, x, x.at, x.dataset, x.season) /\ CursorIn(x) /\ Whole(x) = Whole(r)
       /\ \/ x.at \in {"replace", "fetch"} /\ BeforeCursor(x) = BeforeCursor(r) \cup {k}
          \/ /\ x.at = "describe" /\ BeforeCursor(x) = {}
             /\ Whole(r) = BeforeCursor(r) \cup {k}
    BY <1>2, <1>5, <1>6, <1>7, NextSeasonMoves
<1>14. /\ RunTyped(n) /\ n.frames = r.frames /\ n.files = <<>>
       /\ n.at = (IF x.at = "replace" THEN "load" ELSE x.at)
       /\ n.dataset = x.dataset /\ n.season = x.season
       /\ n.wanted = x.wanted /\ n.seasons = x.seasons
  <2>1. RunTyped(x) /\ x.frames = r.frames /\ x.files = <<>> BY <1>7, <1>13 DEF Turned
  <2>2. CASE x.at = "replace"
    <3>1. "load" \in RunSteps BY DEF RunSteps
    <3>2. Turned(x, [x EXCEPT !.at = "load"], "load", x.dataset, x.season) BY <2>1, <3>1, RunTurns
    <3>3. n = [x EXCEPT !.at = "load"] BY <1>6, <2>2
    <3>4. Turned(x, n, "load", x.dataset, x.season) BY <3>2, <3>3, Zenon
    <3> QED BY <2>1, <2>2, <3>4 DEF Turned
  <2>3. CASE x.at # "replace"
    <3>1. n = x BY <1>6, <2>3
    <3> QED BY <2>1, <2>3, <3>1
  <2> QED BY <2>2, <2>3
<1>15. /\ BeforeCursor(n) = BeforeCursor(x) /\ Whole(n) = Whole(r) /\ CursorIn(n)
    BY <1>13, <1>14, SameCursor
<1>16. DOMAIN n.files = {} BY <1>14
<1>17. RunHolds(n, e, u, src_manifests)
    BY <1>7, <1>12, <1>13, <1>14, <1>15, <1>16 DEF RunHolds, Active, RunSteps, Cached
<1>18. \A f \in Source!Files :
          Source!Usable(c[f], f[2]) => Source!Usable(e[f], f[2])
  <2>1. ASSUME NEW f \in Source!Files, Source!Usable(c[f], f[2])
        PROVE  Source!Usable(e[f], f[2])
    <3>1. CASE f = k BY <1>11, <3>1, Zenon
    <3>2. CASE f # k
      <4>1. e[f] = c[f] BY <1>10, <3>2
      <4> QED BY <2>1, <4>1, Zenon
    <3> QED BY <3>1, <3>2
  <2> QED BY <2>1
<1> QED BY <1>1, <1>4, <1>6, <1>9, <1>14, <1>17, <1>18, Zenon DEF SourceInv

\* What is described is what is in the cache.
LEMMA DescribeHolds ==
    ASSUME SourceInv, Source!Describe
    PROVE  SourceInv'
<1>1. PICK r, n : r = src_run /\ n = src_run' OBVIOUS
<1>2. /\ OnFiles(src_cache) /\ OnFiles(src_tmp) /\ RunTyped(r)
      /\ RunHolds(r, src_cache, src_tmp, src_manifests)
      /\ UNCHANGED <<src_cache, src_tmp, src_manifests>> /\ r.at = "describe"
    BY <1>1 DEF SourceInv, Source!Describe
<1>3. PICK k, c : k = AtCursor(r) /\ c = src_cache OBVIOUS
<1>4. PICK v : v = c[k] OBVIOUS
<1>5. k = Source!Here BY <1>1, <1>3 DEF AtCursor, Source!Here
<1>6. PICK x : x = [r EXCEPT !.files = Source!Put(@, k, v)] OBVIOUS
<1>7. n = Source!NextSeason(x, "describe")
    BY <1>1, <1>3, <1>4, <1>5, <1>6, Zenon DEF Source!Describe
<1>8. Filled(r, x, r.at, r.frames, Source!Put(r.files, k, v))
  <2>1. r.at \in RunSteps BY <1>2, RunFields
  <2> QED BY <1>2, <1>6, <2>1, RunFills, Zenon
<1>9. /\ CursorIn(r) /\ AllUsable(r.frames)
      /\ DOMAIN r.frames = Whole(r) /\ Cached(r.frames, DOMAIN r.frames, c)
      /\ Cached(r.files, DOMAIN r.files, c) /\ DOMAIN r.files = BeforeCursor(r)
    BY <1>2, <1>3 DEF RunHolds, Active, RunSteps
<1>10. /\ BeforeCursor(x) = BeforeCursor(r) /\ AtCursor(x) = k
       /\ Whole(x) = Whole(r) /\ CursorIn(x) /\ RunTyped(x) /\ x.at = "describe"
       /\ x.frames = r.frames /\ x.files = Source!Put(r.files, k, v)
    BY <1>2, <1>3, <1>8, <1>9, SameCursor DEF Filled
<1>11. /\ Turned(x, n, n.at, n.dataset, n.season) /\ CursorIn(n) /\ Whole(n) = Whole(x)
       /\ \/ n.at = "describe" /\ BeforeCursor(n) = BeforeCursor(x) \cup {k}
          \/ /\ n.at = "write manifest" /\ BeforeCursor(n) = {}
             /\ Whole(x) = BeforeCursor(x) \cup {k}
    BY <1>7, <1>10, NextSeasonMoves
<1>12. n.frames = r.frames /\ n.files = x.files /\ RunTyped(n) BY <1>10, <1>11 DEF Turned
<1>13. DOMAIN n.files = BeforeCursor(r) \cup {k} /\ Cached(n.files, DOMAIN n.files, c)
  <2>1. PICK y, u : y = r.files /\ u = n.files OBVIOUS
  <2>2. u = Source!Put(y, k, v) /\ v = c[k] /\ Cached(y, DOMAIN y, c) /\ DOMAIN y = BeforeCursor(r)
      BY <1>4, <1>9, <1>10, <1>12, <2>1, Zenon
  <2>3. /\ DOMAIN u = DOMAIN y \cup {k}
        /\ Cached(y, DOMAIN y, c) /\ v = c[k] => Cached(u, DOMAIN u, c)
      BY <2>2, PutKeeps
  <2> QED BY <2>1, <2>2, <2>3, Zenon
<1>14. RunHolds(n, c, src_tmp, src_manifests)
    BY <1>9, <1>10, <1>11, <1>12, <1>13 DEF RunHolds, Active, RunSteps
<1> QED BY <1>1, <1>2, <1>3, <1>12, <1>14 DEF SourceInv

\* The manifest describes the frames: both are what the cache has, of the same files.
LEMMA WriteManifestHolds ==
    ASSUME SourceInv, Source!WriteManifest
    PROVE  SourceInv'
<1>1. PICK r, n : r = src_run /\ n = src_run' OBVIOUS
<1>2. /\ OnFiles(src_cache) /\ OnFiles(src_tmp) /\ RunTyped(r)
      /\ RunHolds(r, src_cache, src_tmp, src_manifests)
      /\ UNCHANGED <<src_cache, src_tmp>> /\ r.at = "write manifest"
      /\ src_manifests' = src_manifests \cup {r.files} /\ n = [r EXCEPT !.at = "done"]
    BY <1>1 DEF SourceInv, Source!WriteManifest
<1>3. "done" \in RunSteps /\ "done" \notin Active BY DEF RunSteps, Active
<1>4. Turned(r, n, "done", r.dataset, r.season)
  <2>1. Turned(r, [r EXCEPT !.at = "done"], "done", r.dataset, r.season) BY <1>2, <1>3, RunTurns
  <2> QED BY <1>2, <2>1, Zenon
<1>5. /\ AllUsable(r.frames) /\ DOMAIN r.frames = Whole(r) /\ DOMAIN r.files = Whole(r)
      /\ Cached(r.frames, DOMAIN r.frames, src_cache)
      /\ Cached(r.files, DOMAIN r.files, src_cache)
    BY <1>2 DEF RunHolds, Active, RunSteps
<1>6. r.files = r.frames
  <2>1. PICK a, b : a = r.files /\ b = r.frames OBVIOUS
  <2>2. DOMAIN a = DOMAIN b /\ \A f \in DOMAIN a : a[f] = b[f]
      BY <1>5, <2>1 DEF Cached
  <2>3. a = [f \in DOMAIN a |-> a[f]] /\ b = [f \in DOMAIN b |-> b[f]]
      BY <1>2, <2>1 DEF RunTyped, IsTable
  <2>4. a = b BY <2>2, <2>3
  <2> QED BY <2>1, <2>4
<1>7. /\ Whole(n) = Whole(r) /\ n.at = "done" /\ n.frames = r.frames /\ n.files = r.files
      /\ RunTyped(n)
    BY <1>4, SameCursor DEF Turned
<1>8. RunHolds(n, src_cache, src_tmp, src_manifests')
  <2>1. PICK m : m = src_manifests' OBVIOUS
  <2>2. /\ n.files = n.frames /\ DOMAIN n.frames = Whole(n) /\ AllUsable(n.frames)
        /\ n.files \in m
    <3>1. n.frames = r.frames /\ n.files = r.frames BY <1>6, <1>7
    <3>2. AllUsable(n.frames) BY <1>5, <3>1, Zenon
    <3>3. n.files \in m
      <4>1. PICK e, o : e = r.files /\ o = src_manifests OBVIOUS
      <4>2. m = o \cup {e} /\ n.files = e BY <1>2, <1>7, <2>1, <4>1, Zenon
      <4> QED BY <4>2
    <3> QED BY <1>5, <1>7, <3>1, <3>2, <3>3
  <2>3. RunHolds(n, src_cache, src_tmp, m) BY <1>3, <1>7, <2>2 DEF RunHolds
  <2> QED BY <2>1, <2>3
<1> QED BY <1>1, <1>2, <1>7, <1>8 DEF SourceInv

\* A download is asked for some of the datasets and seasons there are.
LEMMA DownloadHolds ==
    ASSUME SourceInv, NEW w \in Source!Sublists(Datasets), NEW s \in Source!Sublists(SourceSeasons),
           NEW g, Source!Download(w, s, g)
    PROVE  SourceInv'
<1>1. /\ w # <<>> /\ s # <<>> /\ UNCHANGED <<src_cache, src_tmp, src_manifests>>
      /\ src_run' = [Source!Ready EXCEPT !.at = "fetch", !.force = g,
                                        !.wanted = w, !.seasons = s]
    BY DEF Source!Download
<1>2. Datasets \in Seq(AskedDatasets) /\ SourceSeasons \in Seq(AskedSeasons)
    BY PipelineAssumption DEF Source!SourceCacheAssumption, AskedDatasets, AskedSeasons
<1>3. ASSUME NEW S, NEW q \in Seq(S), NEW x \in Source!Sublists(q)
      PROVE  x \in Seq(S)
  <2>1. PICK i \in 1 .. Len(q), j \in 1 .. Len(q) : x = SubSeq(q, i, j)
      BY DEF Source!Sublists
  <2>2. i \in 1 .. Len(q) + 1 /\ j \in 0 .. Len(q) BY <2>1
  <2> QED BY <2>1, <2>2, SubSeqProperties
<1>4. w \in Seq(AskedDatasets) /\ s \in Seq(AskedSeasons) BY <1>2, <1>3
<1>5. PICK n : n = src_run' OBVIOUS
<1>6. RunTyped(n) /\ RunHolds(n, src_cache, src_tmp, src_manifests)
  <2>1. n = [Source!Ready EXCEPT !.at = "fetch", !.force = g, !.wanted = w, !.seasons = s]
      BY <1>1, <1>5, Zenon
  <2> QED BY <1>1, <1>4, <2>1, AskedRun, Zenon
<1> QED BY <1>1, <1>5, <1>6 DEF SourceInv

\* Every step of a download keeps what it has in hand true of the cache, and no usable
\* season is lost.
LEMMA SourceStep ==
    ASSUME SourceInv, [Source!Next]_(Source!vars)
    PROVE  /\ SourceInv'
           /\ \A f \in Source!Files :
                 Source!Usable(src_cache[f], f[2]) => Source!Usable(src_cache'[f], f[2])
<1>1. CASE \E w \in Source!Sublists(Datasets), s \in Source!Sublists(SourceSeasons),
              g \in BOOLEAN : Source!Download(w, s, g)
  <2>1. SourceInv' BY <1>1, DownloadHolds
  <2>2. UNCHANGED src_cache BY <1>1 DEF Source!Download
  <2> QED BY <2>1, <2>2
<1>2. CASE Source!Fetch
  <2>1. SourceInv' BY <1>2, FetchHolds
  <2>2. UNCHANGED src_cache BY <1>2 DEF Source!Fetch
  <2> QED BY <2>1, <2>2
<1>3. CASE Source!ReadCached
  <2>1. SourceInv' BY <1>3, ReadCachedHolds
  <2>2. UNCHANGED src_cache BY <1>3 DEF Source!ReadCached
  <2> QED BY <2>1, <2>2
<1>4. CASE \E v \in Deliveries : Source!Load(v)
  <2>1. SourceInv' BY <1>4, LoadHolds
  <2>2. UNCHANGED src_cache BY <1>4 DEF Source!Load
  <2> QED BY <2>1, <2>2
<1>5. CASE Source!Fill
  <2>1. SourceInv' BY <1>5, FillHolds
  <2>2. UNCHANGED src_cache BY <1>5 DEF Source!Fill
  <2> QED BY <2>1, <2>2
<1>6. CASE Source!Replace BY <1>6, ReplaceHolds
<1>7. CASE Source!Describe
  <2>1. SourceInv' BY <1>7, DescribeHolds
  <2>2. UNCHANGED src_cache BY <1>7 DEF Source!Describe
  <2> QED BY <2>1, <2>2
<1>8. CASE Source!WriteManifest
  <2>1. SourceInv' BY <1>8, WriteManifestHolds
  <2>2. UNCHANGED src_cache BY <1>8 DEF Source!WriteManifest
  <2> QED BY <2>1, <2>2
<1>9. CASE Source!Stop
  <2>1. /\ src_run' = Source!Ended("failed")
        /\ UNCHANGED <<src_cache, src_tmp, src_manifests>>
      BY <1>9 DEF Source!Stop
  <2>2. PICK n : n = src_run' OBVIOUS
  <2>3. RunTyped(n) /\ RunHolds(n, src_cache, src_tmp, src_manifests) BY <2>1, <2>2, EndedRun
  <2>4. SourceInv' BY <2>1, <2>2, <2>3 DEF SourceInv
  <2> QED BY <2>1, <2>4
<1>10. CASE UNCHANGED Source!vars
  <2>1. UNCHANGED <<src_cache, src_tmp, src_manifests, src_run>> BY <1>10 DEF Source!vars
  <2>2. SourceInv' BY <2>1 DEF SourceInv
  <2> QED BY <2>1, <2>2
<1> QED BY <1>1, <1>2, <1>3, <1>4, <1>5, <1>6, <1>7, <1>8, <1>9, <1>10 DEF Source!Next

\* Whatever the cache holds at first.
LEMMA SourceBegins ==
    ASSUME Source!Init
    PROVE  SourceInv
<1>1. /\ src_cache \in Caches /\ src_tmp = [f \in Source!Files |-> Absent]
      /\ src_run = Source!Ready
    BY DEF Source!Init
<1>2. Caches \subseteq [Source!Files -> Deliveries \cup {Absent, Partial}]
    BY PipelineAssumption DEF Source!SourceCacheAssumption
<1>3. OnFiles(src_cache) /\ OnFiles(src_tmp) BY <1>1, <1>2 DEF OnFiles, IsTable
<1>4. RunTyped(src_run) /\ src_run.at = "ready" BY <1>1, IdleRun
<1>5. RunHolds(src_run, src_cache, src_tmp, src_manifests) BY <1>4 DEF RunHolds, Active
<1> QED BY <1>3, <1>4, <1>5 DEF SourceInv

\* All the files of a run are those of the datasets and seasons it was asked for.
LEMMA WholeRun ==
    ASSUME NEW r, RunTyped(r)
    PROVE  Whole(r) = Source!ToSet(r.wanted) \X Source!ToSet(r.seasons)
<1> DEFINE w == r.wanted
           s == r.seasons
<1>1. w \in Seq(AskedDatasets) /\ s \in Seq(AskedSeasons) BY RunFields
<1> HIDE DEF w, s
<1>2. /\ DOMAIN w = 1 .. Len(w) /\ DOMAIN s = 1 .. Len(s)
      /\ \A i \in DOMAIN w : w[i] \in AskedDatasets
      /\ \A i \in DOMAIN s : s[i] \in AskedSeasons
    BY <1>1
<1>3. {f \in Source!Files : \E d \in DOMAIN w, e \in DOMAIN s : f = <<w[d], s[e]>>}
        = Source!ToSet(w) \X Source!ToSet(s)
    BY <1>2 DEF Source!Files, Source!ToSet, AskedDatasets, AskedSeasons
<1> QED BY <1>2, <1>3 DEF Whole, w, s

\* Whatever the cache held at first, whatever the source delivers and wherever a
\* download stops: one that returns gives usable frames and a manifest of the same
\* bytes, of all that was asked for, and a usable season is only ever replaced by a
\* usable one (NflverseAdapter.download).
THEOREM DownloadsStayDescribed == Source!Spec => DownloadsAreDescribed
<1>1. Source!Init => SourceInv BY SourceBegins
<1>2. SourceInv /\ [Source!Next]_(Source!vars) => SourceInv' BY SourceStep
<1>3. SourceInv => Source!ManifestDescribesTheFrames
  <2>1. SUFFICES ASSUME SourceInv, src_run.at = "done"
                 PROVE  /\ src_run.files = src_run.frames
                        /\ DOMAIN src_run.frames
                             = Source!ToSet(src_run.wanted) \X Source!ToSet(src_run.seasons)
                        /\ src_run.files \in src_manifests
      BY DEF Source!ManifestDescribesTheFrames
  <2>2. Whole(src_run) = Source!ToSet(src_run.wanted) \X Source!ToSet(src_run.seasons)
      BY <2>1, WholeRun DEF SourceInv
  <2> QED BY <2>1, <2>2 DEF SourceInv, RunHolds
<1>4. SourceInv => Source!FramesAreUsable
    BY DEF SourceInv, RunHolds, AllUsable, Source!FramesAreUsable
<1>5. SourceInv /\ [Source!Next]_(Source!vars) =>
        [\A f \in Source!Files :
            Source!Usable(src_cache[f], f[2]) => Source!Usable(src_cache'[f], f[2])]_(Source!vars)
    BY SourceStep
<1> QED BY <1>1, <1>2, <1>3, <1>4, <1>5, PTL
         DEF Source!Spec, DownloadsAreDescribed, Source!CacheStaysUsable

-----------------------------------------------------------------------------
(* Histories and the games they tell of                                     *)

\* The games of S one after the other.
InTurn(gs, S) ==
    /\ gs \in Seq(S)
    /\ \A h \in S : h.kickoff \in Int /\ \E i \in DOMAIN gs : gs[i] = h
    /\ \A m, n \in DOMAIN gs : m < n => gs[m].kickoff < gs[n].kickoff

\* A history s has of each of the games gs what V says of it.
Tells(s, gs, V) ==
    /\ s \in Seq(Nat \cup {None})
    /\ Len(s) = Len(gs)
    /\ \A i \in DOMAIN gs : s[i] = V[gs[i]]

\* The fold of the model is the sum.
LEMMA SumOnSet ==
    ASSUME NEW S, IsFiniteSet(S), NEW f, NaturalOn(f, S)
    PROVE  SumFunctionOnSet(f, S) = TotalOf(f, S)
<1> DEFINE R(h) == [t \in SUBSET S |->
                      IF t = {} THEN 0
                      ELSE f[CHOOSE x \in t : TRUE] + h[t \ {CHOOSE x \in t : TRUE}]]
           iter == CHOOSE h : h = R(h)
<1>1. SumFunctionOnSet(f, S) = iter[S]
    BY DEF SumFunctionOnSet, FoldFunctionOnSet, MapThenFoldSet
<1>2. ASSUME NEW h PROVE h = R(h) <=> Summing(h, f, S)
    BY DEF Summing, Taken
<1>3. iter = R(iter)
  <2>1. PICK k : Summing(k, f, S) BY FoldIsSum
  <2>2. k = R(k) BY <1>2, <2>1
  <2> HIDE DEF R
  <2> QED BY <2>2
<1> HIDE DEF iter
<1>4. Summing(iter, f, S) BY <1>2, <1>3
<1> QED BY <1>1, <1>4, FoldIsSum

\* A sum does not depend on what its elements are called.
LEMMA SumRenamed ==
    ASSUME NEW I, IsFiniteSet(I), NEW b, \A i, j \in I : b[i] = b[j] => i = j,
           NEW S, \A i \in I : b[i] \in S, \A x \in S : \E i \in I : b[i] = x,
           NEW f, NaturalOn(f, S),
           NEW h, \A i \in I : h[i] = f[b[i]]
    PROVE  TotalOf(h, I) = TotalOf(f, S)
<1> DEFINE Named(J) == {b[i] : i \in J}
           g == [J \in SUBSET I |-> TotalOf(f, Named(J))]
<1>0. S = Named(I) OBVIOUS
<1>1. IsFiniteSet(S)
  <2>1. [i \in I |-> b[i]] \in Surjection(I, S) BY <1>0 DEF Surjection
  <2> QED BY <2>1, FS_Surjection
<1>2. NaturalOn(h, I) BY DEF NaturalOn
<1>3. \A J \in SUBSET I : Named(J) \in SUBSET S OBVIOUS
<1>4. /\ TotalOf(f, {}) = 0
      /\ \A T \in SUBSET S : TotalOf(f, T) \in Nat
      /\ \A T \in SUBSET S : \A x \in T : TotalOf(f, T) = f[x] + TotalOf(f, T \ {x})
    BY <1>1, SumAdds
<1>5. ASSUME NEW J \in SUBSET I, NEW i \in J
      PROVE  g[J] = h[i] + g[J \ {i}]
  <2>1. b[i] \in Named(J) /\ Named(J \ {i}) = Named(J) \ {b[i]} OBVIOUS
  <2>2. J \ {i} \in SUBSET I OBVIOUS
  <2>3. g[J] = TotalOf(f, Named(J)) /\ g[J \ {i}] = TotalOf(f, Named(J \ {i})) BY <2>2
  <2> HIDE DEF Named, g
  <2>4. TotalOf(f, Named(J)) = f[b[i]] + TotalOf(f, Named(J) \ {b[i]}) BY <1>3, <1>4, <2>1
  <2> QED BY <2>1, <2>3, <2>4
<1>6. g[{}] = 0
  <2>1. Named({}) = {} OBVIOUS
  <2> QED BY <1>4, <2>1
<1>7. g \in [SUBSET I -> Nat] BY <1>3, <1>4
<1> HIDE DEF g
<1>8. Adds(g, h, I) BY <1>5, <1>6, <1>7 DEF Adds
<1>9. TotalOf(h, I) = g[I]
  <2>1. I \in SUBSET I OBVIOUS
  <2> QED BY <1>2, <1>8, <2>1, SumIsAdded
<1> QED BY <1>0, <1>9 DEF g

\* The larger of two numbers, as the library picks it.
LEMMA MaxOfTwo ==
    ASSUME NEW a \in Int, NEW b \in Int
    PROVE  Max({a, b}) = IF a >= b THEN a ELSE b
<1> DEFINE m == IF a >= b THEN a ELSE b
<1>1. m \in {a, b} /\ \A y \in {a, b} : m >= y OBVIOUS
<1>2. \A x \in {a, b} : (\A y \in {a, b} : x >= y) => x = m OBVIOUS
<1> QED BY <1>1, <1>2 DEF Max

\* Where the last n of a history of N begin.
From(N, n) == IF N - n + 1 >= 1 THEN N - n + 1 ELSE 1

\* What s has from place a on.
IsStretch(t, s, a, X) ==
    /\ a \in Nat \ {0} /\ a <= Len(s) + 1
    /\ t \in Seq(X) /\ Len(t) = Len(s) - a + 1
    /\ \A i \in 1 .. (Len(s) - a + 1) : t[i] = s[a + i - 1]

\* The last n of a history.
LEMMA LastOfIs ==
    ASSUME NEW X, NEW s \in Seq(X), NEW n \in Nat
    PROVE  IsStretch(LastOf(s, n), s, From(Len(s), n), X)
<1> DEFINE N == Len(s)
           a == From(N, n)
<1>1. N \in Nat OBVIOUS
<1>2. Max({1, N - n + 1}) = a
  <2>1. N - n + 1 \in Int /\ 1 \in Int BY <1>1
  <2>2. Max({1, N - n + 1}) = IF 1 >= N - n + 1 THEN 1 ELSE N - n + 1
    <3> HIDE DEF N
    <3> QED BY <2>1, MaxOfTwo
  <2> QED BY <2>1, <2>2 DEF From
<1>3. a \in Nat \ {0} /\ a <= N + 1 BY <1>1 DEF From
<1>4. LastOf(s, n) = SubSeq(s, a, N) BY <1>2 DEF LastOf
<1> HIDE DEF a
<1>5. SubSeq(s, a, N) = [i \in 1 .. (N - a + 1) |-> s[a + i - 1]]
  <2>1. SubSeq(s, a, N) = [i \in 1 .. (1 + N - a) |-> s[a + i - 1]] BY <1>1, <1>3
  <2>2. 1 + N - a = N - a + 1 BY <1>1, <1>3
  <2> QED BY <2>1, <2>2
<1>6. N - a + 1 \in Nat BY <1>1, <1>3
<1>7. \A i \in 1 .. (N - a + 1) : s[a + i - 1] \in X
  <2>1. \A i \in 1 .. (N - a + 1) : a + i - 1 \in 1 .. N BY <1>1, <1>3
  <2> QED BY <2>1
<1>8. LastOf(s, n) \in Seq(X) /\ Len(LastOf(s, n)) = N - a + 1
  <2> HIDE DEF N
  <2> QED BY <1>4, <1>5, <1>6, <1>7
<1> QED BY <1>3, <1>4, <1>5, <1>8 DEF a, IsStretch

\* Games in turn are each there once, and are as many as their set has.
LEMMA InTurnOnce ==
    ASSUME NEW gs, NEW S, InTurn(gs, S)
    PROVE  /\ Len(gs) \in Nat /\ DOMAIN gs = 1 .. Len(gs)
           /\ \A i \in DOMAIN gs : gs[i] \in S /\ gs[i].kickoff \in Int
           /\ \A i, j \in DOMAIN gs : gs[i] = gs[j] => i = j
           /\ S = {gs[i] : i \in DOMAIN gs}
           /\ IsFiniteSet(S) /\ Cardinality(S) = Len(gs)
<1>1. Len(gs) \in Nat /\ DOMAIN gs = 1 .. Len(gs) /\ \A i \in DOMAIN gs : gs[i] \in S
    BY DEF InTurn
<1>2. \A i \in DOMAIN gs : gs[i].kickoff \in Int BY <1>1 DEF InTurn
<1>3. ASSUME NEW i \in DOMAIN gs, NEW j \in DOMAIN gs, gs[i] = gs[j] PROVE i = j
  <2>1. i \in Nat /\ j \in Nat BY <1>1
  <2>2. ~(i < j) /\ ~(j < i) BY <1>2, <1>3 DEF InTurn
  <2> QED BY <2>1, <2>2
<1>4. S = {gs[i] : i \in DOMAIN gs} BY <1>1 DEF InTurn
<1>5. IsFiniteSet(S) /\ Cardinality(S) = Len(gs)
  <2> DEFINE I == 1 .. Len(gs)
  <2>1. IsFiniteSet(I) /\ Cardinality(I) = Len(gs)
    <3> DEFINE N == Len(gs)
    <3>1. N \in Nat /\ N \in Int /\ 1 \in Int BY <1>1
    <3> HIDE DEF N
    <3>2. IsFiniteSet(1 .. N) /\ Cardinality(1 .. N) = IF 1 > N THEN 0 ELSE N - 1 + 1
        BY <3>1, FS_Interval, Zenon
    <3>3. Cardinality(1 .. N) = N BY <3>1, <3>2
    <3> QED BY <3>2, <3>3 DEF N
  <2>2. gs \in Surjection(I, S)
    <3>1. gs \in [I -> S] BY <1>1 DEF InTurn
    <3> QED BY <1>1, <1>4, <3>1 DEF Surjection
  <2>3. gs \in Injection(I, S)
    <3>1. gs \in [I -> S] BY <1>1 DEF InTurn
    <3> QED BY <1>1, <1>3, <3>1 DEF Injection, IsInjective
  <2> HIDE DEF I
  <2> QED BY <2>1, <2>2, <2>3, FS_Surjection
<1> QED BY <1>1, <1>2, <1>3, <1>4, <1>5

\* The games that n games at the most come after are the last n.
LEMMA LatestAreLast ==
    ASSUME NEW gs, NEW S, InTurn(gs, S), NEW n \in Nat
    PROVE  Latest(S, n) = {gs[i] : i \in From(Len(gs), n) .. Len(gs)}
<1> DEFINE N == Len(gs)
           a == From(N, n)
<1>1. /\ N \in Nat /\ DOMAIN gs = 1 .. N
      /\ \A i \in DOMAIN gs : gs[i] \in S /\ gs[i].kickoff \in Int
      /\ \A i, j \in DOMAIN gs : gs[i] = gs[j] => i = j
      /\ S = {gs[i] : i \in DOMAIN gs}
    BY InTurnOnce
<1>2. \A m, k \in DOMAIN gs : m < k => gs[m].kickoff < gs[k].kickoff BY DEF InTurn
<1> HIDE DEF N
<1>3. ASSUME NEW j \in 1 .. N
      PROVE  Cardinality({k \in S : k.kickoff > gs[j].kickoff}) = N - j
  <2> DEFINE I == (j + 1) .. N
             T == {k \in S : k.kickoff > gs[j].kickoff}
             f == [i \in I |-> gs[i]]
  <2>1. \A i \in 1 .. N : gs[i].kickoff > gs[j].kickoff <=> i \in I
    <3>1. ASSUME NEW i \in 1 .. N PROVE gs[i].kickoff > gs[j].kickoff <=> i \in I
      <4>1. CASE i < j BY <1>1, <1>2, <4>1
      <4>2. CASE i = j BY <1>1, <4>2
      <4>3. CASE i > j BY <1>1, <1>2, <4>3
      <4> QED BY <1>1, <4>1, <4>2, <4>3
    <3> QED BY <3>1
  <2>2. T = {gs[i] : i \in I}
    <3>1. I \subseteq 1 .. N BY <1>1
    <3> HIDE DEF I
    <3> QED BY <1>1, <2>1, <3>1
  <2>3. I \subseteq 1 .. N BY <1>1
  <2>4. IsFiniteSet(I) /\ Cardinality(I) = N - j
    <3>1. j + 1 \in Int /\ N \in Int BY <1>1
    <3>2. IsFiniteSet(I) /\ Cardinality(I) = IF j + 1 > N THEN 0 ELSE N - (j + 1) + 1
        BY <3>1, FS_Interval, Zenon
    <3>3. (IF j + 1 > N THEN 0 ELSE N - (j + 1) + 1) = N - j BY <1>1
    <3> QED BY <3>2, <3>3
  <2> HIDE DEF I, T
  <2>5. f \in [I -> T] /\ \A i \in I : f[i] = gs[i] BY <2>2
  <2>6. f \in Surjection(I, T) BY <2>2, <2>5 DEF Surjection
  <2>7. f \in Injection(I, T)
    <3>1. \A i, k \in I : f[i] = f[k] => i = k BY <1>1, <2>3, <2>5
    <3>2. DOMAIN f = I OBVIOUS
    <3> HIDE DEF f
    <3> QED BY <2>5, <3>1, <3>2 DEF Injection, IsInjective
  <2> HIDE DEF f
  <2> QED BY <2>4, <2>6, <2>7, FS_Surjection DEF T
<1>4. ASSUME NEW j \in 1 .. N PROVE gs[j] \in Latest(S, n) <=> j \in a .. N
  <2>1. gs[j] \in Latest(S, n) <=> N - j < n BY <1>1, <1>3 DEF Latest
  <2>2. N - j < n <=> j \in a .. N BY <1>1 DEF From
  <2> QED BY <2>1, <2>2
<1>5. Latest(S, n) \subseteq S BY DEF Latest
<1>6. a .. N \subseteq 1 .. N BY <1>1 DEF From
<1>7. Latest(S, n) = {gs[i] : i \in a .. N}
  <2> HIDE DEF a
  <2> QED BY <1>1, <1>4, <1>5, <1>6
<1> QED BY <1>7 DEF N

\* The sum over the whole of a sequence.
LEMMA TotalOfSequence ==
    ASSUME NEW s \in Seq(Nat)
    PROVE  /\ Total(s) = TotalOf(s, 1 .. Len(s))
           /\ IsFiniteSet(1 .. Len(s)) /\ NaturalOn(s, 1 .. Len(s))
           /\ Total(s) \in Nat
<1> DEFINE N == Len(s)
           I == 1 .. N
<1>1. DOMAIN s = I OBVIOUS
<1>2. IsFiniteSet(I)
  <2>1. N \in Nat /\ N \in Int /\ 1 \in Int OBVIOUS
  <2> HIDE DEF N
  <2> QED BY <2>1, FS_Interval
<1>3. NaturalOn(s, I) BY DEF NaturalOn
<1>4. Total(s) = SumFunctionOnSet(s, DOMAIN s)
    BY DEF Total, FoldSeq, FoldFunction, SumFunctionOnSet
<1> HIDE DEF I
<1>5. Total(s) = TotalOf(s, I) BY <1>1, <1>2, <1>3, <1>4, SumOnSet
<1>6. I \in SUBSET I OBVIOUS
<1>7. TotalOf(s, I) \in Nat BY <1>2, <1>3, <1>6, SumAdds
<1> QED BY <1>2, <1>3, <1>5, <1>7 DEF I

\* The places of t are those of the games L in gs from place a on, and t has of each of
\* them what V says.
Matches(t, gs, a, V, L) ==
    LET I == 1 .. (Len(gs) - a + 1)
    IN  /\ t \in Seq(Nat \cup {None}) /\ DOMAIN t = I
        /\ Len(t) = Cardinality(L) /\ IsFiniteSet(I)
        /\ \A i \in I : gs[a + i - 1] \in L /\ t[i] = V[gs[a + i - 1]]
        /\ \A h \in L : \E i \in I : h = gs[a + i - 1]
        /\ \A i, j \in I : gs[a + i - 1] = gs[a + j - 1] => i = j

\* The last of a history are what V says of the latest games.
LEMMA LastTells ==
    ASSUME NEW gs, NEW S, InTurn(gs, S), NEW s, NEW V, Tells(s, gs, V), NEW n \in Nat
    PROVE  Matches(LastOf(s, n), gs, From(Len(gs), n), V, Latest(S, n))
<1> DEFINE N == Len(gs)
           a == From(N, n)
           observed == LastOf(s, n)
           I == 1 .. (N - a + 1)
           L == Latest(S, n)
<1>1. /\ N \in Nat /\ DOMAIN gs = 1 .. N /\ Len(s) = N
      /\ \A i, j \in DOMAIN gs : gs[i] = gs[j] => i = j
      /\ s \in Seq(Nat \cup {None}) /\ \A i \in DOMAIN gs : s[i] = V[gs[i]]
    BY InTurnOnce DEF Tells
<1>2. /\ a \in Nat \ {0} /\ a <= N + 1
      /\ observed \in Seq(Nat \cup {None}) /\ Len(observed) = N - a + 1
      /\ \A i \in I : observed[i] = s[a + i - 1]
  <2>1. IsStretch(observed, s, a, Nat \cup {None}) BY <1>1, LastOfIs, Zenon
  <2> QED BY <1>1, <2>1, Zenon DEF IsStretch
<1>3. L = {gs[i] : i \in a .. N} BY LatestAreLast
<1> HIDE DEF N, a, observed, L
<1>4. \A i \in I : a + i - 1 \in a .. N /\ a + i - 1 \in 1 .. N BY <1>1, <1>2
<1>5. \A i \in I : gs[a + i - 1] \in L /\ observed[i] = V[gs[a + i - 1]]
    BY <1>1, <1>2, <1>3, <1>4
<1>6. ASSUME NEW h \in L PROVE \E i \in I : h = gs[a + i - 1]
  <2>1. PICK k \in a .. N : h = gs[k] BY <1>3
  <2>2. k - a + 1 \in I /\ a + (k - a + 1) - 1 = k BY <1>1, <1>2, <2>1
  <2> QED BY <2>1, <2>2
<1>7. ASSUME NEW i \in I, NEW j \in I, gs[a + i - 1] = gs[a + j - 1] PROVE i = j
  <2>1. a + i - 1 = a + j - 1 BY <1>1, <1>4, <1>7
  <2> QED BY <1>1, <1>2, <2>1
<1>8. DOMAIN observed = I BY <1>2
<1>9. IsFiniteSet(I) /\ Cardinality(I) = Len(observed)
  <2>1. N - a + 1 \in Nat /\ N - a + 1 \in Int /\ 1 \in Int BY <1>1, <1>2
  <2>2. IsFiniteSet(I) /\ Cardinality(I) = IF 1 > N - a + 1 THEN 0 ELSE (N - a + 1) - 1 + 1
      BY <2>1, FS_Interval, Zenon
  <2> QED BY <1>2, <2>1, <2>2
<1>10. Cardinality(L) = Cardinality(I)
  <2> DEFINE f == [i \in I |-> gs[a + i - 1]]
  <2> HIDE DEF I
  <2>1. DOMAIN f = I /\ f \in [I -> L] /\ \A i \in I : f[i] = gs[a + i - 1] BY <1>5
  <2> HIDE DEF f
  <2>2. f \in Surjection(I, L) BY <1>6, <2>1 DEF Surjection
  <2>3. f \in Injection(I, L) BY <1>7, <2>1 DEF Injection, IsInjective
  <2> QED BY <1>9, <2>2, <2>3, FS_Surjection
<1> QED BY <1>2, <1>5, <1>6, <1>7, <1>8, <1>9, <1>10, Zenon DEF N, a, observed, L, Matches

\* The sum of the last of a history is the sum over the latest games, if all of them are
\* known.
LEMMA TotalTells ==
    ASSUME NEW gs, NEW S, InTurn(gs, S), NEW s, NEW V, Tells(s, gs, V), NEW n \in Nat,
           NaturalOn(V, Latest(S, n))
    PROVE  /\ Total(LastOf(s, n)) = SumFunctionOnSet(V, Latest(S, n))
           /\ Total(LastOf(s, n)) \in Nat
<1> DEFINE N == Len(gs)
           a == From(N, n)
           observed == LastOf(s, n)
           I == 1 .. (N - a + 1)
           L == Latest(S, n)
           b == [i \in I |-> gs[a + i - 1]]
<1>1. /\ observed \in Seq(Nat \cup {None}) /\ DOMAIN observed = I /\ IsFiniteSet(I)
      /\ \A i \in I : gs[a + i - 1] \in L /\ observed[i] = V[gs[a + i - 1]]
      /\ \A h \in L : \E i \in I : h = gs[a + i - 1]
      /\ \A i, j \in I : gs[a + i - 1] = gs[a + j - 1] => i = j
  <2>1. Matches(observed, gs, a, V, L) BY LastTells, Zenon
  <2> QED BY <2>1, Zenon DEF Matches
<1> HIDE DEF N, a, observed, L
<1>2. \A i \in I : b[i] = gs[a + i - 1] OBVIOUS
<1> HIDE DEF b
<1>3. (\A i \in I : b[i] \in L) /\ \A h \in L : \E i \in I : b[i] = h BY <1>1, <1>2
<1>4. \A i \in I : observed[i] \in Nat BY <1>1 DEF NaturalOn, L
<1>5. Len(observed) \in Nat /\ I = 1 .. Len(observed) BY <1>1
<1>6. observed \in Seq(Nat)
  <2> HIDE DEF I
  <2>1. observed = [i \in 1 .. Len(observed) |-> observed[i]] BY <1>1
  <2> QED BY <1>4, <1>5, <2>1
<1>7. Total(observed) = TotalOf(observed, I) /\ Total(observed) \in Nat
    BY <1>5, <1>6, TotalOfSequence
<1>8. TotalOf(observed, I) = TotalOf(V, L)
  <2>1. NaturalOn(V, L) BY DEF L
  <2>2. \A i, j \in I : b[i] = b[j] => i = j BY <1>1, <1>2
  <2>3. \A i \in I : observed[i] = V[b[i]] BY <1>1, <1>2
  <2> HIDE DEF I
  <2>4. IsFiniteSet(I) BY <1>1
  <2> QED BY <1>3, <2>1, <2>2, <2>3, <2>4, SumRenamed
<1>9. IsFiniteSet(L)
  <2>1. IsFiniteSet(S) BY InTurnOnce
  <2>2. L \in SUBSET S BY DEF L, Latest
  <2> QED BY <2>1, <2>2, FS_Subset
<1>10. SumFunctionOnSet(V, L) = TotalOf(V, L) BY <1>9, SumOnSet DEF L
<1> QED BY <1>7, <1>8, <1>10 DEF observed, L

\* The mean of the last of a history is the mean over the latest games.
LEMMA MeanTells ==
    ASSUME NEW gs, NEW S, InTurn(gs, S), NEW s, NEW V, Tells(s, gs, V), NEW n \in Nat
    PROVE  Mean(s, n) = MeanOf(Latest(S, n), V)
<1> DEFINE N == Len(gs)
           a == From(N, n)
           observed == LastOf(s, n)
           I == 1 .. (N - a + 1)
           L == Latest(S, n)
<1>1. /\ observed \in Seq(Nat \cup {None}) /\ DOMAIN observed = I
      /\ Len(observed) = Cardinality(L)
      /\ \A i \in I : gs[a + i - 1] \in L /\ observed[i] = V[gs[a + i - 1]]
      /\ \A h \in L : \E i \in I : h = gs[a + i - 1]
  <2>1. Matches(observed, gs, a, V, L) BY LastTells, Zenon
  <2> QED BY <2>1, Zenon DEF Matches
<1> HIDE DEF N, a, observed, L
<1>2. observed = <<>> <=> L = {}
  <2>1. observed = <<>> <=> I = {}
    <3> HIDE DEF I
    <3>1. DOMAIN observed = 1 .. Len(observed) /\ Len(observed) \in Nat BY <1>1
    <3>2. observed = <<>> <=> Len(observed) = 0 BY <1>1
    <3>3. 1 .. Len(observed) = {} <=> Len(observed) = 0 BY <3>1
    <3> QED BY <1>1, <3>1, <3>2, <3>3
  <2>2. I = {} <=> L = {} BY <1>1
  <2> QED BY <2>1, <2>2
<1>3. None \in ToSet(observed) <=> \E h \in L : V[h] = None
  <2>1. None \in ToSet(observed) <=> \E i \in I : observed[i] = None
      BY <1>1 DEF ToSet
  <2> QED BY <1>1, <2>1
<1>4. ASSUME ~ \E h \in L : V[h] = None
      PROVE  Total(observed) = SumFunctionOnSet(V, L)
  <2>1. ASSUME NEW h \in L PROVE V[h] \in Nat
    <3>1. PICK i \in I : h = gs[a + i - 1] BY <1>1
    <3>2. observed[i] = V[h] BY <1>1, <3>1
    <3>3. observed[i] \in Nat \cup {None}
      <4> HIDE DEF I
      <4> QED BY <1>1
    <3> QED BY <1>4, <3>2, <3>3
  <2>2. NaturalOn(V, L) BY <2>1 DEF NaturalOn
  <2> QED BY <2>2, TotalTells DEF observed, L
<1>5. Mean(s, n) = IF observed = <<>> \/ None \in ToSet(observed) THEN None
                   ELSE <<Total(observed), Len(observed)>>
    BY DEF Mean, observed
<1>6. MeanOf(L, V) = IF L = {} \/ \E h \in L : V[h] = None THEN None
                     ELSE <<SumFunctionOnSet(V, L), Cardinality(L)>>
    BY DEF MeanOf
<1>7. CASE L = {} \/ \E h \in L : V[h] = None
  <2>1. Mean(s, n) = None BY <1>2, <1>3, <1>5, <1>7, Zenon
  <2>2. MeanOf(L, V) = None BY <1>6, <1>7, Zenon
  <2> QED BY <2>1, <2>2 DEF L
<1>8. CASE ~(L = {} \/ \E h \in L : V[h] = None)
  <2>1. Mean(s, n) = <<Total(observed), Len(observed)>> BY <1>2, <1>3, <1>5, <1>8, Zenon
  <2>2. MeanOf(L, V) = <<SumFunctionOnSet(V, L), Cardinality(L)>> BY <1>6, <1>8, Zenon
  <2>3. Total(observed) = SumFunctionOnSet(V, L) BY <1>4, <1>8, Zenon
  <2>4. Len(observed) = Cardinality(L) BY <1>1, Zenon
  <2> QED BY <2>1, <2>2, <2>3, <2>4, Zenon DEF L
<1> QED BY <1>7, <1>8, Zenon

\* All games are the latest as many as there are.
LEMMA AllAreLatest ==
    ASSUME NEW gs, NEW S, InTurn(gs, S)
    PROVE  Latest(S, Len(gs)) = S
<1>1. Len(gs) \in Nat /\ DOMAIN gs = 1 .. Len(gs) /\ S = {gs[i] : i \in DOMAIN gs} BY InTurnOnce
<1>2. From(Len(gs), Len(gs)) = 1 BY <1>1 DEF From
<1> QED BY <1>1, <1>2, LatestAreLast

-----------------------------------------------------------------------------
(* The feature table: what the histories hold                               *)

\* A history has of each game of S, in turn, what F says of it.
Recounts(history, S, F) ==
    \E gs : InTurn(gs, S) /\ history = [i \in DOMAIN gs |-> F[gs[i]]]

OwnGames(p) == {h \in DOMAIN played : Appeared(p, h)}

\* A player's games of a season, k[1] the player.
SeasonGames(k) == {h \in OwnGames(k[1]) : h.season = k[2]}

\* The games of a season in which a team had a receiver, k[2] the team.
OffenceGames(k) ==
    {h \in DOMAIN played :
        h.season = k[1] /\ \E p \in DOMAIN played[h].lines : played[h].lines[p].team = k[2]}

\* The games of a season in which a receiver played against a team.
DefenceGames(k) ==
    {h \in DOMAIN played :
        /\ h.season = k[1] /\ k[2] \in {h.home, h.away}
        /\ \E p \in DOMAIN played[h].lines : played[h].lines[p].team = Opponent(h, k[2])}

PlayerTale(p) == [h \in OwnGames(p) |-> Update(h, played[h].lines[p])]
SeasonTale(k) == [h \in SeasonGames(k) |-> Update(h, played[h].lines[k[1]])]
OffenceTale(k) == [h \in OffenceGames(k) |-> played[h].attempts[k[2]]]
DefenceTale(k) ==
    [h \in DefenceGames(k) |->
        [attempts |-> played[h].attempts[Opponent(h, k[2])],
         receptions |-> TeamReceptions(played[h].lines, Opponent(h, k[2]))]]

TableTyped ==
    /\ games \in Schedules
    /\ todo \in Seq(games)
    /\ DOMAIN played \subseteq games
    /\ \A h \in DOMAIN played : played[h] \in BoxesOf[h]
    /\ DOMAIN player_history = Players
    /\ DOMAIN season_player_history = Players \X Seasons
    /\ DOMAIN team_history = Seasons \X Teams
    /\ DOMAIN defense_history = Seasons \X Teams

\* Games are built in order, and each of the schedule is built or still to do.
TableInOrder ==
    /\ \A i, j \in DOMAIN todo : i < j => InOrder(todo[i], todo[j])
    /\ \A h \in DOMAIN played, i \in DOMAIN todo : InOrder(h, todo[i])
    /\ \A h \in games : h \in DOMAIN played \/ \E i \in DOMAIN todo : todo[i] = h

HistoriesTold ==
    /\ \A p \in Players : Recounts(player_history[p], OwnGames(p), PlayerTale(p))
    /\ \A k \in Players \X Seasons :
          Recounts(season_player_history[k], SeasonGames(k), SeasonTale(k))
    /\ \A k \in Seasons \X Teams : Recounts(team_history[k], OffenceGames(k), OffenceTale(k))
    /\ \A k \in Seasons \X Teams : Recounts(defense_history[k], DefenceGames(k), DefenceTale(k))

\* A game that kicks off after all the others comes last.
LEMMA OneMoreInTurn ==
    ASSUME NEW gs, NEW S, InTurn(gs, S), NEW g, g.kickoff \in Int,
           \A h \in S : h.kickoff < g.kickoff
    PROVE  InTurn(Append(gs, g), S \cup {g})
<1> DEFINE T == S \cup {g}
           N == Len(gs)
           t == Append(gs, g)
<1>1. /\ N \in Nat /\ DOMAIN gs = 1 .. N
      /\ \A i \in DOMAIN gs : gs[i] \in S /\ gs[i].kickoff \in Int
    BY InTurnOnce
<1>2. gs \in Seq(T)
  <2>1. gs \in Seq(S) BY DEF InTurn
  <2> QED BY <2>1
<1>3. t \in Seq(T) /\ DOMAIN t = 1 .. (N + 1)
      /\ (\A i \in 1 .. N : t[i] = gs[i]) /\ t[N + 1] = g
    BY <1>2
<1> HIDE DEF t, N
<1>4. \A h \in T : h.kickoff \in Int /\ \E i \in DOMAIN t : t[i] = h
  <2>1. ASSUME NEW h \in S PROVE h.kickoff \in Int /\ \E i \in DOMAIN t : t[i] = h
    <3>1. h.kickoff \in Int /\ \E i \in DOMAIN gs : gs[i] = h BY DEF InTurn
    <3>2. PICK i \in 1 .. N : gs[i] = h BY <1>1, <3>1
    <3>3. i \in DOMAIN t BY <1>1, <1>3
    <3> QED BY <1>3, <3>1, <3>2, <3>3
  <2>2. N + 1 \in DOMAIN t BY <1>1, <1>3
  <2> QED BY <1>3, <2>1, <2>2
<1>5. ASSUME NEW m \in DOMAIN t, NEW n \in DOMAIN t, m < n
      PROVE  t[m].kickoff < t[n].kickoff
  <2>1. m \in 1 .. N BY <1>1, <1>3, <1>5
  <2>2. CASE n \in 1 .. N BY <1>1, <1>3, <1>5, <2>1, <2>2 DEF InTurn
  <2>3. CASE n = N + 1 BY <1>1, <1>3, <2>1, <2>3
  <2> QED BY <1>1, <1>3, <2>2, <2>3
<1> QED BY <1>3, <1>4, <1>5 DEF InTurn, t

\* A history told of one more game recounts one more.
LEMMA RecountsMore ==
    ASSUME NEW history, NEW S, NEW F, Recounts(history, S, F), NEW g, g.kickoff \in Int,
           \A h \in S : h.kickoff < g.kickoff,
           NEW T, T = S \cup {g}, NEW E, \A h \in S : E[h] = F[h]
    PROVE  Recounts(Append(history, E[g]), T, E)
<1>1. PICK gs : InTurn(gs, S) /\ history = [i \in DOMAIN gs |-> F[gs[i]]] BY DEF Recounts
<1> DEFINE N == Len(gs)
           t == Append(gs, g)
           told == Append(history, E[g])
<1>2. InTurn(t, T) BY <1>1, OneMoreInTurn
<1>3. N \in Nat /\ DOMAIN gs = 1 .. N /\ gs \in Seq(S) /\ \A i \in DOMAIN gs : gs[i] \in S
    BY <1>1, InTurnOnce DEF InTurn
<1>4. DOMAIN t = 1 .. (N + 1) /\ (\A i \in 1 .. N : t[i] = gs[i]) /\ t[N + 1] = g
    BY <1>3
<1>5. history = [i \in 1 .. N |-> F[gs[i]]] BY <1>1, <1>3
<1>6. /\ history \in Seq({F[h] : h \in S}) /\ Len(history) = N
      /\ \A i \in 1 .. N : history[i] = F[gs[i]]
  <2>1. \A i \in 1 .. N : F[gs[i]] \in {F[h] : h \in S} BY <1>3
  <2> HIDE DEF N
  <2> QED BY <1>3, <1>5, <2>1
<1>7. told = [i \in DOMAIN t |-> E[t[i]]]
  <2> DEFINE X == {F[h] : h \in S} \cup {E[g]}
  <2>1. history \in Seq(X) /\ E[g] \in X BY <1>6
  <2> HIDE DEF X
  <2>2. /\ DOMAIN told = 1 .. (N + 1) /\ told = [i \in 1 .. (N + 1) |-> told[i]]
        /\ \A i \in 1 .. N : told[i] = history[i]
        /\ told[N + 1] = E[g]
    <3> HIDE DEF N
    <3>1. told \in Seq(X) /\ Len(told) = N + 1 BY <1>6, <2>1
    <3>2. DOMAIN told = 1 .. (N + 1) /\ told = [i \in 1 .. (N + 1) |-> told[i]] BY <3>1, <1>3
    <3>3. (\A i \in 1 .. N : told[i] = history[i]) /\ told[N + 1] = E[g] BY <1>6, <2>1
    <3> QED BY <3>2, <3>3
  <2> HIDE DEF told, t, N
  <2>3. ASSUME NEW i \in 1 .. (N + 1) PROVE told[i] = E[t[i]]
    <3>1. CASE i = N + 1 BY <1>4, <2>2, <3>1
    <3>2. CASE i # N + 1
      <4>1. i \in 1 .. N BY <1>3, <3>2
      <4>2. told[i] = F[gs[i]] BY <1>6, <2>2, <4>1
      <4>3. t[i] = gs[i] /\ gs[i] \in S BY <1>3, <1>4, <4>1
      <4>4. E[gs[i]] = F[gs[i]] BY <4>3
      <4> QED BY <4>2, <4>3, <4>4, Zenon
    <3> QED BY <3>1, <3>2
  <2> QED BY <1>4, <2>2, <2>3
<1> HIDE DEF told, t
<1> QED BY <1>2, <1>7 DEF Recounts, told

\* It recounts of its games whatever says the same of them.
LEMMA RecountsSame ==
    ASSUME NEW history, NEW S, NEW F, Recounts(history, S, F), NEW E, \A h \in S : E[h] = F[h]
    PROVE  Recounts(history, S, E)
<1>1. PICK gs : InTurn(gs, S) /\ history = [i \in DOMAIN gs |-> F[gs[i]]] BY DEF Recounts
<1>2. \A i \in DOMAIN gs : gs[i] \in S BY <1>1, InTurnOnce
<1>3. history = [i \in DOMAIN gs |-> E[gs[i]]] BY <1>1, <1>2
<1> QED BY <1>1, <1>3 DEF Recounts

\* Nothing is recounted of no games.
LEMMA RecountsNothing == ASSUME NEW F PROVE Recounts(<<>>, {}, F)
<1>1. InTurn(<<>>, {}) BY DEF InTurn
<1>2. <<>> = [i \in DOMAIN <<>> |-> F[<<>>[i]]] OBVIOUS
<1> QED BY <1>1, <1>2 DEF Recounts

-----------------------------------------------------------------------------
(* One game of the table                                                    *)

\* What is assumed of a schedule, as facts of the one a behaviour has.
LEMMA ScheduleFacts ==
    ASSUME games \in Schedules
    PROVE  /\ None \notin Int /\ IsFiniteSet(games)
           /\ \A g \in games : g.id \in Int /\ g.kickoff \in Int /\ g.home # g.away
           /\ \A g, h \in games : g.id = h.id => g = h
           /\ \A g \in games : \A box \in BoxesOf[g] : IsBox(g, box)
           /\ \A g, h \in games : g.kickoff = h.kickoff /\ g # h =>
                 {g.home, g.away} \cap {h.home, h.away} = {}
           /\ \A g, h \in games : g.kickoff = h.kickoff /\ g # h =>
                 \A b \in BoxesOf[g], c \in BoxesOf[h] : DOMAIN b.lines \cap DOMAIN c.lines = {}
<1>1. OneGameAtATime(games) BY GamesAssumption
<1>2. \A g, h \in games : g.kickoff = h.kickoff /\ g # h =>
        /\ {g.home, g.away} \cap {h.home, h.away} = {}
        /\ \A b \in BoxesOf[g], c \in BoxesOf[h] : DOMAIN b.lines \cap DOMAIN c.lines = {}
    BY <1>1, Zenon DEF OneGameAtATime
<1>3. /\ None \notin Int /\ IsFiniteSet(games)
      /\ \A g \in games : g.id \in Int /\ g.kickoff \in Int /\ g.home # g.away
      /\ \A g, h \in games : g.id = h.id => g = h
      /\ \A g \in games : \A box \in BoxesOf[g] : IsBox(g, box)
    BY GamesAssumption, Zenon
<1> QED BY <1>2, <1>3, Zenon

\* The game built next, and what building it leaves to do.
NextBuilt(g, box) ==
    /\ g \in games /\ g = Head(todo) /\ box \in BoxesOf[g] /\ IsBox(g, box)
    /\ g.kickoff \in Int /\ g.home # g.away
    /\ g \notin DOMAIN played
    /\ \A h \in DOMAIN played : h \in games /\ h # g /\ InOrder(h, g) /\ IsBox(h, played[h])
    /\ \A h \in DOMAIN played : h.kickoff \in Int /\ h.kickoff <= g.kickoff
    /\ \A h \in DOMAIN played : h.kickoff = g.kickoff =>
          /\ {h.home, h.away} \cap {g.home, g.away} = {}
          /\ DOMAIN played[h].lines \cap DOMAIN box.lines = {}

\* The game built next comes after all that are built.
LEMMA NextGame ==
    ASSUME TableTyped, TableInOrder, todo # <<>>, NEW box \in BoxesOf[Head(todo)]
    PROVE  NextBuilt(Head(todo), box)
<1> DEFINE g == Head(todo)
<1>1. todo \in Seq(games) /\ games \in Schedules BY DEF TableTyped
<1>2. 1 \in DOMAIN todo /\ g = todo[1] /\ g \in games BY <1>1
<1> HIDE DEF g
<1>3. IsBox(g, box) /\ g.kickoff \in Int /\ g.home # g.away
  <2>1. box \in BoxesOf[g] BY DEF g
  <2> QED BY <1>1, <1>2, <2>1, ScheduleFacts
<1>4. ASSUME NEW h \in DOMAIN played
      PROVE  /\ h \in games /\ h # g /\ InOrder(h, g) /\ IsBox(h, played[h])
             /\ h.kickoff \in Int /\ h.kickoff <= g.kickoff
             /\ h.kickoff = g.kickoff =>
                  /\ {h.home, h.away} \cap {g.home, g.away} = {}
                  /\ DOMAIN played[h].lines \cap DOMAIN box.lines = {}
  <2>1. h \in games /\ played[h] \in BoxesOf[h] BY DEF TableTyped
  <2>2. InOrder(h, g) BY <1>2 DEF TableInOrder
  <2>3. h.kickoff \in Int /\ h.id \in Int /\ g.id \in Int BY <1>1, <1>2, <2>1, ScheduleFacts
  <2>4. IsBox(h, played[h]) BY <1>1, <2>1, ScheduleFacts
  <2>5. h.kickoff <= g.kickoff /\ h # g BY <1>3, <2>2, <2>3 DEF InOrder
  <2>6. box \in BoxesOf[g] BY DEF g
  <2>7. ASSUME h.kickoff = g.kickoff
        PROVE  /\ {h.home, h.away} \cap {g.home, g.away} = {}
               /\ DOMAIN played[h].lines \cap DOMAIN box.lines = {}
      BY <1>1, <1>2, <2>1, <2>5, <2>6, <2>7, ScheduleFacts, Zenon
  <2> QED BY <2>1, <2>2, <2>3, <2>4, <2>5, <2>7
<1>5. g \notin DOMAIN played BY <1>4
<1>6. box \in BoxesOf[g] BY DEF g
<1> QED BY <1>2, <1>3, <1>4, <1>5, <1>6, Zenon DEF NextBuilt, g

\* The game is played, in its place.
Plays(g, box) ==
    /\ games' = games
    /\ DOMAIN played' = DOMAIN played \cup {g}
    /\ played'[g] = box
    /\ \A h \in DOMAIN played : h # g => played'[h] = played[h]

\* What building a game does to the boxes.
LEMMA GamePlayed ==
    ASSUME NEW box, BuildGame(box), games' = games
    PROVE  Plays(Head(todo), box)
BY DEF BuildGame, Plays

\* A schedule in order stays one as its games are built.
LEMMA BuildTyped ==
    ASSUME TableTyped, TableInOrder, todo # <<>>, NEW box \in BoxesOf[Head(todo)],
           BuildGame(box), games' = games
    PROVE  TableTyped' /\ TableInOrder'
<1> DEFINE g == Head(todo)
<1>1. NextBuilt(g, box) /\ Plays(g, box) BY NextGame, GamePlayed
<1>2. todo \in Seq(games) /\ games' \in Schedules BY <1>1 DEF TableTyped, Plays
<1>3. todo' = Tail(todo) BY DEF BuildGame
<1>4. todo' \in Seq(games) /\ DOMAIN todo' = 1 .. (Len(todo) - 1) /\ Len(todo) \in Nat
      /\ DOMAIN todo = 1 .. Len(todo) /\ todo[1] = g
      /\ \A i \in DOMAIN todo' : todo'[i] = todo[i + 1] /\ i + 1 \in DOMAIN todo
    BY <1>2, <1>3
<1>5. Seasons' = Seasons /\ Teams' = Teams BY <1>1 DEF Plays, Seasons, Teams
<1>6. /\ DOMAIN player_history' = Players
      /\ DOMAIN season_player_history' = DOMAIN season_player_history
      /\ DOMAIN team_history' = DOMAIN team_history
      /\ DOMAIN defense_history' = DOMAIN defense_history
    BY DEF BuildGame, ExtendPlayers, ExtendTeams
<1> HIDE DEF g
<1>7. DOMAIN played' \subseteq games /\ \A h \in DOMAIN played' : played'[h] \in BoxesOf[h]
    BY <1>1 DEF TableTyped, NextBuilt, Plays
<1>8. TableTyped'
    BY <1>1, <1>2, <1>4, <1>5, <1>6, <1>7 DEF TableTyped, Plays
<1>9. \A i, j \in DOMAIN todo' : i < j => InOrder(todo'[i], todo'[j])
  <2>1. ASSUME NEW i \in DOMAIN todo', NEW j \in DOMAIN todo', i < j
        PROVE  InOrder(todo'[i], todo'[j])
    <3>1. i + 1 \in DOMAIN todo /\ j + 1 \in DOMAIN todo /\ i + 1 < j + 1 BY <1>4, <2>1
    <3>2. InOrder(todo[i + 1], todo[j + 1]) BY <3>1 DEF TableInOrder
    <3> QED BY <1>4, <3>2
  <2> QED BY <2>1
<1>10. ASSUME NEW h \in DOMAIN played', NEW i \in DOMAIN todo' PROVE InOrder(h, todo'[i])
  <2>1. CASE h \in DOMAIN played
    <3>1. InOrder(h, todo[i + 1]) BY <1>4, <2>1 DEF TableInOrder
    <3> QED BY <1>4, <3>1
  <2>2. CASE h = g
    <3>1. 1 \in DOMAIN todo /\ i + 1 \in DOMAIN todo /\ 1 < i + 1 BY <1>4
    <3>2. InOrder(todo[1], todo[i + 1]) BY <3>1 DEF TableInOrder
    <3> QED BY <1>4, <2>2, <3>2
  <2> QED BY <1>1, <2>1, <2>2 DEF Plays
<1>11. ASSUME NEW h \in games' PROVE h \in DOMAIN played' \/ \E i \in DOMAIN todo' : todo'[i] = h
  <2>1. CASE h \in DOMAIN played BY <1>1, <2>1 DEF Plays
  <2>2. CASE \E i \in DOMAIN todo : todo[i] = h
    <3>1. PICK i \in DOMAIN todo : todo[i] = h BY <2>2
    <3>2. CASE i = 1 BY <1>1, <1>4, <3>1, <3>2 DEF Plays
    <3>3. CASE i # 1
      <4>1. i - 1 \in DOMAIN todo' /\ (i - 1) + 1 = i BY <1>4, <3>1, <3>3
      <4> QED BY <1>4, <3>1, <4>1
    <3> QED BY <3>2, <3>3
  <2> QED BY <1>1, <2>1, <2>2 DEF TableInOrder, Plays
<1> QED BY <1>8, <1>9, <1>10, <1>11 DEF TableInOrder

\* A player's own history.
LEMMA BuildPlayer ==
    ASSUME NEW g, NEW box, NextBuilt(g, box), Plays(g, box), NEW p \in Players,
           Recounts(player_history[p], OwnGames(p), PlayerTale(p)),
           player_history'[p] = IF p \in DOMAIN box.lines
                                THEN Append(player_history[p], Update(g, box.lines[p]))
                                ELSE player_history[p]
    PROVE  Recounts(player_history'[p], OwnGames(p)', PlayerTale(p)')
<1> DEFINE S == OwnGames(p)
           T == {h \in DOMAIN played' : p \in DOMAIN played'[h].lines}
           F == PlayerTale(p)
           E == [h \in T |-> Update(h, played'[h].lines[p])]
<1>1. OwnGames(p)' = T /\ PlayerTale(p)' = E BY DEF OwnGames, Appeared, PlayerTale
<1>2. \A h \in S : h \in DOMAIN played /\ p \in DOMAIN played[h].lines /\ h # g
    BY DEF OwnGames, Appeared, NextBuilt
<1>3. T = IF p \in DOMAIN box.lines THEN S \cup {g} ELSE S
    BY DEF OwnGames, Appeared, NextBuilt, Plays
<1>4. \A h \in S : E[h] = F[h] BY <1>2, <1>3 DEF PlayerTale, Plays
<1>5. CASE p \in DOMAIN box.lines
  <2>1. \A h \in S : h.kickoff < g.kickoff BY <1>2, <1>5 DEF NextBuilt
  <2>2. E[g] = Update(g, box.lines[p]) BY <1>3, <1>5 DEF Plays
  <2>3. T = S \cup {g} /\ g.kickoff \in Int BY <1>3, <1>5 DEF NextBuilt
  <2> HIDE DEF S, T, F, E
  <2>4. Recounts(Append(player_history[p], E[g]), T, E)
      BY <1>4, <2>1, <2>3, RecountsMore DEF S, F
  <2> QED BY <1>1, <1>5, <2>2, <2>4
<1>6. CASE p \notin DOMAIN box.lines
  <2>1. T = S BY <1>3, <1>6
  <2> HIDE DEF S, T, F, E
  <2>2. Recounts(player_history[p], T, E) BY <1>4, <2>1, RecountsSame DEF S, F
  <2> QED BY <1>1, <1>6, <2>2
<1> QED BY <1>5, <1>6

\* A player's history of one season.
LEMMA BuildSeason ==
    ASSUME NEW g, NEW box, NextBuilt(g, box), Plays(g, box), NEW k,
           Recounts(season_player_history[k], SeasonGames(k), SeasonTale(k)),
           season_player_history'[k] = IF k[1] \in DOMAIN box.lines /\ k[2] = g.season
                THEN Append(season_player_history[k], Update(g, box.lines[k[1]]))
                ELSE season_player_history[k]
    PROVE  Recounts(season_player_history'[k], SeasonGames(k)', SeasonTale(k)')
<1> DEFINE p == k[1]
           S == SeasonGames(k)
           T == {h \in DOMAIN played' : p \in DOMAIN played'[h].lines /\ h.season = k[2]}
           F == SeasonTale(k)
           E == [h \in T |-> Update(h, played'[h].lines[p])]
<1>1. SeasonGames(k)' = T /\ SeasonTale(k)' = E
    BY DEF SeasonGames, OwnGames, Appeared, SeasonTale
<1>2. \A h \in S : h \in DOMAIN played /\ p \in DOMAIN played[h].lines /\ h # g
    BY DEF SeasonGames, OwnGames, Appeared, NextBuilt
<1>3. T = IF p \in DOMAIN box.lines /\ k[2] = g.season THEN S \cup {g} ELSE S
    BY DEF SeasonGames, OwnGames, Appeared, NextBuilt, Plays
<1>4. \A h \in S : E[h] = F[h] BY <1>2, <1>3 DEF SeasonTale, Plays
<1>5. CASE p \in DOMAIN box.lines /\ k[2] = g.season
  <2>1. \A h \in S : h.kickoff < g.kickoff BY <1>2, <1>5 DEF NextBuilt
  <2>2. E[g] = Update(g, box.lines[p]) BY <1>3, <1>5 DEF Plays
  <2>3. T = S \cup {g} /\ g.kickoff \in Int BY <1>3, <1>5 DEF NextBuilt
  <2> HIDE DEF S, T, F, E
  <2>4. Recounts(Append(season_player_history[k], E[g]), T, E)
      BY <1>4, <2>1, <2>3, RecountsMore DEF S, F
  <2> QED BY <1>1, <1>5, <2>2, <2>4
<1>6. CASE ~(p \in DOMAIN box.lines /\ k[2] = g.season)
  <2>1. T = S BY <1>3, <1>6
  <2>3. season_player_history'[k] = season_player_history[k] BY <1>6
  <2> HIDE DEF S, T, F, E
  <2>2. Recounts(season_player_history[k], T, E) BY <1>4, <2>1, RecountsSame DEF S, F
  <2> QED BY <1>1, <2>2, <2>3
<1> QED BY <1>5, <1>6

\* What a team's offence did.
LEMMA BuildOffence ==
    ASSUME NEW g, NEW box, NextBuilt(g, box), Plays(g, box), NEW k,
           Recounts(team_history[k], OffenceGames(k), OffenceTale(k)),
           team_history'[k] =
              IF k[1] = g.season /\ k[2] \in {box.lines[p].team : p \in DOMAIN box.lines}
              THEN Append(team_history[k], box.attempts[k[2]]) ELSE team_history[k]
    PROVE  Recounts(team_history'[k], OffenceGames(k)', OffenceTale(k)')
<1> DEFINE t == k[2]
           S == OffenceGames(k)
           T == {h \in DOMAIN played' :
                   h.season = k[1] /\ \E p \in DOMAIN played'[h].lines : played'[h].lines[p].team = t}
           F == OffenceTale(k)
           E == [h \in T |-> played'[h].attempts[t]]
           extends == k[1] = g.season /\ \E p \in DOMAIN box.lines : box.lines[p].team = t
<1>1. OffenceGames(k)' = T /\ OffenceTale(k)' = E BY DEF OffenceGames, OffenceTale
<1>2. \A h \in S : h \in DOMAIN played /\ h # g
    BY DEF OffenceGames, NextBuilt
<1>3. T = IF extends THEN S \cup {g} ELSE S
  <2>1. \A h \in DOMAIN played : played'[h] = played[h] BY DEF NextBuilt, Plays
  <2>2. g \notin DOMAIN played /\ played'[g] = box BY DEF NextBuilt, Plays
  <2>3. \A h : h \in T => h = g \/ h \in DOMAIN played BY DEF Plays
  <2>4. \A h \in DOMAIN played : h \in T <=> h \in S BY <2>1 DEF OffenceGames, Plays
  <2>5. g \in T <=> extends BY <2>2 DEF Plays
  <2>6. g \notin S /\ \A h \in S : h \in DOMAIN played BY <2>2 DEF OffenceGames
  <2>7. CASE extends
    <3> HIDE DEF S, T, extends
    <3> QED BY <2>3, <2>4, <2>5, <2>6, <2>7
  <2>8. CASE ~extends
    <3> HIDE DEF S, T, extends
    <3>1. \A h \in T : h \in S BY <2>3, <2>4, <2>5, <2>8
    <3>2. \A h \in S : h \in T BY <2>4, <2>6
    <3>3. T = S BY <3>1, <3>2
    <3> QED BY <2>8, <3>3
  <2> HIDE DEF S, T, extends
  <2> QED BY <2>7, <2>8
<1>4. \A h \in S : E[h] = F[h] BY <1>2, <1>3 DEF OffenceTale, Plays
<1>5. team_history'[k] = IF extends THEN Append(team_history[k], box.attempts[t])
                         ELSE team_history[k]
  <2>1. t \in {box.lines[p].team : p \in DOMAIN box.lines} <=>
            \E p \in DOMAIN box.lines : box.lines[p].team = t
      OBVIOUS
  <2> QED BY <2>1
<1>6. CASE extends
  <2>1. ASSUME NEW h \in S PROVE h.kickoff < g.kickoff
    <3>1. PICK q \in DOMAIN played[h].lines : played[h].lines[q].team = t
        BY DEF OffenceGames
    <3>2. PICK p \in DOMAIN box.lines : box.lines[p].team = t BY <1>6
    <3>3. t \in {h.home, h.away}
      <4>1. IsBox(h, played[h]) BY <1>2 DEF NextBuilt
      <4>2. played[h].lines[q] \in Line(h) BY <3>1, <4>1, Zenon DEF IsBox
      <4> QED BY <3>1, <4>2 DEF Line
    <3>4. t \in {g.home, g.away}
      <4>1. IsBox(g, box) BY DEF NextBuilt
      <4>2. box.lines[p] \in Line(g) BY <3>2, <4>1, Zenon DEF IsBox
      <4> QED BY <3>2, <4>2 DEF Line
    <3>5. h.kickoff # g.kickoff BY <1>2, <3>3, <3>4, Zenon DEF NextBuilt
    <3>6. h.kickoff \in Int /\ g.kickoff \in Int /\ h.kickoff <= g.kickoff
        BY <1>2 DEF NextBuilt
    <3> QED BY <3>5, <3>6
  <2>2. E[g] = box.attempts[t] BY <1>3, <1>6 DEF Plays
  <2>3. T = S \cup {g} /\ g.kickoff \in Int BY <1>3, <1>6 DEF NextBuilt
  <2>4. team_history'[k] = Append(team_history[k], box.attempts[t]) BY <1>5, <1>6
  <2> HIDE DEF S, T, F, E
  <2>5. Recounts(Append(team_history[k], E[g]), T, E)
      BY <1>4, <2>1, <2>3, RecountsMore DEF S, F
  <2> QED BY <1>1, <2>2, <2>4, <2>5
<1>7. CASE ~extends
  <2>1. T = S BY <1>3, <1>7
  <2>2. team_history'[k] = team_history[k] BY <1>5, <1>7
  <2> HIDE DEF S, T, F, E
  <2>3. Recounts(team_history[k], T, E) BY <1>4, <2>1, RecountsSame DEF S, F
  <2> QED BY <1>1, <2>2, <2>3
<1> HIDE DEF extends
<1> QED BY <1>6, <1>7

\* The opponent of a team's opponent is the team.
LEMMA OpponentsOpponent ==
    ASSUME NEW g, g.home # g.away, NEW t \in {g.home, g.away}
    PROVE  Opponent(g, t) \in {g.home, g.away} /\ Opponent(g, Opponent(g, t)) = t
BY DEF Opponent

\* What a team's defence allowed.
LEMMA BuildDefence ==
    ASSUME NEW g, NEW box, NextBuilt(g, box), Plays(g, box), NEW k,
           Recounts(defense_history[k], DefenceGames(k), DefenceTale(k)),
           defense_history'[k] =
              IF /\ k[1] = g.season
                 /\ k[2] \in {Opponent(g, t) : t \in {box.lines[p].team : p \in DOMAIN box.lines}}
              THEN Append(defense_history[k],
                          [attempts |-> box.attempts[Opponent(g, k[2])],
                           receptions |-> TeamReceptions(box.lines, Opponent(g, k[2]))])
              ELSE defense_history[k]
    PROVE  Recounts(defense_history'[k], DefenceGames(k)', DefenceTale(k)')
<1> DEFINE d == k[2]
           S == DefenceGames(k)
           T == {h \in DOMAIN played' :
                   /\ h.season = k[1] /\ d \in {h.home, h.away}
                   /\ \E p \in DOMAIN played'[h].lines : played'[h].lines[p].team = Opponent(h, d)}
           F == DefenceTale(k)
           E == [h \in T |->
                   [attempts |-> played'[h].attempts[Opponent(h, d)],
                    receptions |-> TeamReceptions(played'[h].lines, Opponent(h, d))]]
           extends == /\ k[1] = g.season /\ d \in {g.home, g.away}
                      /\ \E p \in DOMAIN box.lines : box.lines[p].team = Opponent(g, d)
           allowed == [attempts |-> box.attempts[Opponent(g, d)],
                       receptions |-> TeamReceptions(box.lines, Opponent(g, d))]
<1>1. DefenceGames(k)' = T /\ DefenceTale(k)' = E
    BY DEF DefenceGames, DefenceTale, TeamReceptions, Opponent
<1>2. \A h \in S : h \in DOMAIN played /\ h # g /\ d \in {h.home, h.away}
    BY DEF DefenceGames, NextBuilt
<1>3. T = IF extends THEN S \cup {g} ELSE S
  <2>1. \A h \in DOMAIN played : played'[h] = played[h] BY DEF NextBuilt, Plays
  <2>2. g \notin DOMAIN played /\ played'[g] = box BY DEF NextBuilt, Plays
  <2>3. \A h : h \in T => h = g \/ h \in DOMAIN played BY DEF Plays
  <2>4. \A h \in DOMAIN played : h \in T <=> h \in S BY <2>1 DEF DefenceGames, Plays
  <2>5. g \in T <=> extends BY <2>2 DEF Plays
  <2>6. g \notin S /\ \A h \in S : h \in DOMAIN played BY <2>2 DEF DefenceGames
  <2>7. CASE extends
    <3> HIDE DEF S, T, extends
    <3> QED BY <2>3, <2>4, <2>5, <2>6, <2>7
  <2>8. CASE ~extends
    <3> HIDE DEF S, T, extends
    <3>1. \A h \in T : h \in S BY <2>3, <2>4, <2>5, <2>8
    <3>2. \A h \in S : h \in T BY <2>4, <2>6
    <3>3. T = S BY <3>1, <3>2
    <3> QED BY <2>8, <3>3
  <2> HIDE DEF S, T, extends
  <2> QED BY <2>7, <2>8
<1>4. \A h \in S : E[h] = F[h] BY <1>2, <1>3 DEF DefenceTale, Plays
<1>5. defense_history'[k] = IF extends THEN Append(defense_history[k], allowed)
                            ELSE defense_history[k]
  <2>1. ASSUME NEW p \in DOMAIN box.lines PROVE box.lines[p].team \in {g.home, g.away}
    <3>1. box.lines[p] \in Line(g) BY Zenon DEF IsBox, NextBuilt
    <3> QED BY <3>1 DEF Line
  <2>2. g.home # g.away BY DEF NextBuilt
  <2>3. d \in {Opponent(g, t) : t \in {box.lines[p].team : p \in DOMAIN box.lines}} <=>
            \E p \in DOMAIN box.lines : d = Opponent(g, box.lines[p].team)
      OBVIOUS
  <2>4. ASSUME NEW p \in DOMAIN box.lines
        PROVE  d = Opponent(g, box.lines[p].team) <=>
                  d \in {g.home, g.away} /\ box.lines[p].team = Opponent(g, d)
      BY <2>1, <2>2, OpponentsOpponent
  <2>5. extends <=> k[1] = g.season /\
            d \in {Opponent(g, t) : t \in {box.lines[p].team : p \in DOMAIN box.lines}}
      BY <2>3, <2>4
  <2> HIDE DEF allowed
  <2> QED BY <2>5 DEF allowed
<1>6. CASE extends
  <2>1. ASSUME NEW h \in S PROVE h.kickoff < g.kickoff
    <3>1. d \in {h.home, h.away} /\ d \in {g.home, g.away} BY <1>2, <1>6
    <3>2. h.kickoff # g.kickoff BY <1>2, <3>1, Zenon DEF NextBuilt
    <3>3. h.kickoff \in Int /\ g.kickoff \in Int /\ h.kickoff <= g.kickoff
        BY <1>2 DEF NextBuilt
    <3> QED BY <3>2, <3>3
  <2>2. E[g] = allowed BY <1>3, <1>6 DEF Plays
  <2>3. T = S \cup {g} /\ g.kickoff \in Int BY <1>3, <1>6 DEF NextBuilt
  <2>4. defense_history'[k] = Append(defense_history[k], allowed) BY <1>5, <1>6
  <2> HIDE DEF S, T, F, E, allowed
  <2>5. Recounts(Append(defense_history[k], E[g]), T, E)
      BY <1>4, <2>1, <2>3, RecountsMore DEF S, F
  <2> QED BY <1>1, <2>2, <2>4, <2>5
<1>7. CASE ~extends
  <2>1. T = S BY <1>3, <1>7
  <2>2. defense_history'[k] = defense_history[k] BY <1>5, <1>7
  <2> HIDE DEF S, T, F, E
  <2>3. Recounts(defense_history[k], T, E) BY <1>4, <2>1, RecountsSame DEF S, F
  <2> QED BY <1>1, <2>2, <2>3
<1> HIDE DEF extends
<1> QED BY <1>6, <1>7

\* All four go on telling of the games played.
LEMMA BuildTells ==
    ASSUME TableTyped, TableInOrder, HistoriesTold, todo # <<>>,
           NEW box \in BoxesOf[Head(todo)], BuildGame(box), games' = games
    PROVE  HistoriesTold'
<1> DEFINE g == Head(todo)
<1>1. NextBuilt(g, box) /\ Plays(g, box) BY NextGame, GamePlayed
<1>2. Seasons' = Seasons /\ Teams' = Teams BY DEF Seasons, Teams
<1>3. ExtendPlayers(g, box) /\ ExtendTeams(g, box) BY DEF BuildGame
<1> HIDE DEF g
<1>4. ASSUME NEW p \in Players
      PROVE  Recounts(player_history'[p], OwnGames(p)', PlayerTale(p)')
  <2>1. Recounts(player_history[p], OwnGames(p), PlayerTale(p)) BY DEF HistoriesTold
  <2>2. player_history'[p] = IF p \in DOMAIN box.lines
                             THEN Append(player_history[p], Update(g, box.lines[p]))
                             ELSE player_history[p]
      BY <1>3 DEF ExtendPlayers
  <2> QED BY <1>1, <2>1, <2>2, BuildPlayer
<1>5. ASSUME NEW k \in Players \X Seasons
      PROVE  Recounts(season_player_history'[k], SeasonGames(k)', SeasonTale(k)')
  <2>1. Recounts(season_player_history[k], SeasonGames(k), SeasonTale(k)) BY DEF HistoriesTold
  <2>2. k \in DOMAIN season_player_history BY DEF TableTyped
  <2>3. season_player_history'[k] = IF k[1] \in DOMAIN box.lines /\ k[2] = g.season
                THEN Append(season_player_history[k], Update(g, box.lines[k[1]]))
                ELSE season_player_history[k]
      BY <1>3, <2>2, Zenon DEF ExtendPlayers
  <2> QED BY <1>1, <2>1, <2>3, BuildSeason
<1>6. ASSUME NEW k \in Seasons \X Teams
      PROVE  /\ Recounts(team_history'[k], OffenceGames(k)', OffenceTale(k)')
             /\ Recounts(defense_history'[k], DefenceGames(k)', DefenceTale(k)')
  <2>1. /\ Recounts(team_history[k], OffenceGames(k), OffenceTale(k))
        /\ Recounts(defense_history[k], DefenceGames(k), DefenceTale(k))
      BY DEF HistoriesTold
  <2>2. k \in DOMAIN team_history /\ k \in DOMAIN defense_history BY DEF TableTyped
  <2>3. team_history'[k] =
              IF k[1] = g.season /\ k[2] \in {box.lines[p].team : p \in DOMAIN box.lines}
              THEN Append(team_history[k], box.attempts[k[2]]) ELSE team_history[k]
      BY <1>3, <2>2, Zenon DEF ExtendTeams
  <2>4. defense_history'[k] =
              IF /\ k[1] = g.season
                 /\ k[2] \in {Opponent(g, t) : t \in {box.lines[p].team : p \in DOMAIN box.lines}}
              THEN Append(defense_history[k],
                          [attempts |-> box.attempts[Opponent(g, k[2])],
                           receptions |-> TeamReceptions(box.lines, Opponent(g, k[2]))])
              ELSE defense_history[k]
      BY <1>3, <2>2, Zenon DEF ExtendTeams
  <2>5. Recounts(team_history'[k], OffenceGames(k)', OffenceTale(k)')
      BY <1>1, <2>1, <2>3, BuildOffence
  <2>6. Recounts(defense_history'[k], DefenceGames(k)', DefenceTale(k)')
      BY <1>1, <2>1, <2>4, BuildDefence
  <2> QED BY <2>5, <2>6
<1> QED BY <1>2, <1>4, <1>5, <1>6 DEF HistoriesTold

-----------------------------------------------------------------------------
(* The rows of one game                                                     *)

\* A column of a history has what the history's entries have there.
LEMMA ColumnTells ==
    ASSUME NEW gs, NEW S, InTurn(gs, S), NEW F, NEW history,
           history = [i \in DOMAIN gs |-> F[gs[i]]], NEW name, NEW V,
           \A h \in S : F[h][name] = V[h] /\ V[h] \in Nat \cup {None}
    PROVE  Tells(Column(history, name), gs, V)
<1> DEFINE column == Column(history, name)
<1>1. /\ Len(gs) \in Nat /\ DOMAIN gs = 1 .. Len(gs)
      /\ \A i \in DOMAIN gs : gs[i] \in S
    BY InTurnOnce
<1>2. column = [i \in 1 .. Len(gs) |-> history[i][name]] BY <1>1 DEF Column
<1>3. \A i \in 1 .. Len(gs) : history[i] = F[gs[i]] BY <1>1
<1>4. \A i \in 1 .. Len(gs) : column[i] = V[gs[i]] /\ V[gs[i]] \in Nat \cup {None}
    BY <1>1, <1>2, <1>3
<1>5. column = [i \in 1 .. Len(gs) |-> column[i]] BY <1>2
<1> HIDE DEF column
<1>6. column \in Seq(Nat \cup {None}) /\ Len(column) = Len(gs)
    BY <1>1, <1>4, <1>5
<1> QED BY <1>1, <1>4, <1>6 DEF Tells, column

\* A team's receptions in a game are some number.
LEMMA TeamReceptionsTyped ==
    ASSUME NEW g, NEW box, IsBox(g, box), NEW team
    PROVE  TeamReceptions(box.lines, team) \in Nat
<1> DEFINE lines == box.lines
           f == [p \in DOMAIN lines |-> lines[p].receptions]
           S == {p \in DOMAIN lines : lines[p].team = team}
<1>1. \A p \in DOMAIN lines : lines[p] \in Line(g) BY Zenon DEF IsBox
<1>2. \A p \in S : f[p] \in Nat BY <1>1 DEF Line
<1>3. IsFiniteSet(S)
  <2>1. DOMAIN lines \subseteq Players /\ IsFiniteSet(Players) BY GamesAssumption DEF IsBox
  <2>2. S \in SUBSET Players BY <2>1
  <2> HIDE DEF S
  <2> QED BY <2>1, <2>2, FS_Subset
<1>4. TeamReceptions(lines, team) = SumFunctionOnSet(f, S) BY DEF TeamReceptions
<1> HIDE DEF f, S
<1>5. NaturalOn(f, S) BY <1>2 DEF NaturalOn
<1>6. S \in SUBSET S OBVIOUS
<1>7. SumFunctionOnSet(f, S) \in Nat BY <1>3, <1>5, <1>6, SumOnSet, SumAdds
<1> QED BY <1>4, <1>7

\* What is said of a row's player numbers, of any games and what is known of them.
PlayerRow(g, f, past, receptions, targets, snaps) ==
    LET this_season == {h \in past : h.season = g.season}
    IN  /\ f.games_played_before = Cardinality(past)
        /\ f.receptions_season_mean = MeanOf(this_season, receptions)
        /\ f.snap_share_missing <=> \A h \in Latest(past, 1) : snaps[h] = None
        /\ f.rest_days # None =>
              \E h \in Latest(past, 1) : h.kickoff + f.rest_days = g.kickoff
        /\ \A w \in Windows :
              LET recent == Latest(past, w)
                  thrown == SumFunctionOnSet(targets, recent)
              IN  /\ f.receptions_roll[w] = MeanOf(recent, receptions)
                  /\ f.snap_share_roll[w] = MeanOf(recent, snaps)
                  /\ f.catch_rate_roll[w] =
                        IF thrown = 0 THEN None
                        ELSE <<SumFunctionOnSet(receptions, recent), thrown>>

TeamRow(f, past, attempts) ==
    \A w \in Windows : f.team_attempts_roll[w] = MeanOf(Latest(past, w), attempts)

OpponentRow(f, past, attempts, receptions) ==
    \A w \in Windows :
        /\ f.opponent_attempts_allowed_roll[w] = MeanOf(Latest(past, w), attempts)
        /\ f.opponent_receptions_allowed_roll[w] = MeanOf(Latest(past, w), receptions)

\* A number of the games of a player's past.
KnownRow(f, past) ==
    /\ past = {} => f.receptions_lag1 = None
    /\ past # {} => f.receptions_lag1 \in Nat
    /\ \A w \in Windows : Latest(past, w) = {} <=> past = {}

\* What a player's line was in games in which he appeared.
LEMMA AppearedLine ==
    ASSUME TableTyped, NEW p, NEW h \in OwnGames(p)
    PROVE  /\ h \in DOMAIN played /\ IsBox(h, played[h]) /\ p \in DOMAIN played[h].lines
           /\ p \in Players
           /\ played[h].lines[p].team \in {h.home, h.away}
           /\ played[h].lines[p].receptions \in Nat /\ played[h].lines[p].targets \in Nat
           /\ played[h].lines[p].snaps \in Nat \cup {None}
<1>1. h \in DOMAIN played /\ p \in DOMAIN played[h].lines BY DEF OwnGames, Appeared
<1>2. games \in Schedules /\ h \in games /\ played[h] \in BoxesOf[h] BY <1>1 DEF TableTyped
<1>3. IsBox(h, played[h]) BY <1>2, ScheduleFacts
<1>4. played[h].lines[p] \in Line(h) /\ p \in Players BY <1>1, <1>3 DEF IsBox
<1> QED BY <1>1, <1>3, <1>4 DEF Line

\* What is latest in a history.
LEMMA LatestOne ==
    ASSUME NEW gs, NEW S, InTurn(gs, S)
    PROVE  /\ Len(gs) = 0 <=> S = {}
           /\ S # {} => /\ Len(gs) \in DOMAIN gs /\ gs[Len(gs)] \in S
                        /\ Latest(S, 1) = {gs[Len(gs)]}
           /\ \A w \in Nat \ {0} : Latest(S, w) = {} <=> S = {}
<1> DEFINE N == Len(gs)
<1>1. /\ N \in Nat /\ DOMAIN gs = 1 .. N
      /\ \A i \in DOMAIN gs : gs[i] \in S
      /\ S = {gs[i] : i \in DOMAIN gs}
    BY InTurnOnce
<1>2. \A w \in Nat : Latest(S, w) = {gs[i] : i \in From(N, w) .. N} BY LatestAreLast
<1> HIDE DEF N
<1>3. N = 0 <=> S = {}
  <2>1. N = 0 <=> 1 .. N = {} BY <1>1
  <2> QED BY <1>1, <2>1
<1>4. ASSUME S # {} PROVE N \in DOMAIN gs /\ gs[N] \in S /\ Latest(S, 1) = {gs[N]}
  <2>1. N \in DOMAIN gs BY <1>1, <1>3, <1>4
  <2>2. From(N, 1) = N BY <1>1, <2>1 DEF From
  <2>3. N .. N = {N} BY <1>1
  <2>4. Latest(S, 1) = {gs[i] : i \in {N}} BY <1>2, <2>2, <2>3
  <2> QED BY <1>1, <2>1, <2>4
<1>5. ASSUME NEW w \in Nat \ {0} PROVE Latest(S, w) = {} <=> S = {}
  <2>1. Latest(S, w) \subseteq S BY DEF Latest
  <2>2. ASSUME S # {} PROVE Latest(S, w) # {}
    <3>1. N \in From(N, w) .. N BY <1>1, <1>3, <2>2 DEF From
    <3>2. gs[N] \in Latest(S, w) BY <1>2, <3>1
    <3> QED BY <3>2
  <2> QED BY <2>1, <2>2
<1> QED BY <1>3, <1>4, <1>5 DEF N

\* The latest entry of a column is that of the latest game.
LEMMA LatestTold ==
    ASSUME NEW gs, NEW S, InTurn(gs, S), NEW s, NEW V, Tells(s, gs, V)
    PROVE  /\ s = <<>> <=> S = {}
           /\ S # {} => Last(s) = V[gs[Len(gs)]]
<1>1. s \in Seq(Nat \cup {None}) /\ Len(s) = Len(gs) /\ \A i \in DOMAIN gs : s[i] = V[gs[i]]
    BY DEF Tells
<1>2. Len(gs) = 0 <=> S = {} BY LatestOne
<1>3. S # {} => Len(gs) \in DOMAIN gs BY LatestOne
<1>4. s = <<>> <=> Len(s) = 0 BY <1>1
<1>5. Last(s) = s[Len(s)] BY DEF Last
<1> QED BY <1>1, <1>2, <1>3, <1>4, <1>5

\* The rate over the latest games.
LEMMA RatioTells ==
    ASSUME NEW gs, NEW S, InTurn(gs, S), NEW n \in Nat,
           NEW top, NEW R, Tells(top, gs, R), \A h \in S : R[h] \in Nat,
           NEW bottom, NEW T, Tells(bottom, gs, T), \A h \in S : T[h] \in Nat
    PROVE  Ratio(top, bottom, n) =
              IF SumFunctionOnSet(T, Latest(S, n)) = 0 THEN None
              ELSE <<SumFunctionOnSet(R, Latest(S, n)), SumFunctionOnSet(T, Latest(S, n))>>
<1>1. NaturalOn(R, Latest(S, n)) /\ NaturalOn(T, Latest(S, n)) BY DEF NaturalOn, Latest
<1>2. Total(LastOf(top, n)) = SumFunctionOnSet(R, Latest(S, n)) BY <1>1, TotalTells
<1>3. /\ Total(LastOf(bottom, n)) = SumFunctionOnSet(T, Latest(S, n))
      /\ Total(LastOf(bottom, n)) \in Nat
    BY <1>1, TotalTells
<1>4. Total(LastOf(bottom, n)) <= 0 <=> SumFunctionOnSet(T, Latest(S, n)) = 0 BY <1>3
<1> QED BY <1>2, <1>3, <1>4, Zenon DEF Ratio

\* The mean of a whole history is the mean over all its games.
LEMMA WholeMean ==
    ASSUME NEW gs, NEW S, InTurn(gs, S), NEW s, NEW V, Tells(s, gs, V)
    PROVE  Mean(s, Len(s)) = MeanOf(S, V)
<1>1. Len(s) = Len(gs) /\ Len(gs) \in Nat BY InTurnOnce DEF Tells
<1>2. Latest(S, Len(gs)) = S BY AllAreLatest
<1> QED BY <1>1, <1>2, MeanTells

\* The player's numbers of a row in the making.
LEMMA PlayerFeatures ==
    ASSUME TableTyped, HistoriesTold, NEW p \in Players, NEW g \in games, NEW team
    PROVE  LET past == OwnGames(p)
           IN  /\ PlayerRow(g, Features(p, g, team), past,
                     [h \in past |-> played[h].lines[p].receptions],
                     [h \in past |-> played[h].lines[p].targets],
                     [h \in past |-> played[h].lines[p].snaps])
               /\ KnownRow(Features(p, g, team), past)
<1> DEFINE past == OwnGames(p)
           R == [h \in past |-> played[h].lines[p].receptions]
           T == [h \in past |-> played[h].lines[p].targets]
           K == [h \in past |-> played[h].lines[p].snaps]
           f == Features(p, g, team)
           k == <<p, g.season>>
           history == player_history[p]
           season_history == season_player_history[k]
           receptions == Column(history, "receptions")
           targets == Column(history, "targets")
           snaps == Column(history, "snaps")
           this_season == {h \in past : h.season = g.season}
           F == PlayerTale(p)
           season == Column(season_history, "receptions")
<1>1. PICK gs : InTurn(gs, past) /\ history = [i \in DOMAIN gs |-> F[gs[i]]]
    BY DEF HistoriesTold, Recounts
<1>2. k \in Players \X Seasons BY DEF Seasons
<1>3. SeasonGames(k) = this_season BY DEF SeasonGames
<1>4. PICK ss : InTurn(ss, this_season)
                /\ season_history = [i \in DOMAIN ss |-> SeasonTale(k)[ss[i]]]
  <2>1. Recounts(season_history, SeasonGames(k), SeasonTale(k)) BY <1>2 DEF HistoriesTold
  <2> QED BY <1>3, <2>1 DEF Recounts
<1>5. \A h \in past : /\ R[h] \in Nat /\ T[h] \in Nat /\ K[h] \in Nat \cup {None}
                      /\ F[h] = Update(h, played[h].lines[p])
                      /\ F[h].receptions = R[h] /\ F[h].targets = T[h] /\ F[h].snaps = K[h]
                      /\ F[h].kickoff = h.kickoff
    BY AppearedLine DEF PlayerTale, Update
<1>6. \A h \in this_season : SeasonTale(k)[h].receptions = R[h] /\ R[h] \in Nat
    BY <1>3, <1>5 DEF SeasonTale, Update
<1>7. f = [receptions_lag1 |-> IF receptions = <<>> THEN None ELSE Last(receptions),
           snap_share_lag1 |-> IF snaps = <<>> THEN None ELSE Last(snaps),
           snap_share_missing |-> (IF snaps = <<>> THEN None ELSE Last(snaps)) = None,
           games_played_before |-> Len(history),
           rest_days |-> IF history = <<>> THEN None ELSE g.kickoff - Last(history).kickoff,
           receptions_season_mean |-> Mean(season, Len(season_history)),
           receptions_roll |-> [w \in Windows |-> Mean(receptions, w)],
           catch_rate_roll |-> [w \in Windows |-> Ratio(receptions, targets, w)],
           snap_share_roll |-> [w \in Windows |-> Mean(snaps, w)],
           team_attempts_roll |-> f.team_attempts_roll,
           opponent_attempts_allowed_roll |-> f.opponent_attempts_allowed_roll,
           opponent_receptions_allowed_roll |-> f.opponent_receptions_allowed_roll]
    BY DEF Features
<1> HIDE DEF f
<1>8. /\ f.receptions_lag1 = IF receptions = <<>> THEN None ELSE Last(receptions)
      /\ f.snap_share_missing = ((IF snaps = <<>> THEN None ELSE Last(snaps)) = None)
      /\ f.games_played_before = Len(history)
      /\ f.rest_days = IF history = <<>> THEN None ELSE g.kickoff - Last(history).kickoff
      /\ f.receptions_season_mean = Mean(season, Len(season_history))
      /\ \A w \in Windows : /\ f.receptions_roll[w] = Mean(receptions, w)
                            /\ f.catch_rate_roll[w] = Ratio(receptions, targets, w)
                            /\ f.snap_share_roll[w] = Mean(snaps, w)
  <2> HIDE DEF receptions, targets, snaps, season, history, season_history
  <2> QED BY <1>7
<1>9. Tells(receptions, gs, R) /\ Tells(targets, gs, T) /\ Tells(snaps, gs, K)
  <2> HIDE DEF F, R, T, K, past, history
  <2>1. Tells(receptions, gs, R)
    <3>1. \A h \in past : F[h]["receptions"] = R[h] /\ R[h] \in Nat \cup {None} BY <1>5
    <3> QED BY <1>1, <3>1, ColumnTells
  <2>2. Tells(targets, gs, T)
    <3>1. \A h \in past : F[h]["targets"] = T[h] /\ T[h] \in Nat \cup {None} BY <1>5
    <3> QED BY <1>1, <3>1, ColumnTells
  <2>3. Tells(snaps, gs, K)
    <3>1. \A h \in past : F[h]["snaps"] = K[h] /\ K[h] \in Nat \cup {None} BY <1>5
    <3> QED BY <1>1, <3>1, ColumnTells
  <2> QED BY <2>1, <2>2, <2>3
<1>10. Tells(season, ss, R)
  <2> DEFINE G == SeasonTale(k)
  <2>1. \A h \in this_season : G[h]["receptions"] = R[h] /\ R[h] \in Nat \cup {None} BY <1>6
  <2>2. season_history = [i \in DOMAIN ss |-> G[ss[i]]] BY <1>4
  <2> HIDE DEF G, R, this_season, season_history
  <2> QED BY <1>4, <2>1, <2>2, ColumnTells
<1>11. /\ Len(gs) \in Nat /\ DOMAIN gs = 1 .. Len(gs) /\ Cardinality(past) = Len(gs)
       /\ Len(ss) \in Nat /\ DOMAIN ss = 1 .. Len(ss)
    BY <1>1, <1>4, InTurnOnce
<1>12. Len(history) = Len(gs) /\ Len(season_history) = Len(ss)
  <2> HIDE DEF history, season_history
  <2> QED BY <1>1, <1>4, <1>11
<1>13. \A h \in past : h.kickoff \in Int BY <1>1 DEF InTurn
<1>14. g.kickoff \in Int BY ScheduleFacts DEF TableTyped
<1>15. None \notin Int /\ Windows \subseteq Nat \ {0} BY GamesAssumption
<1> HIDE DEF past, R, T, K, history, season_history, receptions, targets, snaps, F, season
<1>20. f.games_played_before = Cardinality(past) BY <1>8, <1>11, <1>12
<1>21. f.receptions_season_mean = MeanOf(this_season, R)
  <2>1. Len(season) = Len(season_history) BY <1>10, <1>12 DEF Tells
  <2> HIDE DEF this_season
  <2> QED BY <1>4, <1>8, <1>10, <2>1, WholeMean
<1>22. f.snap_share_missing <=> \A h \in Latest(past, 1) : K[h] = None
  <2>1. CASE past = {}
    <3>1. snaps = <<>> BY <1>1, <1>9, <2>1, LatestTold
    <3>2. Latest(past, 1) = {} BY <2>1 DEF Latest
    <3> QED BY <1>8, <3>1, <3>2
  <2>2. CASE past # {}
    <3>1. snaps # <<>> /\ Last(snaps) = K[gs[Len(gs)]] BY <1>1, <1>9, <2>2, LatestTold
    <3>2. Latest(past, 1) = {gs[Len(gs)]} BY <1>1, <2>2, LatestOne
    <3> QED BY <1>8, <3>1, <3>2
  <2> QED BY <2>1, <2>2
<1>23. f.rest_days # None =>
          \E h \in Latest(past, 1) : h.kickoff + f.rest_days = g.kickoff
  <2>1. CASE past = {}
    <3>1. Len(gs) = 0 BY <1>1, <2>1, LatestOne
    <3>2. history = <<>> BY <1>1, <1>11, <3>1
    <3> QED BY <1>8, <3>2
  <2>2. CASE past # {}
    <3> DEFINE last == gs[Len(gs)]
    <3>1. Len(gs) \in DOMAIN gs /\ last \in past /\ Latest(past, 1) = {last}
        BY <1>1, <2>2, LatestOne
    <3>2. Last(history) = F[last] /\ history # <<>>
        BY <1>1, <1>11, <1>12, <3>1 DEF Last
    <3> HIDE DEF last
    <3>3. f.rest_days = g.kickoff - last.kickoff BY <1>5, <1>8, <3>1, <3>2
    <3>4. last.kickoff + f.rest_days = g.kickoff BY <1>13, <1>14, <3>1, <3>3
    <3> QED BY <3>1, <3>4
  <2> QED BY <2>1, <2>2
<1>24. ASSUME NEW w \in Windows
       PROVE  /\ f.receptions_roll[w] = MeanOf(Latest(past, w), R)
              /\ f.snap_share_roll[w] = MeanOf(Latest(past, w), K)
              /\ f.catch_rate_roll[w] =
                    IF SumFunctionOnSet(T, Latest(past, w)) = 0 THEN None
                    ELSE <<SumFunctionOnSet(R, Latest(past, w)), SumFunctionOnSet(T, Latest(past, w))>>
  <2>1. w \in Nat BY <1>15
  <2>2. Mean(receptions, w) = MeanOf(Latest(past, w), R) BY <1>1, <1>9, <2>1, MeanTells
  <2>3. Mean(snaps, w) = MeanOf(Latest(past, w), K) BY <1>1, <1>9, <2>1, MeanTells
  <2>4. Ratio(receptions, targets, w) =
           IF SumFunctionOnSet(T, Latest(past, w)) = 0 THEN None
           ELSE <<SumFunctionOnSet(R, Latest(past, w)), SumFunctionOnSet(T, Latest(past, w))>>
    <3>1. \A h \in past : R[h] \in Nat /\ T[h] \in Nat BY <1>5
    <3> QED BY <1>1, <1>9, <2>1, <3>1, RatioTells
  <2> QED BY <1>8, <2>2, <2>3, <2>4, Zenon
<1>25. PlayerRow(g, f, past, R, T, K)
    BY <1>20, <1>21, <1>22, <1>23, <1>24, Zenon DEF PlayerRow
<1>26. KnownRow(f, past)
  <2>1. \A w \in Windows : Latest(past, w) = {} <=> past = {} BY <1>1, <1>15, LatestOne
  <2>2. (past = {} => f.receptions_lag1 = None) /\ (past # {} => f.receptions_lag1 \in Nat)
    <3>1. receptions = <<>> <=> past = {} BY <1>1, <1>9, LatestTold
    <3>2. ASSUME past # {} PROVE Last(receptions) \in Nat
      <4>1. Last(receptions) = R[gs[Len(gs)]] /\ gs[Len(gs)] \in past
          BY <1>1, <1>9, <3>2, LatestTold, LatestOne
      <4> QED BY <1>5, <4>1
    <3> QED BY <1>8, <3>1, <3>2
  <2> QED BY <2>1, <2>2, Zenon DEF KnownRow
<1> QED BY <1>25, <1>26 DEF past, R, T, K, f

\* What is known of a team's game.
LEMMA OffenceLine ==
    ASSUME TableTyped, NEW k, NEW h \in OffenceGames(k)
    PROVE  /\ h \in DOMAIN played /\ k[2] \in {h.home, h.away}
           /\ played[h].attempts[k[2]] \in Nat \cup {None}
<1>1. h \in DOMAIN played /\ \E p \in DOMAIN played[h].lines : played[h].lines[p].team = k[2]
    BY DEF OffenceGames
<1>2. games \in Schedules /\ h \in games /\ played[h] \in BoxesOf[h] BY <1>1 DEF TableTyped
<1>3. IsBox(h, played[h]) BY <1>2, ScheduleFacts
<1>4. PICK p \in DOMAIN played[h].lines : played[h].lines[p].team = k[2] BY <1>1
<1>5. played[h].lines[p] \in Line(h) BY <1>3 DEF IsBox
<1>6. k[2] \in {h.home, h.away} BY <1>4, <1>5 DEF Line
<1>7. played[h].attempts \in [{h.home, h.away} -> Nat \cup {None}] BY <1>3 DEF IsBox
<1> QED BY <1>1, <1>6, <1>7

\* What is known of a game against a team.
LEMMA DefenceLine ==
    ASSUME TableTyped, NEW k, NEW h \in DefenceGames(k)
    PROVE  /\ h \in DOMAIN played
           /\ played[h].attempts[Opponent(h, k[2])] \in Nat \cup {None}
           /\ TeamReceptions(played[h].lines, Opponent(h, k[2])) \in Nat
<1>1. h \in DOMAIN played /\ k[2] \in {h.home, h.away} BY DEF DefenceGames
<1>2. games \in Schedules /\ h \in games /\ played[h] \in BoxesOf[h] BY <1>1 DEF TableTyped
<1>3. IsBox(h, played[h]) BY <1>2, ScheduleFacts
<1>4. Opponent(h, k[2]) \in {h.home, h.away} BY DEF Opponent
<1>5. played[h].attempts \in [{h.home, h.away} -> Nat \cup {None}] BY <1>3 DEF IsBox
<1>6. TeamReceptions(played[h].lines, Opponent(h, k[2])) \in Nat BY <1>3, TeamReceptionsTyped
<1> QED BY <1>1, <1>4, <1>5, <1>6

\* The teams' numbers of a row in the making.
LEMMA TeamFeatures ==
    ASSUME TableTyped, HistoriesTold, NEW p, NEW g \in games, NEW team \in {g.home, g.away}
    PROVE  LET k == <<g.season, team>>
               past == OffenceGames(k)
           IN  TeamRow(Features(p, g, team), past, [h \in past |-> played[h].attempts[team]])
<1> DEFINE k == <<g.season, team>>
           past == OffenceGames(k)
           A == [h \in past |-> played[h].attempts[team]]
           f == Features(p, g, team)
           F == OffenceTale(k)
           history == team_history[k]
<1>1. k \in Seasons \X Teams /\ k[2] = team BY DEF Seasons, Teams
<1>2. PICK gs : InTurn(gs, past) /\ history = [i \in DOMAIN gs |-> F[gs[i]]]
    BY <1>1 DEF HistoriesTold, Recounts
<1>3. \A h \in past : F[h] = A[h] /\ A[h] \in Nat \cup {None}
  <2>1. \A h \in past : played[h].attempts[k[2]] \in Nat \cup {None} BY OffenceLine
  <2> QED BY <1>1, <2>1 DEF OffenceTale
<1>4. \A w \in Windows : f.team_attempts_roll[w] = Mean(history, w)
    BY DEF Features
<1>5. Windows \subseteq Nat \ {0} BY GamesAssumption
<1> HIDE DEF past, A, F, history, f
<1>6. Tells(history, gs, A)
  <2>1. /\ Len(gs) \in Nat /\ DOMAIN gs = 1 .. Len(gs)
        /\ \A i \in DOMAIN gs : gs[i] \in past
      BY <1>2, InTurnOnce
  <2>2. history = [i \in 1 .. Len(gs) |-> history[i]] BY <1>2, <2>1
  <2>3. \A i \in 1 .. Len(gs) : history[i] = A[gs[i]] /\ A[gs[i]] \in Nat \cup {None}
      BY <1>2, <1>3, <2>1
  <2>4. history \in Seq(Nat \cup {None}) /\ Len(history) = Len(gs) BY <2>1, <2>2, <2>3
  <2> QED BY <2>1, <2>3, <2>4 DEF Tells
<1>7. ASSUME NEW w \in Windows PROVE f.team_attempts_roll[w] = MeanOf(Latest(past, w), A)
  <2>1. w \in Nat BY <1>5
  <2>2. Mean(history, w) = MeanOf(Latest(past, w), A) BY <1>2, <1>6, <2>1, MeanTells
  <2> QED BY <1>4, <2>2
<1> QED BY <1>7, Zenon DEF TeamRow, past, A, f

\* The opponent's numbers of a row in the making.
LEMMA OpponentFeatures ==
    ASSUME TableTyped, HistoriesTold, NEW p, NEW g \in games, NEW team \in {g.home, g.away}
    PROVE  LET opponent == Opponent(g, team)
               k == <<g.season, opponent>>
               past == DefenceGames(k)
           IN  OpponentRow(Features(p, g, team), past,
                  [h \in past |-> played[h].attempts[Opponent(h, opponent)]],
                  [h \in past |-> TeamReceptions(played[h].lines, Opponent(h, opponent))])
<1> DEFINE opponent == Opponent(g, team)
           k == <<g.season, opponent>>
           past == DefenceGames(k)
           A == [h \in past |-> played[h].attempts[Opponent(h, opponent)]]
           R == [h \in past |-> TeamReceptions(played[h].lines, Opponent(h, opponent))]
           f == Features(p, g, team)
           F == DefenceTale(k)
           history == defense_history[k]
           attempts == Column(history, "attempts")
           receptions == Column(history, "receptions")
<1>1. k \in Seasons \X Teams /\ k[2] = opponent BY DEF Seasons, Teams, Opponent
<1>2. PICK gs : InTurn(gs, past) /\ history = [i \in DOMAIN gs |-> F[gs[i]]]
    BY <1>1 DEF HistoriesTold, Recounts
<1>3. \A h \in past : /\ F[h].attempts = A[h] /\ A[h] \in Nat \cup {None}
                      /\ F[h].receptions = R[h] /\ R[h] \in Nat \cup {None}
  <2>1. \A h \in past : /\ played[h].attempts[Opponent(h, k[2])] \in Nat \cup {None}
                        /\ TeamReceptions(played[h].lines, Opponent(h, k[2])) \in Nat
      BY DefenceLine
  <2> QED BY <1>1, <2>1 DEF DefenceTale
<1>4. \A w \in Windows : /\ f.opponent_attempts_allowed_roll[w] = Mean(attempts, w)
                         /\ f.opponent_receptions_allowed_roll[w] = Mean(receptions, w)
    BY DEF Features
<1>5. Windows \subseteq Nat \ {0} BY GamesAssumption
<1> HIDE DEF past, A, R, F, history, f
<1>6. Tells(attempts, gs, A)
  <2>1. \A h \in past : F[h]["attempts"] = A[h] /\ A[h] \in Nat \cup {None} BY <1>3
  <2> QED BY <1>2, <2>1, ColumnTells
<1>7. Tells(receptions, gs, R)
  <2>1. \A h \in past : F[h]["receptions"] = R[h] /\ R[h] \in Nat \cup {None} BY <1>3
  <2> QED BY <1>2, <2>1, ColumnTells
<1> HIDE DEF attempts, receptions
<1>8. ASSUME NEW w \in Windows
      PROVE  /\ f.opponent_attempts_allowed_roll[w] = MeanOf(Latest(past, w), A)
             /\ f.opponent_receptions_allowed_roll[w] = MeanOf(Latest(past, w), R)
  <2>1. w \in Nat BY <1>5
  <2>2. Mean(attempts, w) = MeanOf(Latest(past, w), A) BY <1>2, <1>6, <2>1, MeanTells
  <2>3. Mean(receptions, w) = MeanOf(Latest(past, w), R) BY <1>2, <1>7, <2>1, MeanTells
  <2> QED BY <1>4, <2>2, <2>3
<1> QED BY <1>8, Zenon DEF OpponentRow, past, A, R, f

-----------------------------------------------------------------------------
(* Every row, of the games before its own                                   *)

OpponentOf(r) == Opponent(r.game, TeamOf(r))

OwnPast(r) == Past(r.player, r.game)
TeamsPast(r) == TeamPast(TeamOf(r), r.game)

OpponentsPast(r) ==
    {h \in DOMAIN played :
        /\ OpponentOf(r) \in {h.home, h.away}
        /\ h \in TeamPast(Opponent(h, OpponentOf(r)), r.game)}

PastReceptions(r) == [h \in OwnPast(r) |-> played[h].lines[r.player].receptions]
PastTargets(r) == [h \in OwnPast(r) |-> played[h].lines[r.player].targets]
PastSnaps(r) == [h \in OwnPast(r) |-> played[h].lines[r.player].snaps]
PastAttempts(r) == [h \in TeamsPast(r) |-> played[h].attempts[TeamOf(r)]]
AllowedAttempts(r) ==
    [h \in OpponentsPast(r) |-> played[h].attempts[Opponent(h, OpponentOf(r))]]
AllowedReceptions(r) ==
    [h \in OpponentsPast(r) |-> TeamReceptions(played[h].lines, Opponent(h, OpponentOf(r)))]

RowPlaced(r) ==
    r.game \in DOMAIN played /\ r.player \in DOMAIN played[r.game].lines

RowTold(r) ==
    /\ PlayerRow(r.game, r.features, OwnPast(r), PastReceptions(r), PastTargets(r), PastSnaps(r))
    /\ KnownRow(r.features, OwnPast(r))
    /\ TeamRow(r.features, TeamsPast(r), PastAttempts(r))
    /\ OpponentRow(r.features, OpponentsPast(r), AllowedAttempts(r), AllowedReceptions(r))

RowsTold == \A r \in output_rows : RowPlaced(r) /\ RowTold(r)

\* Rows that say what their games say rest on the past.
LEMMA RowsRestOnThePast ==
    ASSUME RowsTold
    PROVE  FeaturesRestOnThePast
<1>1. ASSUME NEW r \in output_rows
      PROVE  PlayerRow(r.game, r.features, OwnPast(r), PastReceptions(r), PastTargets(r), PastSnaps(r))
    BY DEF RowsTold, RowTold
<1>2. PlayerFeaturesRestOnThePast
    BY <1>1, Zenon DEF PlayerFeaturesRestOnThePast, PlayerRow, OwnPast, PastReceptions, PastTargets,
           PastSnaps
<1>3. ASSUME NEW r \in output_rows
      PROVE  TeamRow(r.features, TeamsPast(r), PastAttempts(r))
    BY DEF RowsTold, RowTold
<1>4. TeamFormRestsOnTheSeason
    BY <1>3, Zenon DEF TeamFormRestsOnTheSeason, TeamRow, TeamsPast, PastAttempts
<1>5. ASSUME NEW r \in output_rows
      PROVE  OpponentRow(r.features, OpponentsPast(r), AllowedAttempts(r), AllowedReceptions(r))
    BY DEF RowsTold, RowTold
<1>6. OpponentFormIsWhatItAllowed
    BY <1>5, Zenon DEF OpponentFormIsWhatItAllowed, OpponentRow, OpponentsPast, AllowedAttempts,
           AllowedReceptions, OpponentOf
<1> QED BY <1>2, <1>4, <1>6 DEF FeaturesRestOnThePast

\* A game built later is not in a row's past.
LEMMA PastStays ==
    ASSUME NEW g, NEW box, NextBuilt(g, box), Plays(g, box), NEW r, RowPlaced(r)
    PROVE  /\ RowPlaced(r)'
           /\ OwnPast(r)' = OwnPast(r)
           /\ TeamsPast(r)' = TeamsPast(r)
           /\ OpponentsPast(r)' = OpponentsPast(r)
           /\ PastReceptions(r)' = PastReceptions(r)
           /\ PastTargets(r)' = PastTargets(r)
           /\ PastSnaps(r)' = PastSnaps(r)
           /\ PastAttempts(r)' = PastAttempts(r)
           /\ AllowedAttempts(r)' = AllowedAttempts(r)
           /\ AllowedReceptions(r)' = AllowedReceptions(r)
<1>1. /\ r.game \in DOMAIN played /\ r.game # g
      /\ r.game.kickoff \in Int /\ g.kickoff \in Int /\ r.game.kickoff <= g.kickoff
    BY DEF RowPlaced, NextBuilt
<1>2. ~(g.kickoff < r.game.kickoff) BY <1>1
<1>3. /\ DOMAIN played' = DOMAIN played \cup {g}
      /\ \A h \in DOMAIN played : h # g /\ played'[h] = played[h]
    BY DEF NextBuilt, Plays
<1>4. RowPlaced(r)' BY <1>1, <1>3 DEF RowPlaced
<1>5. OwnPast(r)' = OwnPast(r) BY <1>2, <1>3 DEF OwnPast, Past, Appeared
<1>6. TeamOf(r)' = TeamOf(r) BY <1>1, <1>3 DEF TeamOf
<1>7. OpponentOf(r)' = OpponentOf(r) BY <1>6 DEF OpponentOf, Opponent
<1>8. ASSUME NEW t PROVE TeamPast(t, r.game)' = TeamPast(t, r.game)
    BY <1>2, <1>3 DEF TeamPast
<1>9. TeamsPast(r)' = TeamsPast(r) BY <1>6, <1>8 DEF TeamsPast, TeamPast
<1>10. \A t : TeamPast(t, r.game) \subseteq DOMAIN played BY DEF TeamPast
<1>11. OpponentsPast(r)' = OpponentsPast(r)
    BY <1>3, <1>7, <1>8, <1>10 DEF OpponentsPast, Opponent
<1>12. /\ OwnPast(r) \subseteq DOMAIN played /\ TeamsPast(r) \subseteq DOMAIN played
       /\ OpponentsPast(r) \subseteq DOMAIN played
    BY DEF OwnPast, Past, TeamsPast, TeamPast, OpponentsPast
<1>13. /\ PastReceptions(r)' = PastReceptions(r)
       /\ PastTargets(r)' = PastTargets(r)
       /\ PastSnaps(r)' = PastSnaps(r)
    BY <1>3, <1>5, <1>12 DEF PastReceptions, PastTargets, PastSnaps
<1>14. PastAttempts(r)' = PastAttempts(r) BY <1>3, <1>6, <1>9, <1>12 DEF PastAttempts
<1>15. AllowedAttempts(r)' = AllowedAttempts(r)
    BY <1>3, <1>7, <1>11, <1>12 DEF AllowedAttempts, Opponent
<1>16. AllowedReceptions(r)' = AllowedReceptions(r)
    BY <1>3, <1>7, <1>11, <1>12 DEF AllowedReceptions, Opponent, TeamReceptions
<1> QED BY <1>4, <1>5, <1>9, <1>11, <1>13, <1>14, <1>15, <1>16

\* So a row goes on saying what its games say.
LEMMA RowStays ==
    ASSUME NEW g, NEW box, NextBuilt(g, box), Plays(g, box), NEW r, RowPlaced(r), RowTold(r)
    PROVE  RowTold(r)'
<1>1. PlayerRow(r.game, r.features, OwnPast(r)', PastReceptions(r)', PastTargets(r)', PastSnaps(r)')
    BY PastStays DEF RowTold
<1>2. KnownRow(r.features, OwnPast(r)') BY PastStays DEF RowTold
<1>3. TeamRow(r.features, TeamsPast(r)', PastAttempts(r)') BY PastStays DEF RowTold
<1>4. OpponentRow(r.features, OpponentsPast(r)', AllowedAttempts(r)', AllowedReceptions(r)')
    BY PastStays DEF RowTold
<1> QED BY <1>1, <1>2, <1>3, <1>4 DEF RowTold

\* A row in the making: its past is all that its histories tell of.
LEMMA RowMade ==
    ASSUME TableTyped, HistoriesTold, NEW g, NEW box, NextBuilt(g, box), Plays(g, box),
           NEW p \in DOMAIN box.lines, NEW r,
           r = [player |-> p, game |-> g, features |-> Features(p, g, box.lines[p].team)]
    PROVE  RowPlaced(r)' /\ RowTold(r)'
<1> DEFINE team == box.lines[p].team
           f == Features(p, g, team)
           opponent == Opponent(g, team)
           own == OwnGames(p)
           offence == OffenceGames(<<g.season, team>>)
           against == DefenceGames(<<g.season, opponent>>)
<1>1. /\ g \in games /\ g.kickoff \in Int /\ g.home # g.away
      /\ IsBox(g, box) /\ g \notin DOMAIN played
      /\ \A h \in DOMAIN played : IsBox(h, played[h]) /\ h.kickoff \in Int /\ h.kickoff <= g.kickoff
      /\ \A h \in DOMAIN played : h.kickoff = g.kickoff =>
            /\ {h.home, h.away} \cap {g.home, g.away} = {}
            /\ DOMAIN played[h].lines \cap DOMAIN box.lines = {}
    BY Zenon DEF NextBuilt
<1>2. /\ DOMAIN played' = DOMAIN played \cup {g} /\ played'[g] = box
      /\ \A h \in DOMAIN played : played'[h] = played[h]
    BY <1>1, Zenon DEF Plays
<1>3. team \in {g.home, g.away} /\ p \in Players
  <2>1. box.lines[p] \in Line(g) /\ p \in Players BY <1>1 DEF IsBox
  <2> QED BY <2>1 DEF Line
<1>4. opponent \in {g.home, g.away} /\ Opponent(g, opponent) = team
    BY <1>1, <1>3, OpponentsOpponent
<1> HIDE DEF team, f, opponent
<1>5. r.player = p /\ r.game = g /\ r.features = f BY DEF f, team
<1>6. RowPlaced(r)' BY <1>2, <1>5 DEF RowPlaced
<1>7. TeamOf(r)' = team BY <1>2, <1>5 DEF TeamOf, team
<1>8. OpponentOf(r)' = opponent BY <1>5, <1>7 DEF OpponentOf, opponent
<1>9. OwnPast(r)' = own
  <2>1. OwnPast(r)' = {h \in DOMAIN played' : h.kickoff < g.kickoff /\ p \in DOMAIN played'[h].lines}
      BY <1>5 DEF OwnPast, Past, Appeared
  <2>2. ASSUME NEW h \in DOMAIN played, p \in DOMAIN played[h].lines PROVE h.kickoff < g.kickoff
    <3>1. h.kickoff # g.kickoff BY <1>1, <2>2
    <3> QED BY <1>1, <3>1
  <2>3. ~(g.kickoff < g.kickoff) BY <1>1
  <2>4. own = {h \in DOMAIN played : p \in DOMAIN played[h].lines} BY DEF OwnGames, Appeared
  <2> HIDE DEF own
  <2> QED BY <1>2, <2>1, <2>2, <2>3, <2>4
<1>10. ASSUME NEW t \in {g.home, g.away}, NEW h \in DOMAIN played,
              t \in {h.home, h.away}
       PROVE  h.kickoff < g.kickoff
  <2>1. h.kickoff # g.kickoff BY <1>1, <1>10
  <2> QED BY <1>1, <2>1
<1>11. ASSUME NEW h \in DOMAIN played, NEW q \in DOMAIN played[h].lines
       PROVE  played[h].lines[q].team \in {h.home, h.away}
  <2>1. played[h].lines[q] \in Line(h) BY <1>1 DEF IsBox
  <2> QED BY <2>1 DEF Line
<1>12. ASSUME NEW t, NEW h
       PROVE  h \in TeamPast(t, g)' <=>
                 /\ h \in DOMAIN played /\ h.season = g.season /\ h.kickoff < g.kickoff
                 /\ \E q \in DOMAIN played[h].lines : played[h].lines[q].team = t
  <2>1. ~(g.kickoff < g.kickoff) BY <1>1
  <2> QED BY <1>2, <2>1 DEF TeamPast
<1>13. TeamsPast(r)' = offence
  <2>1. TeamsPast(r)' = TeamPast(team, g)' BY <1>5, <1>7 DEF TeamsPast, TeamPast
  <2>2. ASSUME NEW h PROVE h \in TeamPast(team, g)' <=> h \in offence
    <3>1. ASSUME NEW q, h \in DOMAIN played, q \in DOMAIN played[h].lines,
                 played[h].lines[q].team = team
          PROVE  h.kickoff < g.kickoff
        BY <1>3, <1>10, <1>11, <3>1
    <3>2. h \in offence <=> /\ h \in DOMAIN played /\ h.season = g.season
                            /\ \E q \in DOMAIN played[h].lines : played[h].lines[q].team = team
        BY DEF OffenceGames
    <3> QED BY <1>12, <3>1, <3>2
  <2>3. \A h \in TeamsPast(r)' : h \in offence BY <2>1, <2>2
  <2>4. \A h \in offence : h \in TeamsPast(r)' BY <2>1, <2>2
  <2> QED BY <2>3, <2>4
<1>14. OpponentsPast(r)' = against
  <2>1. ASSUME NEW h
        PROVE  h \in OpponentsPast(r)' <=>
                  /\ h \in DOMAIN played' /\ opponent \in {h.home, h.away}
                  /\ h \in TeamPast(Opponent(h, opponent), g)'
      BY <1>5, <1>8 DEF OpponentsPast, TeamPast, Opponent
  <2>2. ASSUME NEW h
        PROVE  h \in against <=>
                  /\ h \in DOMAIN played /\ h.season = g.season /\ opponent \in {h.home, h.away}
                  /\ \E q \in DOMAIN played[h].lines :
                        played[h].lines[q].team = Opponent(h, opponent)
      BY DEF DefenceGames
  <2>3. ASSUME NEW h PROVE h \in OpponentsPast(r)' <=> h \in against
    <3>1. h \in DOMAIN played /\ opponent \in {h.home, h.away} => h.kickoff < g.kickoff
        BY <1>4, <1>10
    <3> QED BY <1>2, <1>12, <2>1, <2>2, <3>1
  <2>4. \A h \in OpponentsPast(r)' : h \in against BY <2>3
  <2>5. \A h \in against : h \in OpponentsPast(r)' BY <2>3
  <2> QED BY <2>4, <2>5
<1>15. \A h \in own \cup offence \cup against : h \in DOMAIN played
    BY DEF OwnGames, OffenceGames, DefenceGames
<1> HIDE DEF own, offence, against
<1>16. /\ PastReceptions(r)' = [h \in own |-> played[h].lines[p].receptions]
       /\ PastTargets(r)' = [h \in own |-> played[h].lines[p].targets]
       /\ PastSnaps(r)' = [h \in own |-> played[h].lines[p].snaps]
    BY <1>2, <1>5, <1>9, <1>15 DEF PastReceptions, PastTargets, PastSnaps
<1>17. PastAttempts(r)' = [h \in offence |-> played[h].attempts[team]]
    BY <1>2, <1>7, <1>13, <1>15 DEF PastAttempts
<1>18. AllowedAttempts(r)' = [h \in against |-> played[h].attempts[Opponent(h, opponent)]]
    BY <1>2, <1>8, <1>14, <1>15 DEF AllowedAttempts, Opponent
<1>19. AllowedReceptions(r)' =
          [h \in against |-> TeamReceptions(played[h].lines, Opponent(h, opponent))]
    BY <1>2, <1>8, <1>14, <1>15 DEF AllowedReceptions, Opponent, TeamReceptions
<1>20. /\ PlayerRow(g, f, own, [h \in own |-> played[h].lines[p].receptions],
                    [h \in own |-> played[h].lines[p].targets],
                    [h \in own |-> played[h].lines[p].snaps])
       /\ KnownRow(f, own)
    BY <1>1, <1>3, PlayerFeatures DEF own, f
<1>21. TeamRow(f, offence, [h \in offence |-> played[h].attempts[team]])
    BY <1>1, <1>3, TeamFeatures DEF offence, f
<1>22. OpponentRow(f, against, [h \in against |-> played[h].attempts[Opponent(h, opponent)]],
                   [h \in against |-> TeamReceptions(played[h].lines, Opponent(h, opponent))])
    BY <1>1, <1>3, OpponentFeatures DEF against, opponent, f
<1>23. PlayerRow(g, f, OwnPast(r)', PastReceptions(r)', PastTargets(r)', PastSnaps(r)')
    BY <1>9, <1>16, <1>20
<1>24. KnownRow(f, OwnPast(r)') BY <1>9, <1>20
<1>25. TeamRow(f, TeamsPast(r)', PastAttempts(r)') BY <1>13, <1>17, <1>21
<1>26. OpponentRow(f, OpponentsPast(r)', AllowedAttempts(r)', AllowedReceptions(r)')
    BY <1>14, <1>18, <1>19, <1>22
<1> QED BY <1>5, <1>6, <1>23, <1>24, <1>25, <1>26 DEF RowTold

\* The table as built so far, and every row of it.
TableInv == TableTyped /\ TableInOrder /\ HistoriesTold /\ RowsTold

\* A schedule taken in order has each of its games once.
LEMMA ScheduleInOrder ==
    ASSUME games \in Schedules, NEW s \in Orders(games)
    PROVE  /\ s \in Seq(games)
           /\ \A i, j \in DOMAIN s : i < j => InOrder(s[i], s[j])
           /\ \A h \in games : \E i \in DOMAIN s : s[i] = h
<1> DEFINE N == Cardinality(games)
           I == 1 .. N
<1>1. IsFiniteSet(games) /\ \A g \in games : g.id \in Int /\ g.kickoff \in Int BY ScheduleFacts
<1>2. N \in Nat BY <1>1, FS_CardinalityType
<1>3. s \in [I -> games] /\ \A m, n \in DOMAIN s : m < n => InOrder(s[m], s[n])
    BY DEF Orders
<1>4. IsFiniteSet(I) /\ Cardinality(I) = N
  <2>1. N \in Int /\ 1 \in Int BY <1>2
  <2> HIDE DEF N
  <2>2. IsFiniteSet(1 .. N) /\ Cardinality(1 .. N) = IF 1 > N THEN 0 ELSE N - 1 + 1
      BY <2>1, FS_Interval, Zenon
  <2> QED BY <1>2, <2>2
<1>5. ASSUME NEW m \in I, NEW n \in I, s[m] = s[n] PROVE m = n
  <2>1. ASSUME NEW i \in I, NEW j \in I, i < j PROVE s[i] # s[j]
    <3>1. InOrder(s[i], s[j]) /\ s[i] \in games BY <1>3, <2>1
    <3>2. s[i].kickoff \in Int /\ s[i].id \in Int BY <1>1, <3>1
    <3>3. ~InOrder(s[i], s[i]) BY <3>2 DEF InOrder
    <3> QED BY <3>1, <3>3
  <2>2. m \in Nat /\ n \in Nat BY <1>2
  <2>3. ~(m < n) /\ ~(n < m) BY <1>5, <2>1
  <2> QED BY <2>2, <2>3
<1> HIDE DEF I
<1>6. s \in Injection(I, games) BY <1>3, <1>5 DEF Injection, IsInjective
<1>7. s \in Surjection(I, games)
    BY <1>1, <1>4, <1>6, FS_Injection
<1>8. \A h \in games : \E i \in DOMAIN s : s[i] = h BY <1>3, <1>7 DEF Surjection
<1>9. s \in Seq(games) BY <1>2, <1>3 DEF I
<1> QED BY <1>3, <1>8, <1>9

\* An empty table says nothing wrong.
LEMMA TableInit ==
    ASSUME Init
    PROVE  TableInv
<1>1. games \in Schedules /\ todo \in Orders(games) /\ output_rows = {} BY DEF Init
<1>2. played = <<>> /\ DOMAIN played = {} BY DEF Init
<1>3. TableTyped /\ TableInOrder
  <2>1. TableTyped BY <1>1, <1>2, ScheduleInOrder DEF Init, TableTyped
  <2>2. TableInOrder BY <1>1, <1>2, ScheduleInOrder DEF TableInOrder
  <2> QED BY <2>1, <2>2
<1>4. HistoriesTold
  <2>1. /\ \A p : OwnGames(p) = {}
        /\ \A k : SeasonGames(k) = {} /\ OffenceGames(k) = {} /\ DefenceGames(k) = {}
      BY <1>2 DEF OwnGames, SeasonGames, OffenceGames, DefenceGames
  <2>2. \A p \in Players : player_history[p] = <<>> BY DEF Init
  <2>3. \A k \in Players \X Seasons : season_player_history[k] = <<>> BY DEF Init
  <2>4. \A k \in Seasons \X Teams : team_history[k] = <<>> /\ defense_history[k] = <<>> BY DEF Init
  <2> QED BY <2>1, <2>2, <2>3, <2>4, RecountsNothing DEF HistoriesTold
<1> QED BY <1>1, <1>3, <1>4 DEF TableInv, RowsTold

\* A game built leaves every row, old and new, with what its games say.
LEMMA TableStep ==
    ASSUME TableInv, Next
    PROVE  TableInv'
<1>1. PICK box \in BoxesOf[Head(todo)] : BuildGame(box) BY DEF Next
<1> DEFINE g == Head(todo)
<1>2. todo # <<>> /\ games' = games BY DEF Next
<1>3. NextBuilt(g, box) /\ Plays(g, box) BY <1>1, <1>2, NextGame, GamePlayed DEF TableInv
<1>4. TableTyped' /\ TableInOrder' BY <1>1, <1>2, BuildTyped DEF TableInv
<1>5. HistoriesTold' BY <1>1, <1>2, BuildTells DEF TableInv
<1>6. output_rows' = output_rows \cup
              {[player |-> p, game |-> g, features |-> Features(p, g, box.lines[p].team)] :
                  p \in DOMAIN box.lines}
    BY <1>1 DEF BuildGame
<1> HIDE DEF g
<1>7. ASSUME NEW r \in output_rows' PROVE RowPlaced(r)' /\ RowTold(r)'
  <2>1. CASE r \in output_rows
    <3>1. RowPlaced(r) /\ RowTold(r) BY <2>1 DEF TableInv, RowsTold
    <3> QED BY <1>3, <3>1, PastStays, RowStays
  <2>2. CASE r \notin output_rows
    <3>1. PICK p \in DOMAIN box.lines :
             r = [player |-> p, game |-> g, features |-> Features(p, g, box.lines[p].team)]
        BY <1>6, <2>2
    <3> QED BY <1>3, <3>1, RowMade DEF TableInv
  <2> QED BY <2>1, <2>2
<1>8. RowsTold' BY <1>7 DEF RowsTold
<1> QED BY <1>4, <1>5, <1>8 DEF TableInv

\* The table is as told as long as nothing is built.
LEMMA TableStutters ==
    ASSUME TableInv, UNCHANGED vars
    PROVE  TableInv'
<1>1. /\ games' = games /\ todo' = todo /\ played' = played /\ output_rows' = output_rows
      /\ player_history' = player_history /\ season_player_history' = season_player_history
      /\ team_history' = team_history /\ defense_history' = defense_history
    BY DEF vars, histories
<1>2. Seasons' = Seasons /\ Teams' = Teams BY <1>1 DEF Seasons, Teams
<1>3. TableTyped' /\ TableInOrder' BY <1>1, <1>2 DEF TableInv, TableTyped, TableInOrder
<1>4. ASSUME NEW p PROVE OwnGames(p)' = OwnGames(p) /\ PlayerTale(p)' = PlayerTale(p)
    BY <1>1 DEF OwnGames, Appeared, PlayerTale
<1>5. ASSUME NEW k PROVE SeasonGames(k)' = SeasonGames(k) /\ SeasonTale(k)' = SeasonTale(k)
    BY <1>1 DEF SeasonGames, OwnGames, Appeared, SeasonTale
<1>6. ASSUME NEW k PROVE OffenceGames(k)' = OffenceGames(k) /\ OffenceTale(k)' = OffenceTale(k)
    BY <1>1 DEF OffenceGames, OffenceTale
<1>7. ASSUME NEW k PROVE DefenceGames(k)' = DefenceGames(k) /\ DefenceTale(k)' = DefenceTale(k)
    BY <1>1 DEF DefenceGames, DefenceTale
<1>8. HistoriesTold' BY <1>1, <1>2, <1>4, <1>5, <1>6, <1>7 DEF TableInv, HistoriesTold
<1>9. ASSUME NEW r \in output_rows PROVE RowPlaced(r)' /\ RowTold(r)'
  <2>1. RowPlaced(r) /\ RowTold(r) BY DEF TableInv, RowsTold
  <2>2. RowPlaced(r)' BY <1>1, <2>1 DEF RowPlaced
  <2>3. OwnPast(r)' = OwnPast(r) BY <1>1 DEF OwnPast, Past, Appeared
  <2>4. TeamsPast(r)' = TeamsPast(r) BY <1>1 DEF TeamsPast, TeamPast, TeamOf
  <2>5. OpponentsPast(r)' = OpponentsPast(r)
      BY <1>1 DEF OpponentsPast, TeamPast, OpponentOf, TeamOf
  <2>6. /\ PastReceptions(r)' = PastReceptions(r) /\ PastTargets(r)' = PastTargets(r)
        /\ PastSnaps(r)' = PastSnaps(r)
      BY <1>1, <2>3 DEF PastReceptions, PastTargets, PastSnaps
  <2>7. PastAttempts(r)' = PastAttempts(r) BY <1>1, <2>4 DEF PastAttempts, TeamOf
  <2>8. /\ AllowedAttempts(r)' = AllowedAttempts(r)
        /\ AllowedReceptions(r)' = AllowedReceptions(r)
      BY <1>1, <2>5 DEF AllowedAttempts, AllowedReceptions, OpponentOf, TeamOf
  <2>9. RowTold(r)' BY <2>1, <2>3, <2>4, <2>5, <2>6, <2>7, <2>8 DEF RowTold
  <2> QED BY <2>2, <2>9
<1>10. RowsTold' BY <1>1, <1>9 DEF RowsTold
<1> QED BY <1>3, <1>8, <1>10 DEF TableInv

\* No feature of any row sees the game it is for, or a later one, and none misses an
\* earlier one: for any schedule, any windows and any recorded numbers
\* (build_wr_feature_table).
THEOREM FeaturesAlwaysRestOnThePast == Spec => []FeaturesRestOnThePast
<1>1. Init => TableInv BY TableInit
<1>2. TableInv /\ [Next]_vars => TableInv' BY TableStep, TableStutters
<1>3. TableInv => FeaturesRestOnThePast BY RowsRestOnThePast DEF TableInv
<1> QED BY <1>1, <1>2, <1>3, PTL DEF Spec

-----------------------------------------------------------------------------
(* The second pass: what the career and the league histories hold           *)

\* The sum over two sets that share nothing.
LEMMA SumOfTwo ==
    ASSUME NEW A, IsFiniteSet(A), NEW B, IsFiniteSet(B), A \cap B = {},
           NEW f, NaturalOn(f, A \cup B)
    PROVE  TotalOf(f, A \cup B) = TotalOf(f, A) + TotalOf(f, B)
<1> DEFINE D == A \cup B
           h == [J \in SUBSET B |-> TotalOf(f, A \cup J) - TotalOf(f, A)]
<1>1. IsFiniteSet(D) BY FS_Union
<1>2. /\ \A S \in SUBSET D : TotalOf(f, S) \in Nat
      /\ \A S \in SUBSET D : \A x \in S : TotalOf(f, S) = f[x] + TotalOf(f, S \ {x})
    BY <1>1, SumAdds
<1>3. NaturalOn(f, A) /\ NaturalOn(f, B) BY DEF NaturalOn
<1>4. ASSUME NEW J \in SUBSET B PROVE h[J] \in Nat
  <2>1. A \cup J \in SUBSET D /\ A \in SUBSET (A \cup J) /\ A \in SUBSET D OBVIOUS
  <2>2. IsFiniteSet(A \cup J) BY <1>1, <2>1, FS_Subset
  <2>3. NaturalOn(f, A \cup J) BY DEF NaturalOn
  <2>4. TotalOf(f, A) <= TotalOf(f, A \cup J) BY <2>1, <2>2, <2>3, SumMonotonic
  <2>5. TotalOf(f, A) \in Nat /\ TotalOf(f, A \cup J) \in Nat BY <1>2, <2>1
  <2> QED BY <2>4, <2>5
<1>5. ASSUME NEW J \in SUBSET B, NEW x \in J PROVE h[J] = f[x] + h[J \ {x}]
  <2>1. A \cup J \in SUBSET D /\ x \in A \cup J /\ (A \cup J) \ {x} = A \cup (J \ {x})
      OBVIOUS
  <2>2. TotalOf(f, A \cup J) = f[x] + TotalOf(f, A \cup (J \ {x})) BY <1>2, <2>1
  <2>3. A \in SUBSET D /\ A \cup (J \ {x}) \in SUBSET D OBVIOUS
  <2>4. TotalOf(f, A) \in Nat /\ TotalOf(f, A \cup (J \ {x})) \in Nat BY <1>2, <2>3
  <2>5. f[x] \in Nat BY DEF NaturalOn
  <2>6. h[J] = TotalOf(f, A \cup J) - TotalOf(f, A) OBVIOUS
  <2>7. h[J \ {x}] = TotalOf(f, A \cup (J \ {x})) - TotalOf(f, A) OBVIOUS
  <2> HIDE DEF h, D
  <2> QED BY <2>2, <2>4, <2>5, <2>6, <2>7
<1>6. h[{}] = 0
  <2>1. A \cup {} = A OBVIOUS
  <2>2. A \in SUBSET D OBVIOUS
  <2>3. TotalOf(f, A) \in Nat BY <1>2, <2>2
  <2> QED BY <2>1, <2>3
<1>7. h[B] = TotalOf(f, D) - TotalOf(f, A) OBVIOUS
<1>8. h \in [SUBSET B -> Nat] BY <1>4
<1> HIDE DEF h
<1>9. Adds(h, f, B) BY <1>5, <1>6, <1>8 DEF Adds
<1>10. B \in SUBSET B OBVIOUS
<1>11. TotalOf(f, B) = h[B] BY <1>3, <1>9, <1>10, SumIsAdded
<1>12. D \in SUBSET D /\ A \in SUBSET D OBVIOUS
<1>13. TotalOf(f, D) \in Nat /\ TotalOf(f, A) \in Nat BY <1>2, <1>12
<1> HIDE DEF D
<1> QED BY <1>7, <1>11, <1>13 DEF D

\* One history after another.
LEMMA TotalJoined ==
    ASSUME NEW s \in Seq(Nat), NEW t \in Seq(Nat)
    PROVE  /\ s \o t \in Seq(Nat) /\ Len(s \o t) = Len(s) + Len(t)
           /\ Total(s \o t) = Total(s) + Total(t)
<1> DEFINE m == Len(s)
           n == Len(t)
           u == s \o t
           A == 1 .. m
           B == (m + 1) .. (m + n)
           I == 1 .. n
           b == [i \in I |-> m + i]
<1>1. /\ m \in Nat /\ n \in Nat /\ u \in Seq(Nat) /\ Len(u) = m + n
      /\ \A i \in A : u[i] = s[i]
      /\ \A i \in I : u[m + i] = t[i]
    OBVIOUS
<1> HIDE DEF m, n, u
<1>2. /\ Total(u) = TotalOf(u, 1 .. (m + n))
      /\ Total(s) = TotalOf(s, A) /\ IsFiniteSet(A) /\ NaturalOn(s, A)
      /\ Total(t) = TotalOf(t, I) /\ IsFiniteSet(I) /\ NaturalOn(t, I)
      /\ NaturalOn(u, 1 .. (m + n))
    BY <1>1, TotalOfSequence DEF m, n
<1>3. A \cup B = 1 .. (m + n) /\ A \cap B = {} BY <1>1
<1>4. IsFiniteSet(B)
  <2>1. m + 1 \in Int /\ m + n \in Int BY <1>1
  <2> QED BY <2>1, FS_Interval, Zenon
<1>5. TotalOf(u, A \cup B) = TotalOf(u, A) + TotalOf(u, B)
  <2>1. NaturalOn(u, A \cup B) BY <1>2, <1>3, Zenon
  <2>2. A \cap B = {} /\ IsFiniteSet(A) BY <1>2, <1>3
  <2> HIDE DEF A, B
  <2> QED BY <1>4, <2>1, <2>2, SumOfTwo
<1>6. TotalOf(u, A) = TotalOf(s, A)
  <2> HIDE DEF A
  <2> QED BY <1>1, <1>2, SumSame
<1>7. TotalOf(t, I) = TotalOf(u, B)
  <2>1. \A i \in I : b[i] = m + i /\ b[i] \in B BY <1>1
  <2>2. \A x \in B : x - m \in I /\ m + (x - m) = x BY <1>1
  <2>3. \A x \in B : \E i \in I : b[i] = x BY <2>1, <2>2
  <2>4. \A i, j \in I : b[i] = b[j] => i = j BY <1>1, <2>1
  <2>5. NaturalOn(u, B)
    <3>1. B \subseteq 1 .. (m + n) BY <1>1
    <3> QED BY <1>2, <3>1 DEF NaturalOn
  <2>6. \A i \in I : t[i] = u[b[i]] BY <1>1, <2>1
  <2> HIDE DEF I, B, b
  <2> QED BY <1>2, <2>1, <2>3, <2>4, <2>5, <2>6, SumRenamed
<1> HIDE DEF A, B, I
<1>8. Total(u) = Total(s) + Total(t) BY <1>2, <1>3, <1>5, <1>6, <1>7
<1> QED BY <1>1, <1>8 DEF u, m, n

\* A finite set in some order: each of its elements at one place.
LEMMA SomeOrder ==
    ASSUME NEW S, IsFiniteSet(S)
    PROVE  LET order == SetToSeq(S)
               I == 1 .. Cardinality(S)
           IN  /\ Cardinality(S) \in Nat /\ DOMAIN order = I /\ IsFiniteSet(I)
               /\ \A i \in I : order[i] \in S
               /\ \A i, j \in I : order[i] = order[j] => i = j
               /\ \A x \in S : \E i \in I : order[i] = x
<1> DEFINE N == Cardinality(S)
           I == 1 .. N
           order == SetToSeq(S)
<1>1. N \in Nat /\ ExistsBijection(I, S) BY FS_CardinalityType
<1>2. PICK f : f \in [I -> S] /\ IsInjective(f)
  <2>1. PICK f : f \in Bijection(I, S) BY <1>1, Zenon DEF ExistsBijection
  <2> QED BY <2>1, Zenon DEF Bijection, Injection
<1>3. order \in [I -> S] /\ IsInjective(order)
    BY <1>2, Zenon DEF SetToSeq
<1>4. IsFiniteSet(I) /\ Cardinality(I) = N
  <2>1. N \in Int /\ 1 \in Int BY <1>1
  <2> HIDE DEF N
  <2>2. IsFiniteSet(1 .. N) /\ Cardinality(1 .. N) = IF 1 > N THEN 0 ELSE N - 1 + 1
      BY <2>1, FS_Interval, Zenon
  <2> QED BY <1>1, <2>2
<1> HIDE DEF order, I
<1>5. order \in Injection(I, S) BY <1>3, Zenon DEF Injection
<1>6. order \in Surjection(I, S) BY <1>4, <1>5, FS_Injection
<1>7. DOMAIN order = I /\ (\A i \in I : order[i] \in S)
      /\ \A i, j \in I : order[i] = order[j] => i = j
    BY <1>3 DEF IsInjective
<1>8. \A x \in S : \E i \in I : order[i] = x BY <1>6 DEF Surjection
<1> QED BY <1>1, <1>4, <1>7, <1>8, Zenon DEF N, I, order

\* The numbers of a set's elements, listed, come to their sum.
LEMMA ListedTotal ==
    ASSUME NEW S, IsFiniteSet(S), NEW f, NaturalOn(f, S), NEW s \in Seq(Nat),
           Len(s) = Cardinality(S),
           \A i \in 1 .. Cardinality(S) : s[i] = f[SetToSeq(S)[i]]
    PROVE  Total(s) = SumFunctionOnSet(f, S) /\ Total(s) \in Nat
<1> DEFINE N == Cardinality(S)
           I == 1 .. N
           b == SetToSeq(S)
<1>1. IsFiniteSet(I) /\ \A i, j \in I : b[i] = b[j] => i = j BY SomeOrder
<1>2. (\A i \in I : b[i] \in S) /\ \A x \in S : \E i \in I : b[i] = x BY SomeOrder
<1>3. Total(s) = TotalOf(s, I) /\ Total(s) \in Nat BY TotalOfSequence
<1>4. \A i \in I : s[i] = f[b[i]] OBVIOUS
<1> HIDE DEF I, b
<1>5. TotalOf(s, I) = TotalOf(f, S) BY <1>1, <1>2, <1>4, SumRenamed
<1>6. SumFunctionOnSet(f, S) = TotalOf(f, S) BY SumOnSet
<1> QED BY <1>3, <1>5, <1>6

\* What one game adds to the league's history.
Listed(lines) ==
    LET order == SetToSeq(DOMAIN lines)
    IN  [i \in DOMAIN order |-> lines[order[i]].receptions]

CaughtBy(lines) == [p \in DOMAIN lines |-> lines[p].receptions]

\* It is as long as the game has receivers and comes to what they caught.
LEMMA GameAdds ==
    ASSUME NEW g, NEW box, IsBox(g, box), NEW lines, box.lines = lines
    PROVE  /\ Listed(lines) \in Seq(Nat)
           /\ Len(Listed(lines)) = Cardinality(DOMAIN lines) /\ Cardinality(DOMAIN lines) \in Nat
           /\ Total(Listed(lines)) = SumFunction(CaughtBy(lines))
           /\ Total(Listed(lines)) \in Nat
<1> DEFINE S == DOMAIN lines
           N == Cardinality(S)
           f == CaughtBy(lines)
           added == Listed(lines)
           order == SetToSeq(S)
<1>1. IsFiniteSet(S)
  <2>1. S \in SUBSET Players /\ IsFiniteSet(Players) BY GamesAssumption DEF IsBox
  <2> QED BY <2>1, FS_Subset
<1>2. DOMAIN f = S /\ \A p \in S : f[p] = lines[p].receptions /\ lines[p].receptions \in Nat
  <2>1. \A p \in S : lines[p] \in Line(g) BY DEF IsBox
  <2> QED BY <2>1 DEF Line, CaughtBy
<1>3. SumFunction(f) = SumFunctionOnSet(f, S) BY <1>2 DEF SumFunction
<1>4. N \in Nat /\ DOMAIN order = 1 .. N /\ \A i \in 1 .. N : order[i] \in S
    BY <1>1, SomeOrder
<1>5. added = [i \in 1 .. N |-> lines[order[i]].receptions] BY <1>4 DEF Listed
<1> HIDE DEF f, added, S, N, order
<1>6. NaturalOn(f, S) BY <1>2 DEF NaturalOn
<1>7. \A i \in 1 .. N : added[i] = f[order[i]] /\ added[i] \in Nat BY <1>2, <1>4, <1>5
<1>8. added \in Seq(Nat) /\ Len(added) = N
  <2>1. \A i \in 1 .. N : added[i] \in Nat BY <1>7
  <2>2. N \in Nat BY <1>4
  <2>3. added = [i \in 1 .. N |-> added[i]] BY <1>5
  <2> QED BY <2>1, <2>2, <2>3
<1>9. Len(added) = Cardinality(S) /\ \A i \in 1 .. Cardinality(S) : added[i] = f[SetToSeq(S)[i]]
    BY <1>7, <1>8 DEF N, order
<1>10. Total(added) = SumFunctionOnSet(f, S) /\ Total(added) \in Nat
    BY <1>1, <1>6, <1>8, <1>9, ListedTotal
<1> QED BY <1>3, <1>4, <1>8, <1>10 DEF N, S, f, added

\* The mean of all there is.
LEMMA MeanOfAll ==
    ASSUME NEW s \in Seq(Nat)
    PROVE  Mean(s, Len(s)) = IF Len(s) = 0 THEN None ELSE <<Total(s), Len(s)>>
<1> DEFINE N == Len(s)
           t == LastOf(s, N)
<1>1. N \in Nat /\ DOMAIN s = 1 .. N OBVIOUS
<1>2. From(N, N) = 1 BY <1>1 DEF From
<1>3. IsStretch(t, s, From(N, N), Nat) BY <1>1, LastOfIs
<1>4. t \in Seq(Nat) /\ Len(t) = N - 1 + 1 /\ \A i \in 1 .. (N - 1 + 1) : t[i] = s[1 + i - 1]
    BY <1>2, <1>3 DEF IsStretch
<1> HIDE DEF t
<1>5. t = s
  <2>1. Len(t) = N /\ N - 1 + 1 = N BY <1>1, <1>4
  <2>2. \A i \in 1 .. N : 1 + i - 1 = i BY <1>1
  <2>3. \A i \in 1 .. N : t[i] = s[i] BY <1>4, <2>1, <2>2
  <2> QED BY <1>4, <2>1, <2>3
<1>6. s = <<>> <=> N = 0 OBVIOUS
<1>7. None \notin ToSet(s)
  <2>1. \A i \in DOMAIN s : s[i] \in Nat OBVIOUS
  <2> QED BY <2>1, GamesAssumption DEF ToSet
<1> QED BY <1>5, <1>6, <1>7, Zenon DEF Mean, t

\* The games the second pass has predicted.
Predicted == {h \in games : \A i \in DOMAIN unpredicted : unpredicted[i] # h}

RowsIn(S) == [h \in S |-> Cardinality(DOMAIN played[h].lines)]
CaughtIn(S) == [h \in S |-> SumFunction(CaughtBy(played[h].lines))]

CareerGames(p) == {h \in Predicted : Appeared(p, h)}
CareerTale(p) == [h \in CareerGames(p) |-> played[h].lines[p].receptions]

\* The pass takes the games in order, after the whole table is built.
PassInOrder ==
    /\ unpredicted \in Seq(games)
    /\ \A i, j \in DOMAIN unpredicted : i < j => InOrder(unpredicted[i], unpredicted[j])
    /\ \A h \in Predicted, i \in DOMAIN unpredicted : InOrder(h, unpredicted[i])
    /\ Predicted # {} => todo = <<>>

PassTold ==
    /\ DOMAIN career_history = Players
    /\ \A p \in Players : Recounts(career_history[p], CareerGames(p), CareerTale(p))
    /\ league_history \in Seq(Nat)
    /\ Len(league_history) = SumFunctionOnSet(RowsIn(Predicted), Predicted)
    /\ Total(league_history) = SumFunctionOnSet(CaughtIn(Predicted), Predicted)

\* The league's mean is over the games predicted so far.
LEMMA LeagueIsOfPredicted ==
    ASSUME PassTold
    PROVE  Mean(league_history, Len(league_history)) = MeanOver(Predicted)
<1>1. Mean(league_history, Len(league_history)) =
         IF Len(league_history) = 0 THEN None ELSE <<Total(league_history), Len(league_history)>>
    BY MeanOfAll DEF PassTold
<1>2. MeanOver(Predicted) =
         IF SumFunctionOnSet(RowsIn(Predicted), Predicted) = 0 THEN None
         ELSE <<SumFunctionOnSet(CaughtIn(Predicted), Predicted),
                SumFunctionOnSet(RowsIn(Predicted), Predicted)>>
    BY Zenon DEF MeanOver, RowsIn, CaughtIn, CaughtBy
<1> QED BY <1>1, <1>2, Zenon DEF PassTold

\* Once the table is built, all games are played.
LEMMA AllPlayed ==
    ASSUME TableTyped, TableInOrder, todo = <<>>
    PROVE  DOMAIN played = games /\ \A h \in games : IsBox(h, played[h])
<1>1. DOMAIN played = games
  <2>1. DOMAIN todo = {} OBVIOUS
  <2> QED BY <2>1 DEF TableTyped, TableInOrder
<1>2. \A h \in games : played[h] \in BoxesOf[h] BY <1>1 DEF TableTyped
<1> QED BY <1>1, <1>2, ScheduleFacts DEF TableTyped

\* The game predicted next comes after all that are predicted.
NextPredicted(g) ==
    /\ g \in games /\ g \notin Predicted
    /\ \A h \in games : InOrder(h, g) <=> h \in Predicted
    /\ \A h \in games : h \in Predicted' <=> h \in Predicted \/ h = g

\* The pass goes on with the next game in order.
LEMMA PassStep ==
    ASSUME games \in Schedules, PassInOrder, todo = <<>>, unpredicted # <<>>,
           unpredicted' = Tail(unpredicted), games' = games, todo' = todo
    PROVE  PassInOrder' /\ NextPredicted(Head(unpredicted))
<1> DEFINE g == Head(unpredicted)
           N == Len(unpredicted)
<1>1. /\ unpredicted \in Seq(games) /\ N \in Nat /\ DOMAIN unpredicted = 1 .. N
      /\ 1 \in DOMAIN unpredicted /\ g = unpredicted[1] /\ g \in games
      /\ unpredicted' \in Seq(games) /\ DOMAIN unpredicted' = 1 .. (N - 1)
      /\ \A i \in 1 .. (N - 1) : unpredicted'[i] = unpredicted[i + 1]
    BY DEF PassInOrder
<1> HIDE DEF g, N
<1>2. \A i \in 1 .. (N - 1) : i + 1 \in 1 .. N /\ 1 < i + 1 BY <1>1
<1>3. \A i \in 1 .. N : i # 1 => i - 1 \in 1 .. (N - 1) /\ (i - 1) + 1 = i BY <1>1
<1>4. ASSUME NEW h \in games, NEW k \in games
      PROVE  /\ ~InOrder(h, h)
             /\ InOrder(h, k) => ~InOrder(k, h)
  <2>1. h.kickoff \in Int /\ h.id \in Int /\ k.kickoff \in Int /\ k.id \in Int
      BY ScheduleFacts
  <2> QED BY <2>1 DEF InOrder
<1>5. \A i \in 1 .. N : i # 1 => InOrder(g, unpredicted[i]) /\ unpredicted[i] \in games
  <2>1. \A i \in 1 .. N : i # 1 => 1 < i BY <1>1
  <2> QED BY <1>1, <2>1 DEF PassInOrder
<1>6. g \notin Predicted BY <1>1 DEF Predicted
<1>7. ASSUME NEW h \in games PROVE h \in Predicted' <=> h \in Predicted \/ h = g
  <2>1. h \in Predicted' <=> \A i \in 1 .. (N - 1) : unpredicted[i + 1] # h
      BY <1>1 DEF Predicted
  <2>2. h \in Predicted <=> \A i \in 1 .. N : unpredicted[i] # h BY <1>1 DEF Predicted
  <2>3. \A i \in 1 .. N : i # 1 => unpredicted[i] # g BY <1>1, <1>4, <1>5
  <2>4. h \in Predicted' <=> \A i \in 1 .. N : i # 1 => unpredicted[i] # h
      BY <1>2, <1>3, <2>1
  <2> QED BY <1>1, <2>2, <2>3, <2>4
<1>8. ASSUME NEW h \in games PROVE InOrder(h, g) <=> h \in Predicted
  <2>1. h \in Predicted => InOrder(h, g) BY <1>1 DEF PassInOrder
  <2>2. ASSUME h \notin Predicted PROVE ~InOrder(h, g)
    <3>1. PICK i \in 1 .. N : unpredicted[i] = h BY <1>1, <2>2 DEF Predicted
    <3>2. CASE i = 1 BY <1>1, <1>4, <3>1, <3>2
    <3>3. CASE i # 1 BY <1>1, <1>4, <1>5, <3>1, <3>3
    <3> QED BY <3>2, <3>3
  <2> QED BY <2>1, <2>2
<1>9. NextPredicted(g) BY <1>1, <1>6, <1>7, <1>8 DEF NextPredicted
<1>10. ASSUME NEW i \in DOMAIN unpredicted', NEW j \in DOMAIN unpredicted', i < j
       PROVE  InOrder(unpredicted'[i], unpredicted'[j])
  <2>1. i + 1 \in 1 .. N /\ j + 1 \in 1 .. N /\ i + 1 < j + 1 BY <1>1, <1>2, <1>10
  <2>2. InOrder(unpredicted[i + 1], unpredicted[j + 1]) BY <1>1, <2>1 DEF PassInOrder
  <2> QED BY <1>1, <2>2
<1>11. ASSUME NEW h \in Predicted', NEW i \in DOMAIN unpredicted'
       PROVE  InOrder(h, unpredicted'[i])
  <2>1. i + 1 \in 1 .. N /\ i + 1 # 1 /\ unpredicted'[i] = unpredicted[i + 1] BY <1>1, <1>2
  <2>2. h \in games BY DEF Predicted
  <2>3. CASE h \in Predicted BY <1>1, <2>1, <2>3 DEF PassInOrder
  <2>4. CASE h = g BY <1>5, <2>1, <2>4
  <2> QED BY <1>7, <2>2, <2>3, <2>4
<1>12. PassInOrder' BY <1>1, <1>10, <1>11 DEF PassInOrder
<1> QED BY <1>9, <1>12 DEF g

\* A sum over one element more.
LEMMA SumWithOne ==
    ASSUME NEW S, IsFiniteSet(S), NEW x, x \notin S, NEW T, T = S \cup {x},
           NEW f, NaturalOn(f, S), NEW e, NaturalOn(e, T), \A h \in S : e[h] = f[h]
    PROVE  SumFunctionOnSet(e, T) = SumFunctionOnSet(f, S) + e[x]
<1>1. NaturalOn(f, S) /\ NaturalOn(e, S \cup {x}) OBVIOUS
<1>2. IsFiniteSet(S \cup {x}) BY FS_AddElement
<1>3. SumFunctionOnSet(f, S) = TotalOf(f, S) BY <1>1, SumOnSet
<1>4. SumFunctionOnSet(e, T) = TotalOf(e, S \cup {x}) BY <1>1, <1>2, SumOnSet
<1>5. TotalOf(e, S) = TotalOf(f, S) BY <1>1, SumSame
<1>6. TotalOf(e, S \cup {x}) = e[x] + TotalOf(e, S) BY <1>1, SumOneMore
<1>7. S \in SUBSET S OBVIOUS
<1>8. TotalOf(f, S) \in Nat BY <1>1, <1>7, SumAdds
<1>9. e[x] \in Nat BY <1>1 DEF NaturalOn
<1> QED BY <1>3, <1>4, <1>5, <1>6, <1>8, <1>9

\* What is counted of the games of S and of one more.
LEMMA OneMoreCounted ==
    ASSUME NEW S, IsFiniteSet(S), S \subseteq games, NEW x \in games, x \notin S,
           DOMAIN played = games, \A h \in games : IsBox(h, played[h])
    PROVE  /\ SumFunctionOnSet(RowsIn(S \cup {x}), S \cup {x})
                = SumFunctionOnSet(RowsIn(S), S) + Cardinality(DOMAIN played[x].lines)
           /\ SumFunctionOnSet(CaughtIn(S \cup {x}), S \cup {x})
                = SumFunctionOnSet(CaughtIn(S), S) + SumFunction(CaughtBy(played[x].lines))
<1>1. ASSUME NEW h \in games
      PROVE  Cardinality(DOMAIN played[h].lines) \in Nat
             /\ SumFunction(CaughtBy(played[h].lines)) \in Nat
    BY GameAdds
<1>2. PICK T : T = S \cup {x} OBVIOUS
<1>3. \A h \in T : h \in games BY <1>2
<1>4. SumFunctionOnSet(RowsIn(T), T)
        = SumFunctionOnSet(RowsIn(S), S) + Cardinality(DOMAIN played[x].lines)
  <2>1. NaturalOn(RowsIn(S), S) BY <1>1 DEF NaturalOn, RowsIn
  <2>2. NaturalOn(RowsIn(T), T) BY <1>1, <1>3 DEF NaturalOn, RowsIn
  <2>3. \A h \in S : RowsIn(T)[h] = RowsIn(S)[h] BY <1>2 DEF RowsIn
  <2>4. RowsIn(T)[x] = Cardinality(DOMAIN played[x].lines) BY <1>2 DEF RowsIn
  <2> QED BY <1>2, <2>1, <2>2, <2>3, <2>4, SumWithOne
<1>5. SumFunctionOnSet(CaughtIn(T), T)
        = SumFunctionOnSet(CaughtIn(S), S) + SumFunction(CaughtBy(played[x].lines))
  <2>1. NaturalOn(CaughtIn(S), S) BY <1>1 DEF NaturalOn, CaughtIn
  <2>2. NaturalOn(CaughtIn(T), T) BY <1>1, <1>3 DEF NaturalOn, CaughtIn
  <2>3. \A h \in S : CaughtIn(T)[h] = CaughtIn(S)[h] BY <1>2 DEF CaughtIn
  <2>4. CaughtIn(T)[x] = SumFunction(CaughtBy(played[x].lines)) BY <1>2 DEF CaughtIn
  <2> QED BY <1>2, <2>1, <2>2, <2>3, <2>4, SumWithOne
<1> QED BY <1>2, <1>4, <1>5

\* What the league and a player's career are told of one more game.
LEMMA PassTells ==
    ASSUME TableTyped, TableInOrder, PassInOrder, PassTold, todo = <<>>, unpredicted # <<>>,
           PredictGame
    PROVE  PassTold'
<1> DEFINE g == Head(unpredicted)
           lines == played[g].lines
           P == Predicted
<1>1. /\ unpredicted' = Tail(unpredicted)
      /\ games' = games /\ todo' = todo /\ played' = played
    BY DEF PredictGame, vars
<1>2. games \in Schedules BY DEF TableTyped
<1>3. NextPredicted(g) BY <1>1, <1>2, PassStep
<1>4. DOMAIN played = games /\ \A h \in games : IsBox(h, played[h]) BY AllPlayed
<1>5. league_history' = league_history \o Listed(lines) BY DEF PredictGame, Listed
<1>6. career_history' = [p \in Players |->
              IF p \in DOMAIN lines THEN Append(career_history[p], lines[p].receptions)
              ELSE career_history[p]]
    BY DEF PredictGame
<1>7. P \subseteq games /\ Predicted' \subseteq games /\ IsFiniteSet(P)
  <2>1. P \in SUBSET games /\ Predicted' \subseteq games BY <1>1 DEF Predicted
  <2>2. IsFiniteSet(games) BY <1>2, ScheduleFacts
  <2> QED BY <2>1, <2>2, FS_Subset
<1> HIDE DEF g, P
<1>8. g \in games /\ g \notin P /\ Predicted' = P \cup {g}
  <2>1. \A h \in games : h \in Predicted' <=> h \in P \/ h = g BY <1>3 DEF NextPredicted, P
  <2>2. g \in games /\ g \notin P BY <1>3 DEF NextPredicted, P
  <2> QED BY <1>7, <2>1, <2>2
<1>9. ASSUME NEW h \in games
      PROVE  Cardinality(DOMAIN played[h].lines) \in Nat
             /\ SumFunction(CaughtBy(played[h].lines)) \in Nat
    BY <1>4, GameAdds
<1>10. /\ Listed(lines) \in Seq(Nat) /\ Len(Listed(lines)) = Cardinality(DOMAIN lines)
       /\ Total(Listed(lines)) = SumFunction(CaughtBy(lines))
    BY <1>4, <1>8, GameAdds
<1>11. /\ league_history' \in Seq(Nat)
       /\ Len(league_history') = Len(league_history) + Cardinality(DOMAIN lines)
       /\ Total(league_history') = Total(league_history) + SumFunction(CaughtBy(lines))
    BY <1>5, <1>10, TotalJoined DEF PassTold
<1>12. Len(league_history') = SumFunctionOnSet(RowsIn(Predicted)', Predicted')
  <2>1. RowsIn(Predicted)' = RowsIn(P \cup {g}) BY <1>1, <1>8 DEF RowsIn
  <2>2. Len(league_history) = SumFunctionOnSet(RowsIn(P), P) BY DEF PassTold, P
  <2>3. SumFunctionOnSet(RowsIn(P \cup {g}), P \cup {g})
            = SumFunctionOnSet(RowsIn(P), P) + Cardinality(DOMAIN lines)
      BY <1>4, <1>7, <1>8, OneMoreCounted
  <2> QED BY <1>8, <1>11, <2>1, <2>2, <2>3
<1>13. Total(league_history)' = SumFunctionOnSet(CaughtIn(Predicted)', Predicted')
  <2>1. CaughtIn(Predicted)' = CaughtIn(P \cup {g}) BY <1>1, <1>8 DEF CaughtIn
  <2>2. Total(league_history) = SumFunctionOnSet(CaughtIn(P), P) BY DEF PassTold, P
  <2>3. SumFunctionOnSet(CaughtIn(P \cup {g}), P \cup {g})
            = SumFunctionOnSet(CaughtIn(P), P) + SumFunction(CaughtBy(lines))
      BY <1>4, <1>7, <1>8, OneMoreCounted
  <2> QED BY <1>8, <1>11, <2>1, <2>2, <2>3
<1>14. ASSUME NEW p \in Players
       PROVE  Recounts(career_history'[p], CareerGames(p)', CareerTale(p)')
  <2> DEFINE S == CareerGames(p)
             T == {h \in Predicted' : p \in DOMAIN played[h].lines}
             F == CareerTale(p)
             E == [h \in T |-> played[h].lines[p].receptions]
  <2>1. CareerGames(p)' = T /\ CareerTale(p)' = E
      BY <1>1 DEF CareerGames, CareerTale, Appeared
  <2>2. S = {h \in P : p \in DOMAIN played[h].lines} BY DEF CareerGames, Appeared, P
  <2>3. T = IF p \in DOMAIN lines THEN S \cup {g} ELSE S BY <1>8, <2>2
  <2>4. \A h \in S : E[h] = F[h] BY <2>2, <2>3 DEF CareerTale
  <2>5. Recounts(career_history[p], S, F) BY DEF PassTold
  <2>6. CASE p \in DOMAIN lines
    <3>1. ASSUME NEW h \in S PROVE h.kickoff < g.kickoff
      <4>1. h \in games /\ h \in P /\ p \in DOMAIN played[h].lines BY <1>7, <2>2
      <4>2. h.kickoff \in Int /\ g.kickoff \in Int BY <1>2, <1>8, <4>1, ScheduleFacts
      <4>3. InOrder(h, g) BY <1>3, <4>1 DEF NextPredicted, P
      <4>4. played[h] \in BoxesOf[h] /\ played[g] \in BoxesOf[g]
          BY <1>4, <1>8, <4>1 DEF TableTyped
      <4>5. h # g BY <1>8, <4>1
      <4>6. h.kickoff # g.kickoff BY <1>2, <1>8, <2>6, <4>1, <4>4, <4>5, ScheduleFacts
      <4> QED BY <4>2, <4>3, <4>6 DEF InOrder
    <3>2. E[g] = lines[p].receptions BY <2>3, <2>6
    <3>3. T = S \cup {g} /\ g.kickoff \in Int BY <1>2, <1>8, <2>3, <2>6, ScheduleFacts
    <3>4. career_history'[p] = Append(career_history[p], lines[p].receptions) BY <1>6, <2>6
    <3> HIDE DEF S, T, F, E
    <3>5. Recounts(Append(career_history[p], E[g]), T, E)
        BY <2>4, <2>5, <3>1, <3>3, RecountsMore
    <3> QED BY <2>1, <3>2, <3>4, <3>5
  <2>7. CASE p \notin DOMAIN lines
    <3>1. T = S BY <2>3, <2>7
    <3>2. career_history'[p] = career_history[p] BY <1>6, <2>7
    <3> HIDE DEF S, T, F, E
    <3>3. Recounts(career_history[p], T, E) BY <2>4, <2>5, <3>1, RecountsSame
    <3> QED BY <2>1, <3>2, <3>3
  <2> QED BY <2>6, <2>7
<1>15. DOMAIN career_history' = Players BY <1>6
<1> QED BY <1>11, <1>12, <1>13, <1>14, <1>15 DEF PassTold

-----------------------------------------------------------------------------
(* The baselines: what is predicted                                         *)

\* A mean is missing only where there is nothing to take it of.
LEMMA MeanKnown ==
    ASSUME NEW S, IsFiniteSet(S), NEW V, NaturalOn(V, S)
    PROVE  MeanOf(S, V) = None <=> S = {}
<1>1. \A h \in S : V[h] # None BY GamesAssumption DEF NaturalOn
<1>2. SumFunctionOnSet(V, S) = TotalOf(V, S) BY SumOnSet
<1>3. TotalOf(V, S) \in Nat
  <2>1. S \in SUBSET S OBVIOUS
  <2> QED BY <2>1, SumAdds
<1>4. Cardinality(S) \in Nat BY FS_CardinalityType
<1>5. <<SumFunctionOnSet(V, S), Cardinality(S)>> # None BY <1>2, <1>3, <1>4, GamesAssumption
<1> QED BY <1>1, <1>5 DEF MeanOf

\* The largest of four is no less than the first.
LEMMA MaxOfFour ==
    ASSUME NEW a \in Int, NEW b \in Int, NEW c \in Int, NEW d \in Int
    PROVE  Max({a, b, c, d}) \in Int /\ Max({a, b, c, d}) >= a
<1> DEFINE S == {a, b, c, d}
           x == IF a >= b THEN a ELSE b
           y == IF c >= d THEN c ELSE d
           m == IF x >= y THEN x ELSE y
<1>1. m \in S OBVIOUS
<1>2. \A z \in S : m >= z OBVIOUS
<1> HIDE DEF m
<1>3. Max(S) \in S /\ \A z \in S : Max(S) >= z BY <1>1, <1>2 DEF Max
<1> QED BY <1>3

\* The rate of the Poisson baseline is missing only when all four it falls back on are.
LEMMA FirstOfFour ==
    ASSUME NEW a, NEW b, NEW c, NEW d
    PROVE  FirstKnown(<<a, b, c, d>>) = None <=> a = None /\ b = None /\ c = None /\ d = None
<1> DEFINE s == <<a, b, c, d>>
           known == {i \in DOMAIN s : s[i] # None}
<1>1. DOMAIN s = 1 .. 4 /\ s[1] = a /\ s[2] = b /\ s[3] = c /\ s[4] = d OBVIOUS
<1>2. known = {} <=> a = None /\ b = None /\ c = None /\ d = None
  <2>1. known = {} <=> \A i \in 1 .. 4 : s[i] = None BY <1>1
  <2>2. \A i \in 1 .. 4 : i = 1 \/ i = 2 \/ i = 3 \/ i = 4 OBVIOUS
  <2> HIDE DEF s, known
  <2> QED BY <1>1, <2>1, <2>2
<1>3. ASSUME known # {} PROVE s[Min(known)] # None
  <2>1. known \subseteq Nat BY <1>1
  <2>2. \A i \in known : s[i] # None OBVIOUS
  <2> HIDE DEF known, s
  <2>3. \E m \in known : \A i \in known : m <= i BY <1>3, <2>1, LeastNatural
  <2>4. Min(known) \in known BY <2>3 DEF Min
  <2> QED BY <2>2, <2>4
<1>4. FirstKnown(s) = IF known = {} THEN None ELSE s[Min(known)] BY DEF FirstKnown
<1> HIDE DEF s, known
<1>5. FirstKnown(s) = None <=> known = {} BY <1>3, <1>4
<1> QED BY <1>2, <1>5 DEF s

\* A player's career is of his games that are predicted.
LEMMA CareerIsOfPredicted ==
    ASSUME TableTyped, TableInOrder, todo = <<>>, PassTold, NEW p \in Players
    PROVE  /\ IsFiniteSet(CareerGames(p)) /\ NaturalOn(CareerTale(p), CareerGames(p))
           /\ Len(career_history[p]) = Cardinality(CareerGames(p))
           /\ Mean(career_history[p], Len(career_history[p]))
                = MeanOf(CareerGames(p), CareerTale(p))
<1> DEFINE S == CareerGames(p)
           F == CareerTale(p)
           s == career_history[p]
<1>1. PICK gs : InTurn(gs, S) /\ s = [i \in DOMAIN gs |-> F[gs[i]]] BY DEF PassTold, Recounts
<1>2. \A h \in S : F[h] \in Nat
  <2>1. \A h \in S : h \in OwnGames(p)
      BY AllPlayed DEF CareerGames, Predicted, OwnGames
  <2>2. \A h \in S : F[h] = played[h].lines[p].receptions BY DEF CareerTale
  <2> QED BY <2>1, <2>2, AppearedLine
<1> HIDE DEF S, F, s
<1>3. /\ Len(gs) \in Nat /\ DOMAIN gs = 1 .. Len(gs) /\ \A i \in DOMAIN gs : gs[i] \in S
      /\ IsFiniteSet(S) /\ Cardinality(S) = Len(gs)
    BY <1>1, InTurnOnce
<1>4. s \in Seq(Nat) /\ Len(s) = Len(gs)
  <2>1. \A i \in 1 .. Len(gs) : F[gs[i]] \in Nat BY <1>2, <1>3
  <2>2. s = [i \in 1 .. Len(gs) |-> F[gs[i]]] BY <1>1, <1>3
  <2> QED BY <1>3, <2>1, <2>2
<1>5. Tells(s, gs, F)
  <2>1. \A i \in DOMAIN s : s[i] = F[gs[i]] BY <1>1
  <2>2. s \in Seq(Nat \cup {None}) BY <1>4
  <2> QED BY <1>4, <2>1, <2>2 DEF Tells
<1>6. Mean(s, Len(s)) = MeanOf(S, F) BY <1>1, <1>5, WholeMean
<1>7. NaturalOn(F, S) BY <1>2 DEF NaturalOn
<1> QED BY <1>3, <1>4, <1>6, <1>7 DEF S, F, s

\* The league has a history as soon as anyone has.
LEMMA LeagueHasRows ==
    ASSUME TableTyped, TableInOrder, todo = <<>>, PassTold
    PROVE  /\ Len(league_history) \in Nat
           /\ Mean(league_history, Len(league_history)) = None <=> Len(league_history) = 0
           /\ \A h \in Predicted : DOMAIN played[h].lines # {} => Len(league_history) >= 1
<1> DEFINE P == Predicted
           f == RowsIn(P)
<1>1. Len(league_history) \in Nat /\ Total(league_history) \in Nat
  <2>1. league_history \in Seq(Nat) BY DEF PassTold
  <2> QED BY <2>1, TotalOfSequence
<1>2. Mean(league_history, Len(league_history)) =
         IF Len(league_history) = 0 THEN None ELSE <<Total(league_history), Len(league_history)>>
    BY MeanOfAll DEF PassTold
<1>3. Mean(league_history, Len(league_history)) = None <=> Len(league_history) = 0
  <2>1. <<Total(league_history), Len(league_history)>> # None BY <1>1, GamesAssumption
  <2> QED BY <1>2, <2>1
<1>4. DOMAIN played = games /\ (\A h \in games : IsBox(h, played[h])) /\ P \subseteq games
    BY AllPlayed DEF Predicted
<1>5. ASSUME NEW h \in P
      PROVE  /\ Cardinality(DOMAIN played[h].lines) \in Nat
             /\ DOMAIN played[h].lines # {} => Cardinality(DOMAIN played[h].lines) >= 1
  <2> DEFINE D == DOMAIN played[h].lines
  <2>1. D \in SUBSET Players BY <1>4 DEF IsBox
  <2>2. IsFiniteSet(D) BY <2>1, GamesAssumption, FS_Subset
  <2> HIDE DEF D
  <2>3. Cardinality(D) \in Nat /\ (Cardinality(D) = 0 <=> D = {})
      BY <2>2, FS_CardinalityType, FS_EmptySet
  <2> QED BY <2>3 DEF D
<1>6. \A h \in P : f[h] = Cardinality(DOMAIN played[h].lines) BY DEF RowsIn
<1>7. NaturalOn(f, P) BY <1>5, <1>6 DEF NaturalOn
<1>8. IsFiniteSet(P)
  <2>1. IsFiniteSet(games) BY ScheduleFacts DEF TableTyped
  <2>2. P \in SUBSET games BY <1>4
  <2> QED BY <2>1, <2>2, FS_Subset
<1>9. Len(league_history) = SumFunctionOnSet(f, P) BY DEF PassTold
<1> HIDE DEF f, P
<1>10. SumFunctionOnSet(f, P) = TotalOf(f, P) BY <1>7, <1>8, SumOnSet
<1>11. ASSUME NEW h \in P PROVE TotalOf(f, P) >= f[h]
  <2>1. P \in SUBSET P /\ P \ {h} \in SUBSET P OBVIOUS
  <2>2. TotalOf(f, P) = f[h] + TotalOf(f, P \ {h}) BY <1>7, <1>8, <2>1, SumAdds
  <2>3. TotalOf(f, P \ {h}) \in Nat BY <1>7, <1>8, <2>1, SumAdds
  <2>4. f[h] \in Nat BY <1>7 DEF NaturalOn
  <2> QED BY <2>2, <2>3, <2>4
<1>12. ASSUME NEW h \in P, DOMAIN played[h].lines # {} PROVE Len(league_history) >= 1
  <2>1. f[h] \in Nat /\ f[h] >= 1 BY <1>5, <1>6, <1>12
  <2>2. Len(league_history) >= f[h] BY <1>9, <1>10, <1>11
  <2> QED BY <1>1, <2>1, <2>2
<1> QED BY <1>1, <1>3, <1>12 DEF P


\* The games before a row's, a player's own among them and what he caught in them.
Before(g) == {h \in games : InOrder(h, g)}
OwnBefore(r) == {h \in Before(r.game) : Appeared(r.player, h)}
OwnReceptions(r) == [h \in OwnBefore(r) |-> played[h].lines[r.player].receptions]

RestsOnGamesBefore(r) ==
    /\ r.of[LeagueMean] = MeanOver(Before(r.game))
    /\ r.of[CareerAverage] = MeanOf(OwnBefore(r), OwnReceptions(r))
    /\ r.of[Poisson] = None <=> r.of[LeagueMean] = None

Comparable(r) == \A b \in BaselineNames : r.of[b] # None /\ r.count[b] >= 1
PlayedThisSeason(r) == \E h \in OwnPast(r) : h.season = r.game.season

PredictionTold(r) == RestsOnGamesBefore(r) /\ (Comparable(r) <=> PlayedThisSeason(r))

\* What is predicted of a row, from what is known of it.
LEMMA PredictedOf ==
    ASSUME NEW row
    PROVE  LET r == Predict(row)
               f == row.features
               career == career_history[row.player]
               career_mean == Mean(career, Len(career))
               league_mean == Mean(league_history, Len(league_history))
           IN  /\ r.player = row.player /\ r.game = row.game
               /\ r.of[LeagueMean] = league_mean
               /\ r.of[PreviousGame] =
                     IF f.receptions_lag1 = None THEN None ELSE <<f.receptions_lag1, 1>>
               /\ r.of[RollingShort] = f.receptions_roll[Short]
               /\ r.of[RollingLong] = f.receptions_roll[Long]
               /\ r.of[SeasonToDate] = f.receptions_season_mean
               /\ r.of[CareerAverage] = career_mean
               /\ r.of[Poisson] = FirstKnown(<<f.receptions_season_mean, f.receptions_roll[Long],
                                               career_mean, league_mean>>)
               /\ r.count[LeagueMean] = Len(league_history)
               /\ r.count[Poisson] =
                     Max({Len(career), Indicator(f.receptions_season_mean),
                          Indicator(f.receptions_roll[Long]), Len(league_history)})
               /\ \A b \in BaselineNames \ {LeagueMean, Poisson} : r.count[b] = Len(career)
BY DEF Predict, BaselineNames, LeagueMean, PreviousGame, RollingShort, RollingLong,
       SeasonToDate, CareerAverage, Poisson

\* The mean of a player's games before his row's, as its feature has it.
LEMMA FeaturesKnown ==
    ASSUME TableTyped, NEW row, RowPlaced(row), RowTold(row)
    PROVE  LET f == row.features
               season == {h \in OwnPast(row) : h.season = row.game.season}
           IN  /\ f.receptions_season_mean = None <=> season = {}
               /\ \A w \in Windows : f.receptions_roll[w] = None <=> OwnPast(row) = {}
               /\ f.receptions_lag1 = None <=> OwnPast(row) = {}
<1> DEFINE f == row.features
           past == OwnPast(row)
           season == {h \in past : h.season = row.game.season}
           V == PastReceptions(row)
<1>1. /\ f.receptions_season_mean = MeanOf(season, V)
      /\ \A w \in Windows : f.receptions_roll[w] = MeanOf(Latest(past, w), V)
  <2>1. PlayerRow(row.game, f, past, V, PastTargets(row), PastSnaps(row)) BY DEF RowTold
  <2> QED BY <2>1, Zenon DEF PlayerRow
<1>2. KnownRow(f, past) BY DEF RowTold
<1>3. past \subseteq DOMAIN played /\ \A h \in past : h \in OwnGames(row.player)
    BY DEF OwnPast, Past, OwnGames
<1>4. \A h \in past : V[h] \in Nat
  <2>1. \A h \in past : V[h] = played[h].lines[row.player].receptions BY DEF PastReceptions
  <2> QED BY <1>3, <2>1, AppearedLine
<1>5. IsFiniteSet(past)
  <2>1. IsFiniteSet(games) /\ past \in SUBSET games BY <1>3, ScheduleFacts DEF TableTyped
  <2> QED BY <2>1, FS_Subset
<1> HIDE DEF past, V, f
<1>6. ASSUME NEW S \in SUBSET past PROVE MeanOf(S, V) = None <=> S = {}
  <2>1. IsFiniteSet(S) BY <1>5, FS_Subset
  <2>2. NaturalOn(V, S) BY <1>4 DEF NaturalOn
  <2> QED BY <2>1, <2>2, MeanKnown
<1>7. season \in SUBSET past OBVIOUS
<1>8. \A w : Latest(past, w) \in SUBSET past BY DEF Latest
<1>9. \A w \in Windows : Latest(past, w) = {} <=> past = {} BY <1>2 DEF KnownRow
<1>10. f.receptions_lag1 = None <=> past = {} BY <1>2, GamesAssumption DEF KnownRow
<1>11. f.receptions_season_mean = None <=> season = {} BY <1>1, <1>6, <1>7
<1>12. \A w \in Windows : f.receptions_roll[w] = None <=> past = {} BY <1>1, <1>6, <1>8, <1>9
<1> QED BY <1>10, <1>11, <1>12 DEF past, f


\* A row predicted next: the games before it are exactly those predicted.
LEMMA PredictionMade ==
    ASSUME TableInv, PassTold, todo = <<>>, NEW row \in output_rows, NextPredicted(row.game)
    PROVE  PredictionTold(Predict(row))
<1> DEFINE r == Predict(row)
           p == row.player
           g == row.game
           f == row.features
           career == career_history[p]
           career_mean == Mean(career, Len(career))
           league_mean == Mean(league_history, Len(league_history))
           past == OwnPast(row)
           season == {h \in past : h.season = g.season}
           S == CareerGames(p)
<1>1. TableTyped /\ TableInOrder /\ RowPlaced(row) /\ RowTold(row) BY DEF TableInv, RowsTold
<1>2. DOMAIN played = games /\ \A h \in games : IsBox(h, played[h]) BY <1>1, AllPlayed
<1>3. p \in Players
  <2>1. g \in games /\ p \in DOMAIN played[g].lines BY <1>1, <1>2 DEF RowPlaced
  <2> QED BY <1>2, <2>1 DEF IsBox
<1>4. /\ r.player = p /\ r.game = g
      /\ r.of[LeagueMean] = league_mean
      /\ r.of[PreviousGame] = IF f.receptions_lag1 = None THEN None ELSE <<f.receptions_lag1, 1>>
      /\ r.of[RollingShort] = f.receptions_roll[Short]
      /\ r.of[RollingLong] = f.receptions_roll[Long]
      /\ r.of[SeasonToDate] = f.receptions_season_mean
      /\ r.of[CareerAverage] = career_mean
      /\ r.of[Poisson] = FirstKnown(<<f.receptions_season_mean, f.receptions_roll[Long],
                                      career_mean, league_mean>>)
      /\ r.count[LeagueMean] = Len(league_history)
      /\ r.count[Poisson] =
            Max({Len(career), Indicator(f.receptions_season_mean),
                 Indicator(f.receptions_roll[Long]), Len(league_history)})
      /\ \A b \in BaselineNames \ {LeagueMean, Poisson} : r.count[b] = Len(career)
    BY PredictedOf
<1>5. /\ f.receptions_season_mean = None <=> season = {}
      /\ \A w \in Windows : f.receptions_roll[w] = None <=> past = {}
      /\ f.receptions_lag1 = None <=> past = {}
    BY <1>1, FeaturesKnown
<1>6. /\ IsFiniteSet(S) /\ NaturalOn(CareerTale(p), S)
      /\ Len(career) = Cardinality(S) /\ career_mean = MeanOf(S, CareerTale(p))
    BY <1>1, <1>3, CareerIsOfPredicted
<1>7. /\ Len(league_history) \in Nat
      /\ league_mean = None <=> Len(league_history) = 0
      /\ \A h \in Predicted : DOMAIN played[h].lines # {} => Len(league_history) >= 1
    BY <1>1, LeagueHasRows
<1>8. league_mean = MeanOver(Predicted) BY LeagueIsOfPredicted
<1>9. Before(g) = Predicted
  <2>1. \A h \in games : InOrder(h, g) <=> h \in Predicted BY DEF NextPredicted
  <2>2. Predicted \subseteq games BY DEF Predicted
  <2> QED BY <2>1, <2>2 DEF Before
<1> HIDE DEF r, f, career, career_mean, league_mean, past, S, p, g
<1>10. OwnBefore(r) = S /\ OwnReceptions(r) = CareerTale(p)
  <2>1. OwnBefore(r) = S BY <1>4, <1>9 DEF OwnBefore, CareerGames, S
  <2> QED BY <1>4, <2>1 DEF OwnReceptions, CareerTale, S
<1>11. OwnPast(r) = past BY <1>4 DEF OwnPast, past, p, g
<1>12. \A h \in past : h \in S
  <2>1. ASSUME NEW h \in past PROVE h \in S
    <3>1. h \in DOMAIN played /\ h.kickoff < g.kickoff /\ Appeared(p, h)
        BY DEF past, OwnPast, Past, p, g
    <3>2. h \in Before(g) BY <1>2, <3>1 DEF Before, InOrder
    <3> QED BY <1>9, <3>1, <3>2 DEF S, CareerGames
  <2> QED BY <2>1
<1>13. S # {} => Len(league_history) >= 1
  <2>1. \A h \in S : h \in Predicted /\ DOMAIN played[h].lines # {}
      BY DEF S, CareerGames, Appeared
  <2> QED BY <1>7, <2>1
<1>14. career_mean = None <=> S = {} BY <1>6, MeanKnown
<1>15. Len(career) \in Nat /\ (Len(career) = 0 <=> S = {})
    BY <1>6, FS_CardinalityType, FS_EmptySet
<1>16. Long \in Windows /\ Short \in Windows BY BaselinesAssumption
<1>17. r.of[Poisson] = None <=> r.of[LeagueMean] = None
  <2>1. r.of[Poisson] = None <=>
            /\ f.receptions_season_mean = None /\ f.receptions_roll[Long] = None
            /\ career_mean = None /\ league_mean = None
      BY <1>4, FirstOfFour
  <2>2. league_mean = None => S = {} BY <1>7, <1>13
  <2>3. S = {} => past = {} /\ season = {} BY <1>12
  <2> QED BY <1>4, <1>5, <1>14, <1>16, <2>1, <2>2, <2>3
<1>18. RestsOnGamesBefore(r)
    BY <1>4, <1>6, <1>8, <1>9, <1>10, <1>17 DEF RestsOnGamesBefore
<1>19. Comparable(r) => season # {}
  <2>1. SeasonToDate \in BaselineNames BY DEF BaselineNames
  <2> QED BY <1>4, <1>5, <2>1 DEF Comparable
<1>20. ASSUME season # {} PROVE Comparable(r)
  <2>1. past # {} /\ S # {} BY <1>12, <1>20
  <2>2. Len(career) >= 1 /\ Len(league_history) >= 1 BY <1>13, <1>15, <2>1
  <2>3. r.of[PreviousGame] # None
    <3>1. <<f.receptions_lag1, 1>> # None
      <4>1. f.receptions_lag1 \in Nat BY <1>1, <2>1 DEF RowTold, KnownRow, past, f
      <4> QED BY <4>1, GamesAssumption
    <3> QED BY <1>4, <1>5, <2>1, <3>1
  <2>4. league_mean # None BY <1>7, <2>2
  <2>5. r.of[LeagueMean] # None /\ r.of[Poisson] # None BY <1>4, <1>17, <2>4
  <2>6. /\ r.of[RollingShort] # None /\ r.of[RollingLong] # None
        /\ r.of[SeasonToDate] # None /\ r.of[CareerAverage] # None
      BY <1>4, <1>5, <1>14, <1>16, <1>20, <2>1
  <2>7. \A b \in BaselineNames : r.of[b] # None BY <2>3, <2>5, <2>6 DEF BaselineNames
  <2>8. r.count[Poisson] >= 1
    <3> DEFINE i == Indicator(f.receptions_season_mean)
               j == Indicator(f.receptions_roll[Long])
               m == Max({Len(career), i, j, Len(league_history)})
    <3>1. i \in Int /\ j \in Int BY DEF Indicator
    <3>2. Len(career) \in Int /\ Len(league_history) \in Int BY <1>7, <1>15
    <3>3. m \in Int
      <4> DEFINE a == Len(career)
                 d == Len(league_history)
      <4>1. a \in Int /\ d \in Int BY <3>2
      <4> HIDE DEF a, d, i, j
      <4>2. Max({a, i, j, d}) \in Int BY <3>1, <4>1, MaxOfFour
      <4> QED BY <4>2 DEF a, d
    <3>4. m >= Len(career) BY <3>1, <3>2, MaxOfFour
    <3> QED BY <1>4, <2>2, <3>2, <3>3, <3>4
  <2>9. \A b \in BaselineNames : r.count[b] >= 1
    <3>1. r.count[LeagueMean] >= 1 BY <1>4, <2>2
    <3> QED BY <1>4, <2>2, <2>8, <3>1
  <2> QED BY <2>7, <2>9 DEF Comparable
<1>21. PlayedThisSeason(r) <=> season # {} BY <1>4, <1>11 DEF PlayedThisSeason
<1> QED BY <1>18, <1>19, <1>20, <1>21 DEF PredictionTold, r


-----------------------------------------------------------------------------
(* The baselines: every prediction                                          *)

PredictionsTold == \A r \in predictions : r.game \in Predicted /\ PredictionTold(r)

\* The table, the histories of the second pass and every prediction made from them.
PassInv == TableInv /\ PassInOrder /\ PassTold /\ PredictionsTold

\* Predictions as told are what the properties ask for.
LEMMA PredictionsAreAsTold ==
    ASSUME PredictionsTold
    PROVE  BaselinesRestOnThePast
<1>1. ASSUME NEW r \in predictions
      PROVE  RestsOnGamesBefore(r) /\ (Comparable(r) <=> PlayedThisSeason(r))
    BY DEF PredictionsTold, PredictionTold
<1>2. PredictionsRestOnGamesBefore
  <2>1. \A r \in predictions : RestsOnGamesBefore(r) BY <1>1
  <2> QED BY <2>1, Zenon DEF PredictionsRestOnGamesBefore, RestsOnGamesBefore, OwnReceptions,
             OwnBefore, Before
<1>3. \A r \in predictions : r \in Shared <=> Comparable(r) BY DEF Shared, Comparable
<1>4. SharedRowsHavePlayedThisSeason
    BY <1>1, <1>3 DEF SharedRowsHavePlayedThisSeason, PlayedThisSeason, OwnPast
<1> QED BY <1>2, <1>4 DEF BaselinesRestOnThePast

\* Nothing that is played later is told by a prediction.
LEMMA PredictionStays ==
    ASSUME games' = games, played' = played, NEW r
    PROVE  PredictionTold(r)' <=> PredictionTold(r)
<1>1. /\ Before(r.game)' = Before(r.game) /\ OwnBefore(r)' = OwnBefore(r)
      /\ OwnReceptions(r)' = OwnReceptions(r) /\ OwnPast(r)' = OwnPast(r)
    BY DEF Before, OwnBefore, OwnReceptions, OwnPast, Past, Appeared
<1>2. ASSUME NEW S PROVE MeanOver(S)' = MeanOver(S) BY DEF MeanOver
<1>3. MeanOver(Before(r.game))' = MeanOver(Before(r.game)) BY <1>1, <1>2 DEF MeanOver
<1>4. RestsOnGamesBefore(r)' <=> RestsOnGamesBefore(r) BY <1>1, <1>3 DEF RestsOnGamesBefore
<1>5. Comparable(r)' <=> Comparable(r) BY DEF Comparable
<1>6. PlayedThisSeason(r)' <=> PlayedThisSeason(r) BY <1>1 DEF PlayedThisSeason
<1> QED BY <1>4, <1>5, <1>6 DEF PredictionTold

\* Before the first game nothing is predicted and nothing is told.
LEMMA PassInit ==
    ASSUME InitBaselines
    PROVE  PassInv
<1>1. TableInv BY TableInit DEF InitBaselines
<1>2. games \in Schedules BY <1>1 DEF TableInv, TableTyped
<1>3. /\ unpredicted \in Seq(games)
      /\ \A i, j \in DOMAIN unpredicted : i < j => InOrder(unpredicted[i], unpredicted[j])
      /\ \A h \in games : \E i \in DOMAIN unpredicted : unpredicted[i] = h
    BY <1>2, ScheduleInOrder DEF InitBaselines
<1>4. Predicted = {} BY <1>3 DEF Predicted
<1>5. PassInOrder BY <1>3, <1>4 DEF PassInOrder
<1>6. /\ league_history = <<>> /\ predictions = {}
      /\ career_history = [p \in Players |-> <<>>]
    BY DEF InitBaselines
<1>7. \A p \in Players : Recounts(career_history[p], CareerGames(p), CareerTale(p))
  <2>1. \A p \in Players : CareerGames(p) = {} /\ career_history[p] = <<>>
      BY <1>4, <1>6 DEF CareerGames
  <2> QED BY <2>1, RecountsNothing
<1>8. ASSUME NEW f PROVE SumFunctionOnSet(f, Predicted) = 0
  <2>1. IsFiniteSet({}) /\ NaturalOn(f, {}) BY FS_EmptySet DEF NaturalOn
  <2> QED BY <1>4, <2>1, SumOnSet, SumAdds
<1>9. Len(league_history) = 0 /\ league_history \in Seq(Nat) BY <1>6
<1>10. Total(league_history) = 0
  <2> DEFINE s == league_history
  <2>1. s \in Seq(Nat) /\ Len(s) = 0 BY <1>9
  <2> HIDE DEF s
  <2>2. Total(s) = TotalOf(s, 1 .. Len(s)) BY <2>1, TotalOfSequence
  <2>3. 1 .. 0 = {} OBVIOUS
  <2>4. IsFiniteSet({}) /\ NaturalOn(s, {}) BY FS_EmptySet DEF NaturalOn
  <2>5. TotalOf(s, {}) = 0 BY <2>4, SumAdds
  <2> QED BY <2>1, <2>2, <2>3, <2>5 DEF s
<1>11. PassTold
  <2>1. DOMAIN career_history = Players BY <1>6
  <2> QED BY <1>7, <1>8, <1>9, <1>10, <2>1 DEF PassTold
<1> QED BY <1>1, <1>5, <1>6, <1>11 DEF PassInv, PredictionsTold

\* What the second pass has is the same as long as its games and their boxes are.
LEMMA PassStays ==
    ASSUME PassInOrder, PassTold, PredictionsTold, UNCHANGED baseline_vars, games' = games,
           todo' = todo \/ Predicted = {},
           played' = played \/ Predicted = {}
    PROVE  PassInOrder' /\ PassTold' /\ PredictionsTold'
<1>1. /\ unpredicted' = unpredicted /\ career_history' = career_history
      /\ league_history' = league_history /\ predictions' = predictions
    BY DEF baseline_vars
<1>2. Predicted' = Predicted BY <1>1 DEF Predicted
<1>3. PassInOrder' BY <1>1, <1>2 DEF PassInOrder
<1>4. ASSUME NEW h \in Predicted PROVE played' = played OBVIOUS
<1>5. ASSUME NEW p \in Players
      PROVE  CareerGames(p)' = CareerGames(p) /\ CareerTale(p)' = CareerTale(p)
  <2>1. CareerGames(p)' = CareerGames(p) BY <1>2, <1>4 DEF CareerGames, Appeared
  <2>2. \A h \in CareerGames(p) : played' = played BY <1>4 DEF CareerGames
  <2> QED BY <2>1, <2>2 DEF CareerTale
<1>6. /\ RowsIn(Predicted)' = RowsIn(Predicted) /\ CaughtIn(Predicted)' = CaughtIn(Predicted)
    BY <1>2, <1>4 DEF RowsIn, CaughtIn
<1>7. PassTold' BY <1>1, <1>2, <1>5, <1>6 DEF PassTold
<1>8. ASSUME NEW r \in predictions PROVE r.game \in Predicted' /\ PredictionTold(r)'
  <2>1. r.game \in Predicted /\ PredictionTold(r) BY DEF PredictionsTold
  <2>2. played' = played BY <1>4, <2>1
  <2> QED BY <1>2, <2>1, <2>2, PredictionStays
<1>9. PredictionsTold' BY <1>1, <1>8 DEF PredictionsTold
<1> QED BY <1>3, <1>7, <1>9

\* A game predicted leaves every prediction, old and new, as told.
LEMMA PassPredicts ==
    ASSUME PassInv, todo = <<>>, unpredicted # <<>>, PredictGame
    PROVE  PassInv'
<1> DEFINE g == Head(unpredicted)
<1>1. /\ unpredicted' = Tail(unpredicted) /\ UNCHANGED vars
      /\ predictions' = predictions \cup {Predict(r) : r \in {r \in output_rows : r.game = g}}
    BY DEF PredictGame
<1>2. games' = games /\ todo' = todo /\ played' = played BY <1>1 DEF vars
<1>3. TableInv /\ TableTyped /\ TableInOrder /\ games \in Schedules BY DEF PassInv, TableInv, TableTyped
<1>4. PassInOrder' /\ NextPredicted(g) BY <1>1, <1>2, <1>3, PassStep DEF PassInv
<1>5. PassTold' BY <1>3, PassTells DEF PassInv
<1>6. TableInv' BY <1>1, <1>3, TableStutters
<1> HIDE DEF g
<1>7. ASSUME NEW r \in predictions' PROVE r.game \in Predicted' /\ PredictionTold(r)'
  <2>1. g \in games /\ \A h \in games : h \in Predicted' <=> h \in Predicted \/ h = g
      BY <1>4 DEF NextPredicted
  <2>2. CASE r \in predictions
    <3>1. r.game \in Predicted /\ PredictionTold(r) BY <2>2 DEF PassInv, PredictionsTold
    <3>2. r.game \in games BY <3>1 DEF Predicted
    <3>3. r.game \in Predicted' BY <2>1, <3>1, <3>2
    <3> QED BY <1>2, <3>1, <3>3, PredictionStays
  <2>3. CASE r \notin predictions
    <3>1. PICK row \in output_rows : row.game = g /\ r = Predict(row) BY <1>1, <2>3
    <3>2. r.game = g BY <3>1, PredictedOf
    <3>3. PredictionTold(r)
      <4>1. NextPredicted(row.game) BY <1>4, <3>1
      <4> QED BY <1>3, <3>1, <4>1, PredictionMade DEF PassInv
    <3>4. r.game \in Predicted' BY <2>1, <3>2
    <3> QED BY <1>2, <3>3, <3>4, PredictionStays
  <2> QED BY <2>2, <2>3
<1>8. PredictionsTold' BY <1>7 DEF PredictionsTold
<1> QED BY <1>4, <1>5, <1>6, <1>8 DEF PassInv

\* No baseline of any row sees the game it is for or a later one, none leaves out an
\* earlier one, and the rows they are compared on are of receivers who have
\* played this season: for any schedule, any windows and any recorded numbers
\* (build_wr_baseline_predictions, _shared_rows).
THEOREM BaselinesAlwaysRestOnThePast == SpecBaselines => []BaselinesRestOnThePast
<1>1. InitBaselines => PassInv BY PassInit
<1>2. PassInv /\ [NextBaselines]_<<vars, baseline_vars>> => PassInv'
  <2> SUFFICES ASSUME PassInv, [NextBaselines]_<<vars, baseline_vars>> PROVE PassInv'
      OBVIOUS
  <2>1. CASE Next /\ UNCHANGED baseline_vars
    <3>1. games' = games /\ todo # <<>> BY <2>1 DEF Next
    <3>2. Predicted = {} BY <3>1 DEF PassInv, PassInOrder
    <3>3. TableInv' BY <2>1, TableStep DEF PassInv
    <3> QED BY <2>1, <3>1, <3>2, <3>3, PassStays DEF PassInv
  <2>2. CASE todo = <<>> /\ unpredicted # <<>> /\ PredictGame BY <2>2, PassPredicts
  <2>3. CASE UNCHANGED <<vars, baseline_vars>>
    <3>1. UNCHANGED vars /\ UNCHANGED baseline_vars BY <2>3
    <3>2. games' = games /\ todo' = todo /\ played' = played BY <3>1 DEF vars
    <3>3. TableInv' BY <3>1, TableStutters DEF PassInv
    <3> QED BY <3>1, <3>2, <3>3, PassStays DEF PassInv
  <2> QED BY <2>1, <2>2, <2>3 DEF NextBaselines
<1>3. PassInv => BaselinesRestOnThePast BY PredictionsAreAsTold DEF PassInv
<1> QED BY <1>1, <1>2, <1>3, PTL DEF SpecBaselines
=============================================================================
