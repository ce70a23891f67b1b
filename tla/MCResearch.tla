----------------------------- MODULE MCResearch -----------------------------
(***************************************************************************)
(* Small instances of the research pipeline.  A behaviour exercises one     *)
(* part: the feature table of two teams over two seasons, the baselines'    *)
(* predictions for four teams (the module extended), the evaluation over    *)
(* rolling windows, the feature dataset written and loaded at the same      *)
(* time, or the cache of source data.  The variables of the other parts     *)
(* stay as they are.                                                        *)
(***************************************************************************)
EXTENDS WRBaselines, ResearchPipeline, TLC

CONSTANTS p, q, r, TeamA, TeamB, TeamC, TeamD

Game(id, season, kickoff, home, away) ==
    [id |-> id, season |-> season, kickoff |-> kickoff, home |-> home, away |-> away]

LineOf(team, receptions, targets, snaps) ==
    [team |-> team, receptions |-> receptions, targets |-> targets, snaps |-> snaps]

-----------------------------------------------------------------------------
(* Baselines: one game of p's team and one of r's team at the same time,    *)
(* then the two against each other, and a game of next season.              *)

First == Game(1, 2023, 1, TeamA, TeamB)
Second == Game(2, 2023, 1, TeamC, TeamD)
Third == Game(3, 2023, 8, TeamC, TeamA)
Fourth == Game(4, 2024, 60, TeamA, TeamC)

LinesOf(x, team) == {<<>>} \cup [{x} -> {LineOf(team, n, 3, None) : n \in 0 .. 2}]

BoxesOfLines(S, g) ==
    {[lines |-> lines, attempts |-> [t \in {g.home, g.away} |-> None]] : lines \in S}

Both == {a @@ b : a \in LinesOf(p, TeamA), b \in LinesOf(r, TeamC)}

BaselineGames == {First, Second, Third, Fourth}

-----------------------------------------------------------------------------
(* The feature table: a receiver who may change sides and one who may miss  *)
(* games; snap shares and team totals may be unknown.                       *)

TableGames ==
    {Game(5, 2023, 1, TeamA, TeamB), Game(6, 2023, 8, TeamB, TeamA),
     Game(7, 2023, 22, TeamA, TeamB), Game(8, 2024, 60, TeamA, TeamB)}

LinesOfP == {LineOf(TeamA, 0, 0, 7), LineOf(TeamA, 1, 2, None), LineOf(TeamB, 2, 3, 6)}
LinesOfQ == {LineOf(TeamB, 1, 1, 5)}

TableBoxes ==
    {[lines |-> lines, attempts |-> attempts] :
        lines \in {<<>>} \cup [{p} -> LinesOfP] \cup [{q} -> LinesOfQ]
                  \cup {(p :> a) @@ (q :> b) : a \in LinesOfP, b \in LinesOfQ},
        attempts \in {(TeamA :> 9) @@ (TeamB :> 8), (TeamA :> None) @@ (TeamB :> 7)}}

MCSchedules == {BaselineGames, TableGames}

MCBoxesOf ==
    [g \in BaselineGames \cup TableGames |->
        CASE g \in TableGames -> TableBoxes
          [] g = First -> BoxesOfLines(LinesOf(p, TeamA), g)
          [] g = Second -> BoxesOfLines(LinesOf(r, TeamC), g)
          [] OTHER -> BoxesOfLines(Both, g)]

-----------------------------------------------------------------------------
(* Evaluation: up to three windows of one or two instants, in any order and *)
(* with any overlap, over tables with a row at every instant.               *)

End == 5

Periods == {<<s, e>> \in (0 .. End) \X (0 .. End) : s <= e /\ e <= s + 1}

IdsOf(n) == {[i \in 1 .. n |-> i], [i \in 1 .. n |-> n + 1 - i], [i \in 1 .. n |-> 1]}

WindowLists ==
    UNION {{[i \in 1 .. n |-> [id |-> ids[i], start |-> ps[i][1], end |-> ps[i][2]]] :
               ids \in IdsOf(n), ps \in [1 .. n -> Periods]} : n \in 0 .. 3}

Configurations == {[training_start |-> t, windows |-> w] : t \in 0 .. 2, w \in WindowLists}

NoWindow == [training_start |-> 0, windows |-> <<>>]

\* A table in which the rows at some instants are incomplete, at others not shared.
TableWith(incomplete, unshared) ==
    {[key |-> t, kickoff |-> t, complete |-> t \notin incomplete, shared |-> t \notin unshared] :
        t \in 0 .. End}

Evaluated == {TableWith({}, {}), TableWith({0, 3}, {}), TableWith({2}, {4}), TableWith({}, {3})}

-----------------------------------------------------------------------------
(* The dataset: three writes of two tables under two registries, two loads  *)
(* among them.                                                              *)

CONSTANTS f1, f2, g1, g2, l1      \* contents, registries and a loader

-----------------------------------------------------------------------------
(* The cache: two downloads of up to two datasets and two seasons, with two *)
(* releases of each season, an unusable delivery and one of another season; *)
(* at first it is empty, has one season of a dataset, or was damaged.       *)

CONSTANTS stats, schedules

Delivery(release, season, usable) ==
    [release |-> release, season |-> season, usable |-> usable]

MCDeliveries ==
    {Delivery(n, s, TRUE) : n \in 1 .. 2, s \in {2023, 2024}} \cup {Delivery(2, 2024, FALSE)}

Empty == [f \in {stats, schedules} \X {2023, 2024} |-> Absent]

MCDatasets == <<schedules, stats>>
MCSeasons == <<2023, 2024>>

MCCaches ==
    {Empty,
     [Empty EXCEPT ![schedules, 2023] = Delivery(1, 2023, TRUE)],
     [Empty EXCEPT ![stats, 2023] = Delivery(1, 2023, TRUE), ![stats, 2024] = Partial],
     [Empty EXCEPT ![stats, 2023] = Delivery(1, 2024, TRUE)]}

-----------------------------------------------------------------------------

VARIABLE part      \* what this behaviour exercises

\* The parts that start in several states start in one of them when idle.
InitParts ==
    /\ part \in {"baselines", "table", "evaluation", "dataset", "cache"}
    /\ games = IF part = "table" THEN TableGames ELSE BaselineGames
    /\ InitBaselines /\ InitRolling
    /\ part # "evaluation" => config = NoWindow /\ table = TableWith({}, {})
    /\ src_cache \in IF part = "cache" THEN MCCaches ELSE {Empty}
    /\ Dataset!Init /\ Source!Init

NextPart ==
    /\ \/ /\ part = "baselines" /\ NextBaselines
          /\ UNCHANGED <<rolling_vars, set_vars, src_vars>>
       \/ /\ part = "table" /\ Next
          /\ UNCHANGED <<baseline_vars, rolling_vars, set_vars, src_vars>>
       \/ /\ part = "evaluation" /\ NextRolling
          /\ UNCHANGED <<vars, baseline_vars, set_vars, src_vars>>
       \/ /\ part = "dataset" /\ Dataset!Next
          /\ UNCHANGED <<vars, baseline_vars, rolling_vars, src_vars>>
       \/ /\ part = "cache" /\ Source!Next
          /\ UNCHANGED <<vars, baseline_vars, rolling_vars, set_vars>>
    /\ UNCHANGED part

SpecParts ==
    InitParts
    /\ [][NextPart]_<<part, vars, baseline_vars, rolling_vars, set_vars, src_vars>>
=============================================================================
