---------------------------- MODULE WRBaselines ----------------------------
(***************************************************************************)
(* build_wr_baseline_predictions over the finished feature table, and the  *)
(* rows _shared_rows keeps: those every baseline has a prediction for.     *)
(***************************************************************************)
EXTENDS WRFeatures

CONSTANTS Short, Long      \* the windows of the two rolling baselines

ASSUME BaselinesAssumption == Short \in Windows /\ Long \in Windows

VARIABLES
    unpredicted,           \* games the second pass has still to predict
    career_history,        \* receptions by player
    league_history,
    predictions            \* [player, game, of, count]: prediction and history by baseline

baseline_vars == <<unpredicted, career_history, league_history, predictions>>

LeagueMean == "league_mean"
PreviousGame == "previous_game"
RollingShort == "rolling_3"
RollingLong == "rolling_5"
SeasonToDate == "season_to_date"
CareerAverage == "career_average"
Poisson == "poisson"

BaselineNames ==
    {LeagueMean, PreviousGame, RollingShort, RollingLong, SeasonToDate, CareerAverage, Poisson}

InitBaselines ==
    /\ Init
    /\ unpredicted \in Orders(games)
    /\ career_history = [p \in Players |-> <<>>]
    /\ league_history = <<>>
    /\ predictions = {}

-----------------------------------------------------------------------------

FirstKnown(s) ==
    LET known == {i \in DOMAIN s : s[i] # None}
    IN  IF known = {} THEN None ELSE s[Min(known)]

Indicator(v) == IF v = None THEN 0 ELSE 1

\* One row predicted from the histories as they stand.
Predict(row) ==
    LET career == career_history[row.player]
        f == row.features
        career_mean == Mean(career, Len(career))
        league_mean == Mean(league_history, Len(league_history))
        rate == FirstKnown(<<f.receptions_season_mean, f.receptions_roll[Long],
                             career_mean, league_mean>>)
        of == [b \in BaselineNames |->
                  CASE b = LeagueMean -> league_mean
                    [] b = PreviousGame ->
                          IF f.receptions_lag1 = None THEN None ELSE <<f.receptions_lag1, 1>>
                    [] b = RollingShort -> f.receptions_roll[Short]
                    [] b = RollingLong -> f.receptions_roll[Long]
                    [] b = SeasonToDate -> f.receptions_season_mean
                    [] b = CareerAverage -> career_mean
                    [] b = Poisson -> rate]
    IN  [player |-> row.player, game |-> row.game, of |-> of,
         count |-> [b \in BaselineNames |->
            CASE b = LeagueMean -> Len(league_history)
              [] b = Poisson ->
                    Max({Len(career), Indicator(f.receptions_season_mean),
                         Indicator(f.receptions_roll[Long]), Len(league_history)})
              [] OTHER -> Len(career)]]

\* Mutant: the league learns of the game before it is predicted.
PredictGame_LeagueFirst ==
    LET g == Head(unpredicted)
        lines == played[g].lines
        order == SetToSeq(DOMAIN lines)
        league == league_history \o [i \in DOMAIN order |-> lines[order[i]].receptions]
        mean == Mean(league, Len(league))
    IN  /\ unpredicted' = Tail(unpredicted)
        /\ predictions' = predictions \cup
              {[Predict(r) EXCEPT !.of[LeagueMean] = mean, !.count[LeagueMean] = Len(league)] :
                  r \in {r \in output_rows : r.game = g}}
        /\ career_history' = [p \in Players |->
              IF p \in DOMAIN lines THEN Append(career_history[p], lines[p].receptions)
              ELSE career_history[p]]
        /\ league_history' = league
        /\ UNCHANGED vars

\* One game of the second pass: its rows first, its outcomes after all of them.
PredictGame ==
    LET g == Head(unpredicted)
        lines == played[g].lines
        order == SetToSeq(DOMAIN lines)
    IN  /\ unpredicted' = Tail(unpredicted)
        /\ predictions' = predictions \cup {Predict(r) : r \in {r \in output_rows : r.game = g}}
        /\ career_history' = [p \in Players |->
              IF p \in DOMAIN lines THEN Append(career_history[p], lines[p].receptions)
              ELSE career_history[p]]
        /\ league_history' = league_history \o [i \in DOMAIN order |-> lines[order[i]].receptions]
        /\ UNCHANGED vars

NextBaselines ==
    \/ Next /\ UNCHANGED baseline_vars
    \/ todo = <<>> /\ unpredicted # <<>> /\ PredictGame

SpecBaselines == InitBaselines /\ [][NextBaselines]_<<vars, baseline_vars>>

\* _shared_rows: the rows for which every baseline is eligible.
Shared == {r \in predictions : \A b \in BaselineNames : r.of[b] # None /\ r.count[b] >= 1}

-----------------------------------------------------------------------------

\* The mean receptions of all rows of a set of games.
MeanOver(S) ==
    LET rows == [h \in S |-> Cardinality(DOMAIN played[h].lines)]
        count == SumFunctionOnSet(rows, S)
        caught(h) == SumFunction([p \in DOMAIN played[h].lines |-> played[h].lines[p].receptions])
    IN  IF count = 0 THEN None
        ELSE <<SumFunctionOnSet([h \in S |-> caught(h)], S), count>>

\* No prediction observes the game it is made for or a later one, and none of the
\* games before it is left out: league and career are the means of exactly the
\* games earlier in the canonical order (build_wr_baseline_predictions,
\* baselines/wr_receptions.py:208-213, 225-283).
PredictionsRestOnGamesBefore ==
    \A r \in predictions :
        LET before == {h \in games : InOrder(h, r.game)}
            own == {h \in before : Appeared(r.player, h)}
            receptions == [h \in own |-> played[h].lines[r.player].receptions]
        IN  /\ r.of[LeagueMean] = MeanOver(before)
            /\ r.of[CareerAverage] = MeanOf(own, receptions)
            /\ r.of[Poisson] = None <=> r.of[LeagueMean] = None

\* The history the features were built from and the one the baselines keep in their own
\* pass agree, so the rows all baselines are compared on are those of the
\* receivers who have already played this season (_shared_rows, scorecard.py:196-222).
SharedRowsHavePlayedThisSeason ==
    \A r \in predictions :
        r \in Shared <=>
            \E h \in Past(r.player, r.game) : h.season = r.game.season

\* Every baseline predicts from games before the row's own, and a row all of them
\* can predict is of a player with a game this season
\* (build_wr_baseline_predictions, _shared_rows).
BaselinesRestOnThePast == PredictionsRestOnGamesBefore /\ SharedRowsHavePlayedThisSeason

\* The league mean is described as the mean "across all completed prior WR player-games"
\* (baselines/wr_receptions.py:49): no game that kicked off at the same time as the
\* predicted one belongs to it (baselines/wr_receptions.py:225-228, 281-283).
\* Not so of this code: README, Divergences.
LeagueMeanOfCompletedGames ==
    \A r \in predictions :
        r.of[LeagueMean] = MeanOver({h \in games : h.kickoff < r.game.kickoff})
=============================================================================
