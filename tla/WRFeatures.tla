----------------------------- MODULE WRFeatures -----------------------------
(***************************************************************************)
(* build_wr_feature_table: the games in the order of kickoff and game id,  *)
(* the rows of one game materialised before any history is extended by it. *)
(* One column stands for the columns computed alike: receptions for the    *)
(* player's own numbers, snap share for what may be missing, attempts for  *)
(* the team's numbers.  A mean is kept as its sum and its count.           *)
(***************************************************************************)
EXTENDS Integers, FiniteSetsExt, SequencesExt

CONSTANTS
    Schedules,      \* sets of games: [id, season, kickoff, home, away]
    BoxesOf,        \* what may be recorded of each game
    Players,
    Windows,        \* lengths of the rolling windows
    None

\* A receiver's line, of the team he played for: what is negative or missing of
\* these numbers is refused, and a row is joined to a game of its team.
Line(g) == [team : {g.home, g.away}, receptions : Nat, targets : Nat, snaps : Nat \cup {None}]

\* A box has the recorded receivers' lines by player, and the passing attempts of
\* both teams, which may be unknown.
IsBox(g, box) ==
    /\ DOMAIN box.lines \subseteq Players
    /\ \A p \in DOMAIN box.lines : box.lines[p] \in Line(g)
    /\ box.attempts \in [{g.home, g.away} -> Nat \cup {None}]

\* Neither a team nor a player is in two games at once.
OneGameAtATime(S) ==
    \A g, h \in S : g.kickoff = h.kickoff /\ g # h =>
        /\ {g.home, g.away} \cap {h.home, h.away} = {}
        /\ \A b \in BoxesOf[g], c \in BoxesOf[h] : DOMAIN b.lines \cap DOMAIN c.lines = {}

ASSUME GamesAssumption ==
    /\ None \notin Int /\ None \notin Int \X Int
    /\ IsFiniteSet(Players)
    /\ Windows \subseteq Nat \ {0}
    /\ \A S \in Schedules :
          /\ IsFiniteSet(S)
          /\ \A g \in S : g.id \in Int /\ g.kickoff \in Int /\ g.home # g.away
          /\ \A g, h \in S : g.id = h.id => g = h
          /\ \A g \in S : \A box \in BoxesOf[g] : IsBox(g, box)
          /\ OneGameAtATime(S)

VARIABLES
    games,             \* the schedule
    todo,              \* games still to be built, in their order
    played,            \* the boxes of the games built
    player_history,
    season_player_history,
    team_history,
    defense_history,
    output_rows        \* [player, game, features]

histories == <<player_history, season_player_history, team_history, defense_history>>
vars == <<games, todo, played, histories, output_rows>>

Seasons == {g.season : g \in games}
Teams == {g.home : g \in games} \cup {g.away : g \in games}

InOrder(g, h) == g.kickoff < h.kickoff \/ (g.kickoff = h.kickoff /\ g.id < h.id)

\* A schedule, sorted by kickoff and game id.
Orders(S) ==
    {s \in [1 .. Cardinality(S) -> S] : \A m, n \in DOMAIN s : m < n => InOrder(s[m], s[n])}

Opponent(g, team) == IF team = g.home THEN g.away ELSE g.home

-----------------------------------------------------------------------------

Total(s) == FoldSeq(+, 0, s)

LastOf(s, n) == SubSeq(s, Max({1, Len(s) - n + 1}), Len(s))

\* Mutant: values that are missing are passed over.
Mean_SkipsMissing(s, n) ==
    LET observed == SelectSeq(LastOf(s, n), LAMBDA v : v # None)
    IN  IF observed = <<>> THEN None ELSE <<Total(observed), Len(observed)>>

\* _mean: one missing value makes the mean missing.
Mean(s, n) ==
    LET observed == LastOf(s, n)
    IN  IF observed = <<>> \/ None \in ToSet(observed) THEN None
        ELSE <<Total(observed), Len(observed)>>

\* _ratio: of the sums, missing when nothing was targeted.
Ratio(top, bottom, n) ==
    IF Total(LastOf(bottom, n)) <= 0 THEN None
    ELSE <<Total(LastOf(top, n)), Total(LastOf(bottom, n))>>

Column(history, name) == [i \in DOMAIN history |-> history[i][name]]

Features(p, g, team) ==
    LET history == player_history[p]
        season_history == season_player_history[<<p, g.season>>]
        receptions == Column(history, "receptions")
        targets == Column(history, "targets")
        snaps == Column(history, "snaps")
        team_prior == team_history[<<g.season, team>>]
        opponent_prior == defense_history[<<g.season, Opponent(g, team)>>]
        latest(s) == IF s = <<>> THEN None ELSE Last(s)
    IN  [receptions_lag1 |-> latest(receptions),
         snap_share_lag1 |-> latest(snaps),
         snap_share_missing |-> latest(snaps) = None,
         games_played_before |-> Len(history),
         rest_days |-> IF history = <<>> THEN None ELSE g.kickoff - Last(history).kickoff,
         receptions_season_mean |->
            Mean(Column(season_history, "receptions"), Len(season_history)),
         receptions_roll |-> [w \in Windows |-> Mean(receptions, w)],
         catch_rate_roll |-> [w \in Windows |-> Ratio(receptions, targets, w)],
         snap_share_roll |-> [w \in Windows |-> Mean(snaps, w)],
         team_attempts_roll |-> [w \in Windows |-> Mean(team_prior, w)],
         opponent_attempts_allowed_roll |->
            [w \in Windows |-> Mean(Column(opponent_prior, "attempts"), w)],
         opponent_receptions_allowed_roll |->
            [w \in Windows |-> Mean(Column(opponent_prior, "receptions"), w)]]

-----------------------------------------------------------------------------

Init ==
    /\ games \in Schedules
    /\ todo \in Orders(games)
    /\ played = <<>>
    /\ player_history = [p \in Players |-> <<>>]
    /\ season_player_history = [k \in Players \X Seasons |-> <<>>]
    /\ team_history = [k \in Seasons \X Teams |-> <<>>]
    /\ defense_history = [k \in Seasons \X Teams |-> <<>>]
    /\ output_rows = {}

Update(g, line) ==
    [kickoff |-> g.kickoff, receptions |-> line.receptions,
     targets |-> line.targets, snaps |-> line.snaps]

\* The receptions of the game's receivers of one team.
TeamReceptions(lines, team) ==
    SumFunctionOnSet([p \in DOMAIN lines |-> lines[p].receptions],
                     {p \in DOMAIN lines : lines[p].team = team})

\* Only a team one of whose receivers has a row in this game is extended.
ExtendTeams(g, box) ==
    LET lines == box.lines
        teams == {lines[p].team : p \in DOMAIN lines}
        gained(t) == [attempts |-> box.attempts[t], receptions |-> TeamReceptions(lines, t)]
    IN  /\ team_history' = [k \in DOMAIN team_history |->
              IF k[1] = g.season /\ k[2] \in teams
              THEN Append(team_history[k], box.attempts[k[2]]) ELSE team_history[k]]
        /\ defense_history' = [k \in DOMAIN defense_history |->
              IF /\ k[1] = g.season
                 /\ k[2] \in {Opponent(g, t) : t \in teams}
              THEN Append(defense_history[k], gained(Opponent(g, k[2]))) ELSE defense_history[k]]

ExtendPlayers(g, box) ==
    LET lines == box.lines
    IN  /\ player_history' = [p \in Players |->
              IF p \in DOMAIN lines THEN Append(player_history[p], Update(g, lines[p]))
              ELSE player_history[p]]
        /\ season_player_history' = [k \in DOMAIN season_player_history |->
              IF k[1] \in DOMAIN lines /\ k[2] = g.season
              THEN Append(season_player_history[k], Update(g, lines[k[1]]))
              ELSE season_player_history[k]]

\* One game of the loop.
BuildGame(box) ==
    LET g == Head(todo)
    IN  /\ todo' = Tail(todo)
        /\ played' = [h \in DOMAIN played \cup {g} |-> IF h = g THEN box ELSE played[h]]
        /\ output_rows' = output_rows \cup
              {[player |-> p, game |-> g, features |-> Features(p, g, box.lines[p].team)] :
                  p \in DOMAIN box.lines}
        /\ ExtendPlayers(g, box)
        /\ ExtendTeams(g, box)

Next ==
    /\ todo # <<>>
    /\ \E box \in BoxesOf[Head(todo)] : BuildGame(box)
    /\ UNCHANGED games

Spec == Init /\ [][Next]_vars

-----------------------------------------------------------------------------
(* What the features say, read off the games of the past themselves.       *)

Appeared(p, g) == p \in DOMAIN played[g].lines

\* The games of a player that kicked off before g.
Past(p, g) == {h \in DOMAIN played : h.kickoff < g.kickoff /\ Appeared(p, h)}

Latest(S, n) == {h \in S : Cardinality({k \in S : k.kickoff > h.kickoff}) < n}

MeanOf(S, value) ==
    IF S = {} \/ \E h \in S : value[h] = None THEN None
    ELSE <<SumFunctionOnSet(value, S), Cardinality(S)>>

\* The games of a season before g in which a team had a receiver.
TeamPast(team, g) ==
    {h \in DOMAIN played :
        /\ h.season = g.season /\ h.kickoff < g.kickoff
        /\ \E p \in DOMAIN played[h].lines : played[h].lines[p].team = team}

\* A player's numbers rest on all his earlier appearances and on nothing else, for
\* whatever team and in whatever season they were: no outcome of the game itself, of
\* a team-mate's or of a later game can reach them (build_wr_feature_table,
\* features.py:381-514).
PlayerFeaturesRestOnThePast ==
    \A r \in output_rows :
        LET past == Past(r.player, r.game)
            this_season == {h \in past : h.season = r.game.season}
            receptions == [h \in past |-> played[h].lines[r.player].receptions]
            targets == [h \in past |-> played[h].lines[r.player].targets]
            snaps == [h \in past |-> played[h].lines[r.player].snaps]
            f == r.features
        IN  /\ f.games_played_before = Cardinality(past)
            /\ f.receptions_season_mean = MeanOf(this_season, receptions)
            /\ f.snap_share_missing <=> \A h \in Latest(past, 1) : snaps[h] = None
            /\ f.rest_days # None =>
                  \E h \in Latest(past, 1) : h.kickoff + f.rest_days = r.game.kickoff
            /\ \A w \in Windows :
                  LET recent == Latest(past, w)
                      thrown == SumFunctionOnSet(targets, recent)
                  IN  /\ f.receptions_roll[w] = MeanOf(recent, receptions)
                      /\ f.snap_share_roll[w] = MeanOf(recent, snaps)
                      /\ f.catch_rate_roll[w] =
                            IF thrown = 0 THEN None
                            ELSE <<SumFunctionOnSet(receptions, recent), thrown>>

\* The team that produced a row: the player's own in that game.
TeamOf(r) == played[r.game].lines[r.player].team

\* A row's team numbers rest on that team's earlier games of the same season: nothing is
\* carried over from the season before (ADR 0006), and a traded receiver brings
\* none of his old team's numbers along (team_history, features.py:400, 505).
TeamFormRestsOnTheSeason ==
    \A r \in output_rows :
        LET team == TeamOf(r)
            past == TeamPast(team, r.game)
            attempts == [h \in past |-> played[h].attempts[team]]
        IN  \A w \in Windows :
                r.features.team_attempts_roll[w] = MeanOf(Latest(past, w), attempts)

\* The opponent's numbers are what its opponents gained against it earlier in the
\* season, each game counted on the side that allowed it, never in the game
\* to be predicted (defense_history, features.py:401, 507-513).
OpponentFormIsWhatItAllowed ==
    \A r \in output_rows :
        LET opponent == Opponent(r.game, TeamOf(r))
            against(h) == Opponent(h, opponent)
            past == {h \in DOMAIN played :
                        /\ opponent \in {h.home, h.away}
                        /\ h \in TeamPast(against(h), r.game)}
            attempts == [h \in past |-> played[h].attempts[against(h)]]
            receptions == [h \in past |-> TeamReceptions(played[h].lines, against(h))]
        IN  \A w \in Windows :
                /\ r.features.opponent_attempts_allowed_roll[w] = MeanOf(Latest(past, w), attempts)
                /\ r.features.opponent_receptions_allowed_roll[w] =
                      MeanOf(Latest(past, w), receptions)

\* Every feature of a row is what the games before its own say, read off those
\* games: of the player, of his team in the season, of what the opponent allowed
\* (build_wr_feature_table and its histories).
FeaturesRestOnThePast ==
    /\ PlayerFeaturesRestOnThePast
    /\ TeamFormRestsOnTheSeason
    /\ OpponentFormIsWhatItAllowed
=============================================================================
