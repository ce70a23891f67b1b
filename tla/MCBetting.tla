----------------------------- MODULE MCBetting ------------------------------
(***************************************************************************)
(* Small instances of what is made of prices: paper bets, recommendations   *)
(* and odds movements.  A behaviour exercises one part: bets that meet low  *)
(* limits (the module extended), bets closed and settled by two callers,    *)
(* the performance of three bets, recommendations made for two callers at   *)
(* once, the ranking of offers, the movements of two books or the consensus *)
(* of three.  The variables of the other parts stay as they are.            *)
(***************************************************************************)
EXTENDS Betting, TLC

CONSTANTS brown, game, derby, c1, c2, c3, c4, b1, b2, b3, x1, x2

-----------------------------------------------------------------------------
(* Bets                                                                     *)

Prop(player, event, side, odds) ==
    [player |-> player, event |-> event, market |-> "receptions", side |-> side, line |-> 6,
     odds |-> odds]

\* Two bets on one player and event, and one with the player in another event.
MCRecommended ==
    [over |-> Prop(brown, game, "over", -200), under |-> Prop(brown, game, "under", 100),
     away |-> Prop(brown, derby, "over", 150)]

OneContract == [over |-> Prop(brown, game, "over", -200), again |-> Prop(brown, game, "over", 100)]

OneClosingLine == {[line |-> 6, odds |-> -150]}

TwoClosingLines == OneClosingLine \cup {[line |-> 7, odds |-> 0]}

VARIABLES rcd_bets, rcd_week, rcd_call, prf_bets, prf_week, prf_call

Records == INSTANCE PaperBets WITH
    Callers <- {c1, c2}, Placers <- {c1}, Recommended <- OneContract, Stakes <- {2},
    DefaultUnit <- 2, MaxSingle <- 3, MaxWeekly <- 9, MaxPlayer <- 4, MaxEvent <- 4,
    ClosingLines <- TwoClosingLines, Outcomes <- {"WIN", "LOSS"}, SettledTimes <- {1},
    MaxBets <- 1, MaxWeek <- 1,
    bets <- rcd_bets, week <- rcd_week, call <- rcd_call

Performance == INSTANCE PaperBets WITH
    Callers <- {c1}, Placers <- {c1}, Recommended <- OneContract, Stakes <- {},
    DefaultUnit <- 2, MaxSingle <- 3, MaxWeekly <- 9, MaxPlayer <- 4, MaxEvent <- 4,
    ClosingLines <- {}, Outcomes <- {"WIN", "LOSS", "PUSH"}, SettledTimes <- {1, 2},
    MaxBets <- 3, MaxWeek <- 1,
    bets <- prf_bets, week <- prf_week, call <- prf_call

-----------------------------------------------------------------------------
(* Recommendations: offers of one contract on two lines at two prices,      *)
(* fresh ones and ones captured before, and of one that has no line; the     *)
(* prices and confidences are on both sides of every threshold.             *)

Offer(side, line, odds, delay) == [side |-> side, line |-> line, odds |-> odds, delay |-> delay]

OverOffers == {Offer("over", 5, -110, 0), Offer("over", 6, 120, 0), Offer("over", 5, 100, 1)}

BinaryOffers == {Offer("yes", None, 100, 0), Offer("yes", None, 120, 1)}

MCOffers == OverOffers \cup BinaryOffers

RankedOffers ==
    {Offer("over", l, o, d) : l \in {4, 5, 6}, o \in {-110, 100, 120}, d \in {0, 1}}
    \cup BinaryOffers

\* Weights of two of the components decide.
MCWeights == [data_quality |-> 3, sample_size |-> 1]

Components(q, s) == [data_quality |-> q, sample_size |-> s]

MCConfidences == {Components(40, 40), Components(40, 100), Components(80, 40)}

VARIABLES rank_lines, rank_made, rank_now, rank_call

Ranked == INSTANCE Recommendations WITH
    Callers <- {c1}, Offers <- RankedOffers, MaxLines <- 3, MaxRecommendations <- 0, MaxTime <- 1,
    DefaultUnit <- RecUnit, MaxSingle <- RecSingle, MaxWeekly <- RecWeekly,
    lines <- rank_lines, made <- rank_made, now <- rank_now, call <- rank_call

ASSUME RankedAssumption == Ranked!RecommendationAssumption

-----------------------------------------------------------------------------
(* Movements: rows of two books on two lines at two prices, or of three     *)
(* books on three lines or without one, in any order of times.              *)

Price(line, odds) == [line |-> line, odds |-> odds]

TwoLines == {Price(5, -110), Price(5, 100), Price(6, -110)}

LinedOrNot == {Price(5, -110), Price(6, 100), Price(7, -110), Price(None, 150)}

VARIABLES mov_rows, con_rows

Moving == INSTANCE OddsMovement WITH
    Books <- {x1, x2}, Prices <- TwoLines, Times <- {1, 2, 3}, MaxRows <- 4, rows <- mov_rows

Agreeing == INSTANCE OddsMovement WITH
    Books <- {b1, b2, b3}, Prices <- LinedOrNot, Times <- {1, 2}, MaxRows <- 4,
    rows <- con_rows

-----------------------------------------------------------------------------

VARIABLE part      \* what this behaviour exercises

rcd_vars == <<rcd_bets, rcd_week, rcd_call>>
prf_vars == <<prf_bets, prf_week, prf_call>>
bet_vars == <<vars, rcd_vars, prf_vars>>
made_vars == <<lines, made, now, asked>>
rank_vars == <<rank_lines, rank_made, rank_now, rank_call>>
rec_vars == <<made_vars, rank_vars>>
row_vars == <<mov_rows, con_rows>>

InitParts ==
    /\ part \in {"limits", "records", "performance", "recommending", "ranking", "moving",
                 "agreeing"}
    /\ Init /\ Records!Init /\ Performance!Init
    /\ Rec!Init /\ Ranked!Init
    /\ Moving!Init /\ Agreeing!Init

NextBets ==
    \/ part = "limits" /\ Next /\ UNCHANGED <<rcd_vars, prf_vars>>
    \/ part = "records" /\ Records!Next /\ UNCHANGED <<vars, prf_vars>>
    \/ part = "performance" /\ Performance!Next /\ UNCHANGED <<vars, rcd_vars>>

NextRecommendation ==
    \/ part = "recommending" /\ Rec!Next /\ UNCHANGED rank_vars
    \/ part = "ranking" /\ Ranked!Next /\ UNCHANGED made_vars

NextRow ==
    \/ part = "moving" /\ Moving!Next /\ UNCHANGED con_rows
    \/ part = "agreeing" /\ Agreeing!Next /\ UNCHANGED mov_rows

NextPart ==
    /\ \/ NextBets /\ UNCHANGED <<rec_vars, row_vars>>
       \/ NextRecommendation /\ UNCHANGED <<bet_vars, row_vars>>
       \/ NextRow /\ UNCHANGED <<bet_vars, rec_vars>>
    /\ UNCHANGED part

SpecParts == InitParts /\ [][NextPart]_<<part, bet_vars, rec_vars, row_vars>>

-----------------------------------------------------------------------------

\* The first closing line and settlement of a bet stay (close_paper_bet,
\* settle_paper_bet).
SettledBetsStand == Records!FirstRecordStays

\* What is sorted is as its order says, whatever the order it was stored in:
\* movements lead to the latest prices, the first book to move is the earliest, the
\* consensus is the median of the latest prices (odds_movements), the ranking agrees
\* with the best offer (rank_offers), and the drawdown follows the times of settlement
\* (performance).
OrdersAreTrue ==
    /\ Moving!MovementsReachTheLatest /\ Moving!MovedFirstIsEarliest
    /\ Agreeing!ConsensusIsMedian
    /\ Ranked!RankingAgrees
    /\ Performance!DrawdownIsLargestFall

\* Books, and callers that ask for recommendations, are interchangeable.
PartSymmetry == Permutations({b1, b2, b3}) \cup Permutations({x1, x2}) \cup Permutations({c3, c4})
=============================================================================
