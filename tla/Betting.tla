------------------------------- MODULE Betting -------------------------------
(***************************************************************************)
(* What turns prices into bets: recommendations of one contract, and the    *)
(* paper bets placed on recommendations (the module extended).  The two     *)
(* share the rules of the bankroll, but not the sums they are applied to:   *)
(* each sums its own stakes of the week.                                    *)
(***************************************************************************)
EXTENDS PaperBets

CONSTANTS
    Offers, Chances, Confidences, Weights, MinWatchEv, MinBetEv, MinWatchConfidence,
    MinBetConfidence, Fresh, Stale, WeekLength, MaxLines, MaxRecommendations, MaxTime,
    Requesters,                            \* callers of create_projection
    RecUnit, RecSingle, RecWeekly          \* the limits of recommendations

VARIABLES lines, made, now, asked

Rec == INSTANCE Recommendations WITH
    Callers <- Requesters, DefaultUnit <- RecUnit, MaxSingle <- RecSingle,
    MaxWeekly <- RecWeekly, call <- asked

ASSUME RecommendingAssumption == Rec!RecommendationAssumption

-----------------------------------------------------------------------------

\* What is recommended is the best line, rated no lower than a worse one, within
\* the limit of a week (create_projection, select_best_line).
RecommendedIsBest ==
    /\ Rec!RatedAgainstBest /\ Rec!ThresholdFirst
    /\ Rec!RatingsAreMonotone
    /\ Rec!WeekWithinLimit
=============================================================================
