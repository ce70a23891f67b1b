-------------------------------- MODULE Odds --------------------------------
(***************************************************************************)
(* American odds as fractions, and which of two offers of one contract is   *)
(* the better one, as select_best_line and rank_offers each decide it.      *)
(***************************************************************************)
EXTENDS Integers, Sequences, SequencesExt

CONSTANT None

\* american_to_decimal
DecimalOdds(odds) == IF odds > 0 THEN <<odds + 100, 100>> ELSE <<100 - odds, -odds>>

\* implied_probability
ImpliedProbability(odds) == IF odds > 0 THEN <<100, odds + 100>> ELSE <<-odds, 100 - odds>>

Above(x, y) == x[1] * y[2] > y[1] * x[2]

\* The threshold's part of the score, nothing for an offer that has none.
LineScore(o) ==
    IF o.line = None \/ o.side \in {"yes", "no"} THEN 0
    ELSE IF o.side = "over" THEN -o.line ELSE o.line

Better(x, y) ==
    \/ LineScore(x) > LineScore(y)
    \/ LineScore(x) = LineScore(y) /\ Above(DecimalOdds(x.odds), DecimalOdds(y.odds))

\* select_best_line: the first of the best, as max returns it.
BestLine(offers) ==
    CHOOSE n \in DOMAIN offers :
        /\ \A m \in DOMAIN offers : ~Better(offers[m], offers[n])
        /\ \A m \in 1 .. n - 1 : Better(offers[n], offers[m])

\* rank_offers: best first, in the given order where neither is better.
RankOffers(offers) ==
    SetToSortSeq(DOMAIN offers, LAMBDA m, n :
        Better(offers[m], offers[n]) \/ (~Better(offers[n], offers[m]) /\ m < n))
=============================================================================
