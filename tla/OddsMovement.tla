---------------------------- MODULE OddsMovement ----------------------------
(***************************************************************************)
(* odds_movements for one market side of one player: what each sportsbook's *)
(* rows say of its movements, which book moved first, and the consensus of  *)
(* the latest prices.  Rows are stored in any order of their capture times. *)
(***************************************************************************)
EXTENDS Odds, FiniteSetsExt

CONSTANTS
    Books,
    Prices,       \* what books offer: [line, odds]
    Times,        \* capture times
    MaxRows

VARIABLE rows     \* prop_lines of the market, in the order of their ids

Init == rows = <<>>

\* persist_offers stores one more row: two rows differ in something.
Store(b, p, t) ==
    LET row == [book |-> b, line |-> p.line, odds |-> p.odds, captured |-> t]
    IN  /\ Len(rows) < MaxRows
        /\ row.line = None \/ ~\E n \in DOMAIN rows : rows[n] = row
        /\ rows' = Append(rows, row)

Next == \E b \in Books, p \in Prices, t \in Times : Store(b, p, t)

Spec == Init /\ [][Next]_rows

-----------------------------------------------------------------------------

Earlier(m, n) ==
    \/ rows[m].captured < rows[n].captured
    \/ rows[m].captured = rows[n].captured /\ m < n

\* Mutant: the order in which rows were stored.
Chronological_ById == SetToSortSeq(DOMAIN rows, LAMBDA m, n : m < n)

Chronological == SetToSortSeq(DOMAIN rows, Earlier)

Series(b) == SelectSeq(Chronological, LAMBDA n : rows[n].book = b)

Observed == {rows[n].book : n \in DOMAIN rows}

\* movement_direction
Direction(m, n) ==
    LET p == rows[m]
        q == rows[n]
        lines == p.line # None /\ q.line # None
    IN  IF lines /\ q.line > p.line THEN "UP"
        ELSE IF lines /\ q.line < p.line THEN "DOWN"
        ELSE IF q.odds > p.odds THEN "PRICE_UP"
        ELSE IF q.odds < p.odds THEN "PRICE_DOWN"
        ELSE "UNCHANGED"

\* The places of a series at which something moved.
Moves(s) == SelectSeq([i \in 1 .. Len(s) |-> i],
                      LAMBDA i : i > 1 /\ Direction(s[i - 1], s[i]) # "UNCHANGED")

Point(n, direction) ==
    [captured |-> rows[n].captured, line |-> rows[n].line, odds |-> rows[n].odds,
     direction |-> direction]

Movements(b) ==
    LET s == Series(b)
    IN  <<Point(s[1], "INITIAL")>>
        \o [i \in 1 .. Len(Moves(s)) |->
               Point(s[Moves(s)[i]], Direction(s[Moves(s)[i] - 1], s[Moves(s)[i]]))]

\* The book whose first movement is the earliest, the one observed first of several.
MovedFirst ==
    LET moved == {b \in Observed : Moves(Series(b)) # <<>>}
        FirstMove(b) == rows[Series(b)[Moves(Series(b))[1]]].captured
    IN  IF moved = {} THEN None
        ELSE CHOOSE b \in moved : \A c \in moved \ {b} :
                \/ FirstMove(b) < FirstMove(c)
                \/ FirstMove(b) = FirstMove(c) /\ Earlier(Series(b)[1], Series(c)[1])

LatestByBook == {Last(Series(b)) : b \in Observed}

\* The two values whose mean is the median: one value twice, of an odd number.
Median(s) == <<s[(Len(s) + 1) \div 2], s[Len(s) \div 2 + 1]>>

\* market_consensus
Consensus ==
    LET lined == {n \in LatestByBook : rows[n].line # None}
        Implied(n) == ImpliedProbability(rows[n].odds)
        byLine == SetToSortSeq(lined, LAMBDA m, n :
            rows[m].line < rows[n].line \/ (rows[m].line = rows[n].line /\ m < n))
        byImplied == SetToSortSeq(LatestByBook, LAMBDA m, n :
            Above(Implied(n), Implied(m)) \/ (~Above(Implied(m), Implied(n)) /\ m < n))
    IN  IF Cardinality(lined) < 2 THEN None
        ELSE [line |-> Median([i \in DOMAIN byLine |-> rows[byLine[i]].line]),
              implied |-> Median([i \in DOMAIN byImplied |-> Implied(byImplied[i])]),
              books |-> Cardinality(LatestByBook)]

-----------------------------------------------------------------------------
(* Properties                                                               *)

\* The row of a book that no row of it is later than.
LatestRow(b) ==
    CHOOSE n \in DOMAIN rows : rows[n].book = b
        /\ \A m \in DOMAIN rows : rows[m].book = b => ~Earlier(n, m)

\* A book's movements lead from its first observation to its latest one: nothing
\* that moved is left out, and every step goes the way it says.
MovementsReachTheLatest ==
    \A b \in Observed :
       LET points == Movements(b)
           last == points[Len(points)]
       IN  /\ last.line = rows[LatestRow(b)].line /\ last.odds = rows[LatestRow(b)].odds
           /\ \A i \in 2 .. Len(points) :
                 /\ points[i].captured >= points[i - 1].captured
                 /\ points[i].direction = "UP" <=> points[i].line > points[i - 1].line
                 /\ points[i].direction = "DOWN" <=> points[i].line < points[i - 1].line

\* The book that moved first changed its price or line at a time at which no
\* other had shown two different ones.
MovedFirstIsEarliest ==
    LET Changed(b, t) == \E m, n \in DOMAIN rows :
            /\ rows[m].book = b /\ rows[n].book = b
            /\ rows[m].captured <= t /\ rows[n].captured <= t
            /\ <<rows[m].line, rows[m].odds>> # <<rows[n].line, rows[n].odds>>
        when == {t \in Times : \E b \in Books : Changed(b, t)}
    IN  IF when = {} THEN MovedFirst = None
        ELSE MovedFirst # None /\ Changed(MovedFirst, Min(when))

\* README: median line and median implied probability over the latest observation
\* of each independent sportsbook, when two of them have a line: of the lines, and of
\* the probabilities of all books, at most half lie below and at most half above.
ConsensusIsMedian ==
    LET latest == {LatestRow(b) : b \in Observed}
        lined == {n \in latest : rows[n].line # None}
    IN  /\ (Consensus # None) = (Cardinality(lined) >= 2)
        /\ Consensus # None =>
             LET low == Consensus.line[1]
                 high == Consensus.line[2]
             IN  /\ 2 * Cardinality({n \in lined : rows[n].line < high}) <= Cardinality(lined)
                 /\ 2 * Cardinality({n \in lined : rows[n].line > low}) <= Cardinality(lined)
                 /\ \A n \in lined : ~(low < rows[n].line /\ rows[n].line < high)
                 /\ {low, high} \subseteq {rows[n].line : n \in lined}
                 /\ 2 * Cardinality({n \in latest :
                       Above(Consensus.implied[2], ImpliedProbability(rows[n].odds))})
                    <= Cardinality(latest)
                 /\ 2 * Cardinality({n \in latest :
                       Above(ImpliedProbability(rows[n].odds), Consensus.implied[1])})
                    <= Cardinality(latest)
=============================================================================
