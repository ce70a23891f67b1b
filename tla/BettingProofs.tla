----------------------------- MODULE BettingProofs -----------------------------
(***************************************************************************)
(* Theorems about paper bets and recommendations, for any number of bets,   *)
(* offers, callers, weeks and lines.  With one caller placing, open bets    *)
(* stay within every limit, although each limit is checked against a sum    *)
(* read some statements before the bet is inserted, while others close and  *)
(* settle.  What is recommended is rated against the best offer there is,   *)
(* and a week exceeds its limit by at most one stake for each further       *)
(* request that is served at once.                                          *)
(***************************************************************************)
EXTENDS Betting, FoldLemmas, SequenceTheorems

-----------------------------------------------------------------------------
(* Sums of stakes                                                           *)

\* What the stakes of the positions S of the table b come to: StakeOf(S) when b
\* is bets, in the terms of the definitions StakeOf is made of.
Total(b, S) ==
    LET iter[s \in SUBSET S] == IF s = {} THEN 0 ELSE b[Taken(s)].stake + iter[s \ {Taken(s)}]
    IN  iter[S]

Counted(b, N) == \A i \in 1 .. N : b[i].stake \in Nat

SameStakes(b, c, N) == \A i \in 1 .. N : b[i].stake = c[i].stake

\* The exposure the endpoint reads is the total over the bets it reads.
LEMMA StakeOfIsTotal ==
    ASSUME NEW S
    PROVE  StakeOf(S) = Total(bets, S)
BY DEF StakeOf, MapThenSumSet, MapThenFoldSet, Total, Taken

\* The first N positions of a table are finitely many, and so are those of any of them.
LEMMA Finitely ==
    ASSUME NEW N \in Nat, NEW S \in SUBSET (1 .. N)
    PROVE  IsFiniteSet(1 .. N) /\ IsFiniteSet(S)
<1>1. N \in Int /\ 1 \in Int OBVIOUS
<1>2. IsFiniteSet(1 .. N) BY <1>1, FS_Interval
<1> QED BY <1>2, FS_Subset

\* The fold takes the elements in the order CHOOSE gives; the total is the same
\* as in any order.
LEMMA TotalIsSum ==
    ASSUME NEW N \in Nat, NEW b, Counted(b, N), NEW f, \A i \in 1 .. N : f[i] = b[i].stake,
           NEW S \in SUBSET (1 .. N)
    PROVE  NaturalOn(f, 1 .. N) /\ Total(b, S) = TotalOf(f, S)
<1> DEFINE R(h) == [s \in SUBSET S |->
                      IF s = {} THEN 0 ELSE b[Taken(s)].stake + h[s \ {Taken(s)}]]
           iter == CHOOSE h : h = R(h)
<1>1. Total(b, S) = iter[S] BY DEF Total
<1>2. NaturalOn(f, 1 .. N) /\ NaturalOn(f, S) BY DEF Counted, NaturalOn
<1>3. IsFiniteSet(S) BY Finitely
<1>4. ASSUME NEW h PROVE h = R(h) <=> Summing(h, f, S)
  <2>1. \A s \in SUBSET S : s # {} => b[Taken(s)].stake = f[Taken(s)] BY DEF Taken
  <2>2. R(h) = [s \in SUBSET S |-> IF s = {} THEN 0 ELSE f[Taken(s)] + h[s \ {Taken(s)}]]
      BY <2>1
  <2> QED BY <2>2 DEF Summing
<1>5. iter = R(iter)
  <2>1. PICK k : Summing(k, f, S) BY <1>2, <1>3, FoldIsSum
  <2>2. k = R(k) BY <1>4, <2>1
  <2> HIDE DEF R
  <2> QED BY <2>2
<1> HIDE DEF iter
<1>6. Summing(iter, f, S) BY <1>4, <1>5
<1>7. iter[S] = TotalOf(f, S) BY <1>2, <1>3, <1>6, FoldIsSum
<1> QED BY <1>1, <1>2, <1>7

\* Tables with the same stakes have the same totals: closing and settling a bet, or
\* placing another, changes no sum over the bets there were.
LEMMA TotalSame ==
    ASSUME NEW N \in Nat, NEW b, NEW c, Counted(b, N), SameStakes(b, c, N),
           NEW S \in SUBSET (1 .. N)
    PROVE  Total(c, S) = Total(b, S)
<1> DEFINE f == [i \in 1 .. N |-> b[i].stake]
<1>1. \A i \in 1 .. N : f[i] = b[i].stake /\ f[i] = c[i].stake BY DEF SameStakes
<1>2. Counted(c, N) BY DEF Counted, SameStakes
<1> HIDE DEF f
<1>3. Total(b, S) = TotalOf(f, S)
  <2>1. \A i \in 1 .. N : f[i] = b[i].stake BY <1>1
  <2> QED BY <2>1, TotalIsSum
<1>4. Total(c, S) = TotalOf(f, S)
  <2>1. \A i \in 1 .. N : f[i] = c[i].stake BY <1>1
  <2> QED BY <1>2, <2>1, TotalIsSum
<1> QED BY <1>3, <1>4

\* A total is a natural number, and what one position adds to it is its stake.
LEMMA TotalAdds ==
    ASSUME NEW N \in Nat, NEW b, Counted(b, N)
    PROVE  /\ Total(b, {}) = 0
           /\ \A S \in SUBSET (1 .. N) : Total(b, S) \in Nat
           /\ \A S \in SUBSET (1 .. N) : \A x \in S :
                 Total(b, S) = b[x].stake + Total(b, S \ {x})
<1> DEFINE f == [i \in 1 .. N |-> b[i].stake]
<1>1. \A i \in 1 .. N : f[i] = b[i].stake OBVIOUS
<1> HIDE DEF f
<1>2. {} \in SUBSET (1 .. N) OBVIOUS
<1>3. NaturalOn(f, 1 .. N) /\ \A S \in SUBSET (1 .. N) : Total(b, S) = TotalOf(f, S)
    BY <1>1, <1>2, TotalIsSum
<1>4. /\ TotalOf(f, {}) = 0
      /\ \A S \in SUBSET (1 .. N) : TotalOf(f, S) \in Nat
      /\ \A S \in SUBSET (1 .. N) : \A x \in S : TotalOf(f, S) = f[x] + TotalOf(f, S \ {x})
  <2>1. IsFiniteSet(1 .. N) BY <1>2, Finitely
  <2> QED BY <1>3, <2>1, SumAdds
<1>5. ASSUME NEW S \in SUBSET (1 .. N), NEW x \in S
      PROVE  Total(b, S) = b[x].stake + Total(b, S \ {x})
  <2>1. S \ {x} \in SUBSET (1 .. N) /\ x \in 1 .. N OBVIOUS
  <2> QED BY <1>1, <1>3, <1>4, <2>1
<1> QED BY <1>2, <1>3, <1>4, <1>5

\* A position more, with its stake.
LEMMA TotalOneMore ==
    ASSUME NEW N \in Nat, NEW b, NEW a, Counted(b, N), Counted(a, N + 1), SameStakes(b, a, N),
           NEW S \in SUBSET (1 .. N)
    PROVE  /\ Total(a, S) = Total(b, S) /\ Total(b, S) \in Nat
           /\ Total(a, S \cup {N + 1}) = a[N + 1].stake + Total(b, S)
<1> DEFINE k == N + 1
           T == S \cup {k}
<1>1. Total(a, S) = Total(b, S) BY TotalSame
<1>2. Total(b, S) \in Nat BY TotalAdds
<1>3. k \in Nat /\ Counted(a, k) OBVIOUS
<1>4. T \in SUBSET (1 .. k) /\ k \in T
  <2>1. \A i \in 1 .. N : i \in 1 .. k OBVIOUS
  <2>2. k \in 1 .. k OBVIOUS
  <2> HIDE DEF k
  <2> QED BY <2>1, <2>2
<1>5. T \ {k} = S OBVIOUS
<1>6. Total(a, T) = a[k].stake + Total(a, T \ {k})
  <2> HIDE DEF k, T
  <2> QED BY <1>3, <1>4, TotalAdds
<1>7. Total(a, T) = a[k].stake + Total(b, S) BY <1>1, <1>5, <1>6
<1> QED BY <1>1, <1>2, <1>7

\* Fewer bets come to no more.
LEMMA TotalMonotonic ==
    ASSUME NEW N \in Nat, NEW b, Counted(b, N),
           NEW S \in SUBSET (1 .. N), NEW T \in SUBSET S
    PROVE  Total(b, T) <= Total(b, S)
<1> DEFINE f == [i \in 1 .. N |-> b[i].stake]
<1>1. \A i \in 1 .. N : f[i] = b[i].stake OBVIOUS
<1> HIDE DEF f
<1>2. T \in SUBSET (1 .. N) OBVIOUS
<1>3. Total(b, S) = TotalOf(f, S) /\ Total(b, T) = TotalOf(f, T) /\ NaturalOn(f, 1 .. N)
    BY <1>1, <1>2, TotalIsSum
<1>4. IsFiniteSet(S) /\ NaturalOn(f, S) BY <1>3, Finitely DEF NaturalOn
<1> QED BY <1>3, <1>4, SumMonotonic

-----------------------------------------------------------------------------
(* The inductive invariant                                                  *)

ClosingRows ==
    {[line |-> closing.line, odds |-> closing.odds,
      beat |-> BeatsClose(Recommended[rec].side, Recommended[rec].line, Recommended[rec].odds, closing),
      clv |-> Clv(Recommended[rec].line, Recommended[rec].odds, closing)] :
        closing \in ClosingLines, rec \in Recommendations}

Flags == SUBSET {"SAME_PLAYER", "SAME_EVENT"}

Bet == [rec : Recommendations, stake : Amounts, week : 1 .. MaxWeek,
        status : {"ACTIVE", "CLOSED", "SETTLED"}, flags : Flags,
        closing : ClosingRows \cup {None}, settlement : SettlementRows \cup {None}]

\* The statements a call to create_paper_bet has passed, by where it is.
ToInsert == {"insert"}
PastLimits == {"correlation"} \cup ToInsert
PastPlayer == {"event"} \cup PastLimits
PastWeekly == {"player"} \cup PastPlayer
PastDuplicate == {"weekly"} \cup PastWeekly

Placings == [pc : {"duplicate"} \cup PastDuplicate, rec : Recommendations,
             since : (1 .. MaxWeek) \cup {None}, stake : Amounts, weekly : Nat, player : Nat,
             flags : Flags]
Closings == [pc : {"close"}, bet : Nat, closing : ClosingLines]
Settlings == [pc : {"settle"}, bet : Nat, outcome : Outcomes, at : SettledTimes]

Frames == {Idle} \cup Placings \cup Closings \cup Settlings

Typed ==
    /\ bets \in Seq(Bet)
    /\ week \in 1 .. MaxWeek
    /\ call \in [Callers -> Frames]

\* The open bets of a table b, those on the player or the event of a line, and the
\* bets of a week or of the weeks since one.
OpenIn(b) == {n \in DOMAIN b : b[n].settlement = None}
PlayerIn(b, line) == {n \in OpenIn(b) : Line(b[n]).player = line.player}
EventIn(b, line) == {n \in OpenIn(b) : Line(b[n]).event = line.event}
WeekIn(b, w) == {n \in DOMAIN b : b[n].week = w}
SinceIn(b, w) == {n \in DOMAIN b : b[n].week >= w}

\* OpenBetsWithinRules of a table b.
Exposed(b) ==
    /\ \A n \in DOMAIN b : b[n].stake <= MaxSingle
    /\ \A w \in 1 .. MaxWeek : Total(b, WeekIn(b, w)) <= MaxWeekly
    /\ \A n \in OpenIn(b) : /\ Total(b, PlayerIn(b, Line(b[n]))) <= MaxPlayer
                            /\ Total(b, EventIn(b, Line(b[n]))) <= MaxEvent

Distinct(b) == \A m, n \in OpenIn(b) : SameContract(Line(b[m]), Line(b[n])) => m = n

Flagged(b) ==
    \A m, n \in OpenIn(b) : m < n =>
       /\ Line(b[m]).player = Line(b[n]).player => "SAME_PLAYER" \in b[n].flags
       /\ Line(b[m]).event = Line(b[n]).event => "SAME_EVENT" \in b[n].flags

\* What a call that places a bet has found out of the table b in week w still
\* bounds what is open there.
Found(f, b, w) ==
    LET wanted == Recommended[f.rec]
    IN  /\ f.pc \in PastDuplicate =>
              /\ f.since \in 1 .. w
              /\ \A n \in OpenIn(b) : ~SameContract(Line(b[n]), wanted)
        /\ f.pc \in PastWeekly => Total(b, SinceIn(b, f.since)) <= f.weekly
        /\ f.pc \in PastPlayer => Total(b, PlayerIn(b, wanted)) <= f.player
        /\ f.pc \in PastLimits =>
              WithinLimits(f.stake, f.weekly, f.player, Total(b, EventIn(b, wanted)))
        /\ f.pc \in ToInsert =>
              /\ PlayerIn(b, wanted) # {} => "SAME_PLAYER" \in f.flags
              /\ EventIn(b, wanted) # {} => "SAME_EVENT" \in f.flags

\* Where a call is, beside the table b in week w: only a placer places, and a bet
\* that is being closed or settled is there.
Holds(c, f, b, w) ==
    /\ f \in Placings => c \in Placers /\ Found(f, b, w)
    /\ f \in Closings \cup Settlings => f.bet \in DOMAIN b

\* An open bet counts as unsettled: what is checked includes what is open.
OpenIsUnsettled(b) == \A n \in OpenIn(b) : b[n].status \in Unsettled

BetInv ==
    /\ Typed
    /\ OpenIsUnsettled(bets)
    /\ Exposed(bets) /\ Distinct(bets) /\ Flagged(bets)
    /\ \A c \in Callers : Holds(c, call[c], bets, week)

-----------------------------------------------------------------------------
(* Tables of bets                                                           *)

\* A typed table has positions from 1, amounts for stakes, and rows whose fields
\* are those of paper_bets.
LEMMA TableTypes ==
    ASSUME NEW b \in Seq(Bet)
    PROVE  /\ Len(b) \in Nat /\ DOMAIN b = 1 .. Len(b) /\ Counted(b, Len(b))
           /\ \A n \in DOMAIN b :
                 /\ b[n] \in Bet /\ b[n].rec \in Recommendations /\ b[n].stake \in Nat
                 /\ b[n].stake \in Amounts
                 /\ b[n].week \in 1 .. MaxWeek /\ b[n].settlement \in SettlementRows \cup {None}
<1>1. Len(b) \in Nat /\ DOMAIN b = 1 .. Len(b) /\ \A n \in DOMAIN b : b[n] \in Bet
    OBVIOUS
<1>2. \A r \in Bet : /\ r.rec \in Recommendations /\ r.stake \in Amounts
                     /\ r.week \in 1 .. MaxWeek /\ r.settlement \in SettlementRows \cup {None}
    BY DEF Bet
<1>3. \A a \in Amounts : a \in Nat BY LimitsAssumption
<1>4. \A n \in 1 .. Len(b) : b[n].stake \in Nat BY <1>1, <1>2, <1>3
<1> QED BY <1>1, <1>2, <1>4 DEF Counted

\* What is summed are positions of the table.
LEMMA Positions ==
    ASSUME NEW b \in Seq(Bet)
    PROVE  /\ OpenIn(b) \in SUBSET (1 .. Len(b))
           /\ \A line : /\ PlayerIn(b, line) \in SUBSET (1 .. Len(b))
                        /\ EventIn(b, line) \in SUBSET (1 .. Len(b))
           /\ \A w : /\ WeekIn(b, w) \in SUBSET (1 .. Len(b))
                     /\ SinceIn(b, w) \in SUBSET (1 .. Len(b))
BY TableTypes DEF OpenIn, PlayerIn, EventIn, WeekIn, SinceIn

\* c is the table b after a bet of it was closed or settled: no bet becomes open.
Shrinks(b, c) ==
    /\ b \in Seq(Bet) /\ c \in Seq(Bet) /\ Len(c) = Len(b)
    /\ \A n \in DOMAIN b :
          /\ c[n].rec = b[n].rec /\ c[n].stake = b[n].stake /\ c[n].week = b[n].week
          /\ c[n].flags = b[n].flags
          /\ c[n].settlement = None => b[n].settlement = None

\* Closing and settling leave totals as they are, and no set of open bets grows.
LEMMA ShrunkTables ==
    ASSUME NEW b, NEW c, Shrinks(b, c)
    PROVE  /\ DOMAIN c = DOMAIN b
           /\ \A n \in DOMAIN b : Line(c[n]) = Line(b[n])
           /\ \A S \in SUBSET (1 .. Len(b)) : Total(c, S) = Total(b, S)
           /\ OpenIn(c) \subseteq OpenIn(b)
           /\ \A line : /\ PlayerIn(c, line) \subseteq PlayerIn(b, line)
                        /\ EventIn(c, line) \subseteq EventIn(b, line)
           /\ \A w : WeekIn(c, w) = WeekIn(b, w) /\ SinceIn(c, w) = SinceIn(b, w)
<1>1. b \in Seq(Bet) /\ c \in Seq(Bet) /\ Len(c) = Len(b) BY DEF Shrinks
<1>2. DOMAIN c = DOMAIN b /\ DOMAIN b = 1 .. Len(b) /\ Len(b) \in Nat /\ Counted(b, Len(b))
    BY <1>1, TableTypes
<1>3. \A n \in DOMAIN b : Line(c[n]) = Line(b[n]) BY DEF Shrinks, Line
<1>4. SameStakes(b, c, Len(b)) BY <1>2 DEF Shrinks, SameStakes
<1>5. \A S \in SUBSET (1 .. Len(b)) : Total(c, S) = Total(b, S) BY <1>2, <1>4, TotalSame
<1>6. OpenIn(c) \subseteq OpenIn(b) BY <1>2 DEF OpenIn, Shrinks
<1>7. OpenIn(b) \subseteq DOMAIN b BY DEF OpenIn
<1>8. ASSUME NEW line
      PROVE  /\ PlayerIn(c, line) \subseteq PlayerIn(b, line)
             /\ EventIn(c, line) \subseteq EventIn(b, line)
    BY <1>3, <1>6, <1>7 DEF PlayerIn, EventIn
<1>9. ASSUME NEW w PROVE WeekIn(c, w) = WeekIn(b, w) /\ SinceIn(c, w) = SinceIn(b, w)
    BY <1>2 DEF WeekIn, SinceIn, Shrinks
<1> QED BY <1>2, <1>3, <1>5, <1>6, <1>8, <1>9

\* Totals over fewer open bets are no larger.
LEMMA ShrunkTotals ==
    ASSUME NEW b, NEW c, Shrinks(b, c), NEW line
    PROVE  /\ Total(c, PlayerIn(c, line)) <= Total(b, PlayerIn(b, line))
           /\ Total(c, EventIn(c, line)) <= Total(b, EventIn(b, line))
           /\ Total(c, PlayerIn(c, line)) \in Nat /\ Total(b, PlayerIn(b, line)) \in Nat
           /\ Total(c, EventIn(c, line)) \in Nat /\ Total(b, EventIn(b, line)) \in Nat
<1>1. b \in Seq(Bet) /\ Len(b) \in Nat /\ Counted(b, Len(b)) BY TableTypes DEF Shrinks
<1>2. /\ PlayerIn(b, line) \in SUBSET (1 .. Len(b))
      /\ EventIn(b, line) \in SUBSET (1 .. Len(b))
    BY <1>1, Positions
<1>3. /\ PlayerIn(c, line) \subseteq PlayerIn(b, line)
      /\ EventIn(c, line) \subseteq EventIn(b, line)
    BY ShrunkTables
<1>4. /\ PlayerIn(c, line) \in SUBSET (1 .. Len(b))
      /\ EventIn(c, line) \in SUBSET (1 .. Len(b))
    BY <1>2, <1>3
<1>5. /\ Total(c, PlayerIn(c, line)) = Total(b, PlayerIn(c, line))
      /\ Total(c, EventIn(c, line)) = Total(b, EventIn(c, line))
    BY <1>4, ShrunkTables
<1>6. /\ Total(b, PlayerIn(c, line)) <= Total(b, PlayerIn(b, line))
      /\ Total(b, EventIn(c, line)) <= Total(b, EventIn(b, line))
    BY <1>1, <1>2, <1>3, TotalMonotonic
<1>7. \A S \in SUBSET (1 .. Len(b)) : Total(b, S) \in Nat BY <1>1, TotalAdds
<1> QED BY <1>2, <1>4, <1>5, <1>6, <1>7

\* The rules of what is open outlive a closing and a settlement.
LEMMA ShrunkRules ==
    ASSUME NEW b, NEW c, Shrinks(b, c), Exposed(b), Distinct(b), Flagged(b)
    PROVE  Exposed(c) /\ Distinct(c) /\ Flagged(c)
<1>1. /\ DOMAIN c = DOMAIN b /\ OpenIn(c) \subseteq OpenIn(b)
      /\ \A n \in DOMAIN b : Line(c[n]) = Line(b[n])
    BY ShrunkTables
<1>2. OpenIn(b) \subseteq DOMAIN b /\ b \in Seq(Bet) BY DEF OpenIn, Shrinks
<1>3. \A n \in DOMAIN c : c[n].stake <= MaxSingle BY <1>1 DEF Exposed, Shrinks
<1>4. ASSUME NEW w \in 1 .. MaxWeek PROVE Total(c, WeekIn(c, w)) <= MaxWeekly
  <2>1. WeekIn(c, w) = WeekIn(b, w) BY ShrunkTables
  <2>2. WeekIn(b, w) \in SUBSET (1 .. Len(b)) BY <1>2, Positions
  <2>3. Total(c, WeekIn(b, w)) = Total(b, WeekIn(b, w)) BY <2>2, ShrunkTables
  <2>4. Total(b, WeekIn(b, w)) <= MaxWeekly BY DEF Exposed
  <2> QED BY <2>1, <2>3, <2>4
<1>5. ASSUME NEW n \in OpenIn(c)
      PROVE  /\ Total(c, PlayerIn(c, Line(c[n]))) <= MaxPlayer
             /\ Total(c, EventIn(c, Line(c[n]))) <= MaxEvent
  <2> DEFINE l == Line(b[n])
  <2>1. n \in OpenIn(b) /\ Line(c[n]) = l BY <1>1, <1>2
  <2>2. Total(b, PlayerIn(b, l)) <= MaxPlayer /\ Total(b, EventIn(b, l)) <= MaxEvent
      BY <2>1 DEF Exposed
  <2> HIDE DEF l
  <2>3. /\ Total(c, PlayerIn(c, l)) <= Total(b, PlayerIn(b, l))
        /\ Total(c, EventIn(c, l)) <= Total(b, EventIn(b, l))
        /\ Total(c, PlayerIn(c, l)) \in Nat /\ Total(b, PlayerIn(b, l)) \in Nat
        /\ Total(c, EventIn(c, l)) \in Nat /\ Total(b, EventIn(b, l)) \in Nat
      BY ShrunkTotals
  <2>4. MaxPlayer \in Nat /\ MaxEvent \in Nat BY LimitsAssumption
  <2> QED BY <2>1, <2>2, <2>3, <2>4
<1>6. Distinct(c)
  <2>1. \A m, n \in OpenIn(b) : SameContract(Line(b[m]), Line(b[n])) => m = n BY DEF Distinct
  <2> QED BY <1>1, <1>2, <2>1 DEF Distinct
<1>7. Flagged(c)
  <2>1. ASSUME NEW m \in OpenIn(c), NEW n \in OpenIn(c), m < n
        PROVE  /\ Line(c[m]).player = Line(c[n]).player => "SAME_PLAYER" \in c[n].flags
               /\ Line(c[m]).event = Line(c[n]).event => "SAME_EVENT" \in c[n].flags
    <3>1. /\ m \in OpenIn(b) /\ n \in OpenIn(b)
          /\ Line(c[m]) = Line(b[m]) /\ Line(c[n]) = Line(b[n])
        BY <1>1, <1>2
    <3>2. c[n].flags = b[n].flags BY <3>1, <1>2 DEF Shrinks
    <3> QED BY <2>1, <3>1, <3>2 DEF Flagged
  <2> QED BY <2>1 DEF Flagged
<1> QED BY <1>3, <1>4, <1>5, <1>6, <1>7 DEF Exposed

\* What a call that is placing a bet has found still bounds what is open after a
\* bet was closed or settled beside it.
LEMMA ShrunkFound ==
    ASSUME NEW b, NEW c, Shrinks(b, c), NEW f \in Placings, NEW w \in 1 .. MaxWeek,
           Found(f, b, w)
    PROVE  Found(f, c, w)
<1> DEFINE wanted == Recommended[f.rec]
<1>1. /\ OpenIn(c) \subseteq OpenIn(b) /\ OpenIn(b) \subseteq DOMAIN b
      /\ \A n \in DOMAIN b : Line(c[n]) = Line(b[n])
    BY ShrunkTables DEF OpenIn
<1>2. f.stake \in Nat /\ f.weekly \in Nat /\ f.player \in Nat
    BY LimitsAssumption DEF Placings
<1>3. b \in Seq(Bet) BY DEF Shrinks
<1>4. /\ Total(c, PlayerIn(c, wanted)) <= Total(b, PlayerIn(b, wanted))
      /\ Total(c, EventIn(c, wanted)) <= Total(b, EventIn(b, wanted))
      /\ Total(c, PlayerIn(c, wanted)) \in Nat /\ Total(b, PlayerIn(b, wanted)) \in Nat
      /\ Total(c, EventIn(c, wanted)) \in Nat /\ Total(b, EventIn(b, wanted)) \in Nat
    BY ShrunkTotals
<1>5. /\ PlayerIn(c, wanted) \subseteq PlayerIn(b, wanted)
      /\ EventIn(c, wanted) \subseteq EventIn(b, wanted)
    BY ShrunkTables
<1>6. /\ f.pc \in PastDuplicate =>
            /\ f.since \in 1 .. w
            /\ \A n \in OpenIn(b) : ~SameContract(Line(b[n]), wanted)
      /\ f.pc \in PastWeekly => Total(b, SinceIn(b, f.since)) <= f.weekly
      /\ f.pc \in PastPlayer => Total(b, PlayerIn(b, wanted)) <= f.player
      /\ f.pc \in PastLimits =>
            WithinLimits(f.stake, f.weekly, f.player, Total(b, EventIn(b, wanted)))
      /\ f.pc \in ToInsert => /\ PlayerIn(b, wanted) # {} => "SAME_PLAYER" \in f.flags
                              /\ EventIn(b, wanted) # {} => "SAME_EVENT" \in f.flags
    BY DEF Found
<1> HIDE DEF wanted
<1>7. f.pc \in PastDuplicate => \A n \in OpenIn(c) : ~SameContract(Line(c[n]), wanted)
    BY <1>1, <1>6
<1>8. f.pc \in PastWeekly => Total(c, SinceIn(c, f.since)) <= f.weekly
  <2>1. SinceIn(c, f.since) = SinceIn(b, f.since) BY ShrunkTables
  <2>2. SinceIn(b, f.since) \in SUBSET (1 .. Len(b)) BY <1>3, Positions
  <2>3. Total(c, SinceIn(b, f.since)) = Total(b, SinceIn(b, f.since))
      BY <2>2, ShrunkTables
  <2> QED BY <1>6, <2>1, <2>3
<1>9. f.pc \in PastPlayer => Total(c, PlayerIn(c, wanted)) <= f.player
    BY <1>2, <1>4, <1>6
<1>10. f.pc \in PastLimits =>
          WithinLimits(f.stake, f.weekly, f.player, Total(c, EventIn(c, wanted)))
  <2> DEFINE t == Total(c, EventIn(c, wanted))
             u == Total(b, EventIn(b, wanted))
  <2>1. t \in Nat /\ u \in Nat /\ t <= u BY <1>4
  <2>2. f.pc \in PastLimits => WithinLimits(f.stake, f.weekly, f.player, u) BY <1>6
  <2> HIDE DEF t, u
  <2>3. f.pc \in PastLimits => WithinLimits(f.stake, f.weekly, f.player, t)
      BY <1>2, <2>1, <2>2, LimitsAssumption DEF WithinLimits
  <2> QED BY <2>3 DEF t
<1>11. f.pc \in ToInsert => /\ PlayerIn(c, wanted) # {} => "SAME_PLAYER" \in f.flags
                            /\ EventIn(c, wanted) # {} => "SAME_EVENT" \in f.flags
    BY <1>5, <1>6
<1> QED BY <1>6, <1>7, <1>8, <1>9, <1>10, <1>11 DEF Found, wanted

\* A week that begins takes nothing from what a call has found.
LEMMA LaterFound ==
    ASSUME NEW f, NEW b, NEW w \in Nat, Found(f, b, w)
    PROVE  Found(f, b, w + 1)
BY DEF Found

\* a is the table b with the row r at a new position k, which adds its stake to the
\* totals it belongs to.
Inserted(b, r, a, k) ==
    /\ a \in Seq(Bet) /\ DOMAIN a = DOMAIN b \cup {k} /\ k \notin DOMAIN b
    /\ a[k] = r /\ \A n \in DOMAIN b : a[n] = b[n] /\ n < k
    /\ OpenIn(a) = OpenIn(b) \cup {k}
    /\ \A S \in SUBSET (1 .. Len(b)) :
          /\ Total(a, S) = Total(b, S) /\ Total(b, S) \in Nat
          /\ Total(a, S \cup {k}) = r.stake + Total(b, S)

\* A bet that is inserted is open, and counts in the totals of its week, of its
\* player and of its event.
LEMMA InsertedTable ==
    ASSUME NEW b \in Seq(Bet), NEW r \in Bet, r.settlement = None
    PROVE  Inserted(b, r, Append(b, r), Len(b) + 1)
<1> DEFINE a == Append(b, r)
           k == Len(b) + 1
<1>1. Len(b) \in Nat /\ DOMAIN b = 1 .. Len(b) /\ Counted(b, Len(b)) BY TableTypes
<1>2. /\ a \in Seq(Bet) /\ Len(a) = k /\ DOMAIN a = 1 .. k
      /\ a[k] = r /\ \A n \in 1 .. Len(b) : a[n] = b[n]
  <2>1. a \in Seq(Bet) /\ Len(a) = k BY <1>1
  <2>2. DOMAIN a = 1 .. k BY <2>1
  <2>3. a[k] = r /\ \A n \in 1 .. Len(b) : a[n] = b[n] BY <1>1
  <2> QED BY <2>1, <2>2, <2>3
<1>3. DOMAIN a = DOMAIN b \cup {k} /\ k \notin DOMAIN b /\ k \in Nat
      /\ \A n \in DOMAIN b : n < k
    BY <1>1, <1>2
<1>4. OpenIn(a) = OpenIn(b) \cup {k} BY <1>1, <1>2, <1>3 DEF OpenIn
<1>5. SameStakes(b, a, Len(b)) BY <1>2 DEF SameStakes
<1>6. Counted(a, k) BY <1>2, TableTypes
<1>7. ASSUME NEW S \in SUBSET (1 .. Len(b))
      PROVE  /\ Total(a, S) = Total(b, S) /\ Total(b, S) \in Nat
             /\ Total(a, S \cup {k}) = r.stake + Total(b, S)
  <2> DEFINE N == Len(b)
  <2>1. N \in Nat /\ Counted(b, N) /\ Counted(a, N + 1) /\ SameStakes(b, a, N)
      BY <1>1, <1>5, <1>6
  <2>2. k = N + 1 OBVIOUS
  <2>3. S \in SUBSET (1 .. N) OBVIOUS
  <2>4. a[k] = r BY <1>2
  <2> HIDE DEF N, a, k
  <2>5. /\ Total(a, S) = Total(b, S) /\ Total(b, S) \in Nat
        /\ Total(a, S \cup {N + 1}) = a[N + 1].stake + Total(b, S)
      BY ONLY <2>1, <2>3, TotalOneMore
  <2> QED BY <2>2, <2>4, <2>5, Zenon
<1> HIDE DEF a, k
<1>8. Inserted(b, r, a, k) BY <1>1, <1>2, <1>3, <1>4, <1>7 DEF Inserted
<1> QED BY <1>8 DEF a, k

\* The bet a call inserts in week w.
Placed(f, w) ==
    [rec |-> f.rec, stake |-> f.stake, week |-> w, status |-> "ACTIVE", flags |-> f.flags,
     closing |-> None, settlement |-> None]

\* A bet inserted by a call that has passed every check keeps the rules.
LEMMA InsertedRules ==
    ASSUME NEW b \in Seq(Bet), NEW w \in 1 .. MaxWeek, NEW f \in Placings, f.pc = "insert",
           Found(f, b, w), Exposed(b), Distinct(b), Flagged(b)
    PROVE  /\ Placed(f, w) \in Bet
           /\ LET a == Append(b, Placed(f, w)) IN Exposed(a) /\ Distinct(a) /\ Flagged(a)
<1> DEFINE r == Placed(f, w)
           a == Append(b, r)
           k == Len(b) + 1
           wanted == Recommended[f.rec]
<1>1. /\ r \in Bet /\ r.settlement = None /\ r.rec = f.rec /\ r.stake = f.stake
      /\ r.week = w /\ r.flags = f.flags
    BY DEF Placings, Bet, Placed
<1>2. Line(r) = wanted BY <1>1 DEF Line
<1>3. f.stake \in Nat /\ f.weekly \in Nat /\ f.player \in Nat
    BY LimitsAssumption DEF Placings
<1> HIDE DEF r, a
<1>4. /\ DOMAIN a = DOMAIN b \cup {k} /\ k \notin DOMAIN b
      /\ a[k] = r /\ \A n \in DOMAIN b : a[n] = b[n] /\ n < k
      /\ OpenIn(a) = OpenIn(b) \cup {k}
      /\ \A S \in SUBSET (1 .. Len(b)) :
            /\ Total(a, S) = Total(b, S) /\ Total(b, S) \in Nat
            /\ Total(a, S \cup {k}) = r.stake + Total(b, S)
  <2>1. Inserted(b, r, a, k) BY <1>1, InsertedTable DEF a
  <2> HIDE DEF k
  <2> QED BY <2>1 DEF Inserted
<1>5. /\ f.since \in 1 .. w
      /\ \A n \in OpenIn(b) : ~SameContract(Line(b[n]), wanted)
      /\ Total(b, SinceIn(b, f.since)) <= f.weekly
      /\ Total(b, PlayerIn(b, wanted)) <= f.player
      /\ WithinLimits(f.stake, f.weekly, f.player, Total(b, EventIn(b, wanted)))
      /\ PlayerIn(b, wanted) # {} => "SAME_PLAYER" \in f.flags
      /\ EventIn(b, wanted) # {} => "SAME_EVENT" \in f.flags
    BY DEF Found, PastDuplicate, PastWeekly, PastPlayer, PastLimits, ToInsert
<1>6. /\ Len(b) \in Nat /\ Counted(b, Len(b)) /\ OpenIn(b) \subseteq DOMAIN b
      /\ DOMAIN b = 1 .. Len(b)
      /\ \A n \in DOMAIN b : b[n].week \in 1 .. MaxWeek /\ b[n].stake \in Nat
    BY TableTypes DEF OpenIn
<1>7. /\ \A n \in DOMAIN b : Line(a[n]) = Line(b[n])
      /\ Line(a[k]) = wanted
    BY <1>2, <1>4 DEF Line
<1> DEFINE e == Total(b, EventIn(b, wanted))
<1>8. e \in Nat BY <1>4, Positions
<1>9. /\ f.stake <= MaxSingle /\ f.weekly + f.stake <= MaxWeekly
      /\ f.player + f.stake <= MaxPlayer /\ e + f.stake <= MaxEvent
    BY <1>5 DEF WithinLimits
<1> HIDE DEF k, wanted, e
<1>10. \A n \in DOMAIN a : a[n].stake <= MaxSingle BY <1>1, <1>4, <1>9 DEF Exposed
<1>11. ASSUME NEW v \in 1 .. MaxWeek PROVE Total(a, WeekIn(a, v)) <= MaxWeekly
  <2>1. WeekIn(b, v) \in SUBSET (1 .. Len(b)) BY Positions
  <2>2. CASE v = w
    <3> DEFINE S == WeekIn(b, v)
               T == SinceIn(b, f.since)
    <3>1. WeekIn(a, v) = S \cup {k} BY <1>1, <1>4, <2>2 DEF WeekIn
    <3>2. S \in SUBSET T /\ T \in SUBSET (1 .. Len(b))
      <4>1. \A n \in DOMAIN b : b[n].week = v => b[n].week >= f.since
          BY <1>5, <2>2, LimitsAssumption
      <4>2. S \in SUBSET T BY <4>1 DEF WeekIn, SinceIn
      <4> QED BY <4>2, Positions
    <3> HIDE DEF S, T
    <3>3. Total(b, S) <= Total(b, T) BY <1>6, <3>2, TotalMonotonic
    <3>4. Total(b, T) <= f.weekly BY <1>5 DEF T
    <3>5. Total(a, S \cup {k}) = r.stake + Total(b, S) /\ Total(b, S) \in Nat
          /\ Total(b, T) \in Nat
        BY <1>4, <3>2
    <3>6. MaxWeekly \in Nat BY LimitsAssumption
    <3>7. r.stake + Total(b, S) <= MaxWeekly BY <1>1, <1>3, <1>9, <3>3, <3>4, <3>5, <3>6
    <3> QED BY <3>1, <3>5, <3>7
  <2>3. CASE v # w
    <3>1. WeekIn(a, v) = WeekIn(b, v) BY <1>1, <1>4, <2>3 DEF WeekIn
    <3>2. Total(b, WeekIn(b, v)) <= MaxWeekly BY DEF Exposed
    <3>3. Total(a, WeekIn(b, v)) = Total(b, WeekIn(b, v)) BY <1>4, <2>1
    <3> QED BY <3>1, <3>2, <3>3
  <2> QED BY <2>2, <2>3
<1>12. ASSUME NEW n \in OpenIn(a) PROVE Total(a, PlayerIn(a, Line(a[n]))) <= MaxPlayer
  <2> DEFINE l == Line(a[n])
             S == PlayerIn(b, l)
  <2>1. CASE l.player = wanted.player
    <3>1. PlayerIn(a, l) = S \cup {k}
        BY <1>4, <1>6, <1>7, <2>1 DEF PlayerIn
    <3>2. S = PlayerIn(b, wanted) BY <2>1 DEF PlayerIn
    <3>3. S \in SUBSET (1 .. Len(b)) BY Positions
    <3> HIDE DEF S, l
    <3>4. Total(a, S \cup {k}) = r.stake + Total(b, S) /\ Total(b, S) \in Nat
        BY <1>4, <3>3
    <3>5. Total(b, S) <= f.player BY <1>5, <3>2
    <3>6. MaxPlayer \in Nat BY LimitsAssumption
    <3>7. r.stake + Total(b, S) <= MaxPlayer BY <1>1, <1>3, <1>9, <3>4, <3>5, <3>6
    <3>8. Total(a, PlayerIn(a, l)) <= MaxPlayer BY <3>1, <3>4, <3>7
    <3> QED BY <3>8 DEF l
  <2>2. CASE l.player # wanted.player
    <3>1. n # k /\ n \in OpenIn(b) /\ n \in DOMAIN b BY <1>4, <1>6, <1>7, <2>2
    <3>2. l = Line(b[n]) BY <1>7, <3>1
    <3>3. Total(b, S) <= MaxPlayer BY <3>1, <3>2 DEF Exposed
    <3>4. PlayerIn(a, l) = S BY <1>4, <1>6, <1>7, <2>2 DEF PlayerIn
    <3>5. S \in SUBSET (1 .. Len(b)) BY Positions
    <3> HIDE DEF S, l
    <3>6. Total(a, S) = Total(b, S) BY <1>4, <3>5
    <3>7. Total(a, PlayerIn(a, l)) <= MaxPlayer BY <3>3, <3>4, <3>6
    <3> QED BY <3>7 DEF l
  <2> QED BY <2>1, <2>2
<1>13. ASSUME NEW n \in OpenIn(a) PROVE Total(a, EventIn(a, Line(a[n]))) <= MaxEvent
  <2> DEFINE l == Line(a[n])
             S == EventIn(b, l)
  <2>1. CASE l.event = wanted.event
    <3>1. EventIn(a, l) = S \cup {k}
        BY <1>4, <1>6, <1>7, <2>1 DEF EventIn
    <3>2. S = EventIn(b, wanted) BY <2>1 DEF EventIn
    <3>3. S \in SUBSET (1 .. Len(b)) BY Positions
    <3> HIDE DEF S, l
    <3>4. Total(a, S \cup {k}) = r.stake + Total(b, S) /\ Total(b, S) \in Nat
        BY <1>4, <3>3
    <3>5. Total(b, S) = e BY <3>2 DEF e
    <3>6. MaxEvent \in Nat BY LimitsAssumption
    <3>7. r.stake + Total(b, S) <= MaxEvent BY <1>1, <1>3, <1>9, <3>4, <3>5, <3>6
    <3>8. Total(a, EventIn(a, l)) <= MaxEvent BY <3>1, <3>4, <3>7
    <3> QED BY <3>8 DEF l
  <2>2. CASE l.event # wanted.event
    <3>1. n # k /\ n \in OpenIn(b) /\ n \in DOMAIN b BY <1>4, <1>6, <1>7, <2>2
    <3>2. l = Line(b[n]) BY <1>7, <3>1
    <3>3. Total(b, S) <= MaxEvent BY <3>1, <3>2 DEF Exposed
    <3>4. EventIn(a, l) = S BY <1>4, <1>6, <1>7, <2>2 DEF EventIn
    <3>5. S \in SUBSET (1 .. Len(b)) BY Positions
    <3> HIDE DEF S, l
    <3>6. Total(a, S) = Total(b, S) BY <1>4, <3>5
    <3>7. Total(a, EventIn(a, l)) <= MaxEvent BY <3>3, <3>4, <3>6
    <3> QED BY <3>7 DEF l
  <2> QED BY <2>1, <2>2
<1>14. Distinct(a)
  <2>1. \A x, y : SameContract(x, y) => SameContract(y, x) BY DEF SameContract
  <2>2. \A m, n \in OpenIn(b) : SameContract(Line(b[m]), Line(b[n])) => m = n BY DEF Distinct
  <2>3. ASSUME NEW m \in OpenIn(a), NEW n \in OpenIn(a), SameContract(Line(a[m]), Line(a[n]))
        PROVE  m = n
    <3>1. CASE m = k /\ n = k BY <3>1
    <3>2. CASE m = k /\ n \in OpenIn(b)
        BY <1>5, <1>6, <1>7, <2>1, <2>3, <3>2
    <3>3. CASE m \in OpenIn(b) /\ n = k
        BY <1>5, <1>6, <1>7, <2>3, <3>3
    <3>4. CASE m \in OpenIn(b) /\ n \in OpenIn(b)
        BY <1>6, <1>7, <2>2, <2>3, <3>4
    <3> QED BY <1>4, <3>1, <3>2, <3>3, <3>4
  <2> QED BY <2>3 DEF Distinct
<1>15. Flagged(a)
  <2>1. ASSUME NEW m \in OpenIn(a), NEW n \in OpenIn(a), m < n
        PROVE  /\ Line(a[m]).player = Line(a[n]).player => "SAME_PLAYER" \in a[n].flags
               /\ Line(a[m]).event = Line(a[n]).event => "SAME_EVENT" \in a[n].flags
    <3>1. m \in OpenIn(b) /\ m \in DOMAIN b
      <4>1. n = k \/ n < k BY <1>4, <1>6
      <4>2. k \in Nat /\ m \in Nat /\ n \in Nat BY <1>4, <1>6 DEF k
      <4>3. m # k BY <2>1, <4>1, <4>2
      <4> QED BY <1>4, <1>6, <4>3
    <3>2. CASE n = k
      <4>1. Line(a[m]) = Line(b[m]) /\ Line(a[n]) = wanted /\ a[n].flags = f.flags
          BY <1>1, <1>4, <1>7, <3>1, <3>2
      <4>2. /\ Line(b[m]).player = wanted.player => m \in PlayerIn(b, wanted)
            /\ Line(b[m]).event = wanted.event => m \in EventIn(b, wanted)
          BY <3>1 DEF PlayerIn, EventIn
      <4> QED BY <1>5, <4>1, <4>2
    <3>3. CASE n \in OpenIn(b)
      <4>1. n \in DOMAIN b /\ a[n] = b[n] /\ a[m] = b[m] BY <1>4, <1>6, <3>1, <3>3
      <4> QED BY <2>1, <3>1, <3>3, <4>1 DEF Flagged
    <3> QED BY <1>4, <3>2, <3>3
  <2> QED BY <2>1 DEF Flagged
<1>16. Exposed(a) BY <1>10, <1>11, <1>12, <1>13 DEF Exposed
<1> QED BY <1>1, <1>14, <1>15, <1>16 DEF a, r

-----------------------------------------------------------------------------
(* The steps                                                                *)

\* Where a call is tells what it carries.
LEMMA FrameKinds ==
    /\ Idle \in Frames
    /\ \A c, b, w : Holds(c, Idle, b, w)
    /\ \A f \in Frames :
          /\ f.pc \in {"duplicate"} \cup PastDuplicate => f \in Placings
          /\ f.pc = "close" => f \in Closings
          /\ f.pc = "settle" => f \in Settlings
<1>1. Idle \notin Placings \cup Closings \cup Settlings
  <2>1. Idle.pc = "idle" BY DEF Idle
  <2>2. \A f \in Placings \cup Closings \cup Settlings : f.pc # "idle"
      BY DEF Placings, Closings, Settlings, PastDuplicate, PastWeekly, PastPlayer, PastLimits,
             ToInsert
  <2> QED BY <2>1, <2>2
<1>2. \A f \in Frames : /\ f.pc \in {"duplicate"} \cup PastDuplicate => f \in Placings
                        /\ f.pc = "close" => f \in Closings
                        /\ f.pc = "settle" => f \in Settlings
    BY DEF Frames, Idle, Placings, Closings, Settlings, PastDuplicate, PastWeekly, PastPlayer,
           PastLimits, ToInsert
<1>3. \A c, b, w : Holds(c, Idle, b, w) BY <1>1 DEF Holds
<1> QED BY <1>2, <1>3 DEF Frames

\* A call that reads, or is answered, leaves the table: what has to be shown is
\* what its new place says.
LEMMA CallMoves ==
    ASSUME BetInv, NEW c \in Callers, NEW f \in Frames, Holds(c, f, bets, week),
           Goto(c, f), UNCHANGED <<bets, week>>
    PROVE  BetInv'
<1>1. bets' = bets /\ week' = week /\ call' = [call EXCEPT ![c] = f] BY DEF Goto
<1>2. Typed' BY <1>1 DEF BetInv, Typed
<1>3. \A d \in Callers : Holds(d, call'[d], bets, week)
  <2>1. \A d \in Callers : call'[d] = IF d = c THEN f ELSE call[d]
      BY <1>1 DEF BetInv, Typed
  <2>2. \A d \in Callers : Holds(d, call[d], bets, week) BY DEF BetInv
  <2> QED BY <2>1, <2>2
<1>4. OpenIsUnsettled(bets) /\ Exposed(bets) /\ Distinct(bets) /\ Flagged(bets) BY DEF BetInv
<1>5. (\A d \in Callers : Holds(d, call[d], bets, week))' BY <1>1, <1>3
<1>6. (OpenIsUnsettled(bets) /\ Exposed(bets) /\ Distinct(bets) /\ Flagged(bets))'
    BY <1>1, <1>4
<1> QED BY <1>2, <1>5, <1>6 DEF BetInv

\* What the endpoint sums, the unsettled bets, includes the open ones.
LEMMA ReadExposure ==
    ASSUME BetInv, NEW line
    PROVE  /\ Total(bets, PlayerIn(bets, line)) <= Total(bets, OnPlayer(line))
           /\ Total(bets, EventIn(bets, line)) <= Total(bets, OnEvent(line))
           /\ Total(bets, OnPlayer(line)) \in Nat /\ Total(bets, OnEvent(line)) \in Nat
           /\ Total(bets, PlayerIn(bets, line)) \in Nat /\ Total(bets, EventIn(bets, line)) \in Nat
           /\ PlayerIn(bets, line) \subseteq OnPlayer(line)
           /\ EventIn(bets, line) \subseteq OnEvent(line)
<1>1. bets \in Seq(Bet) /\ OpenIsUnsettled(bets) BY DEF BetInv, Typed
<1>2. Len(bets) \in Nat /\ DOMAIN bets = 1 .. Len(bets) /\ Counted(bets, Len(bets))
    BY <1>1, TableTypes
<1>3. /\ OnPlayer(line) \in SUBSET (1 .. Len(bets)) /\ OnEvent(line) \in SUBSET (1 .. Len(bets))
      /\ PlayerIn(bets, line) \in SUBSET OnPlayer(line)
      /\ EventIn(bets, line) \in SUBSET OnEvent(line)
    BY <1>1, <1>2 DEF OnPlayer, OnEvent, UnsettledBets, PlayerIn, EventIn, OpenIn, OpenIsUnsettled
<1>4. /\ Total(bets, PlayerIn(bets, line)) <= Total(bets, OnPlayer(line))
      /\ Total(bets, EventIn(bets, line)) <= Total(bets, OnEvent(line))
    BY <1>2, <1>3, TotalMonotonic
<1>5. /\ PlayerIn(bets, line) \in SUBSET (1 .. Len(bets))
      /\ EventIn(bets, line) \in SUBSET (1 .. Len(bets))
    BY <1>1, Positions
<1>6. \A S \in SUBSET (1 .. Len(bets)) : Total(bets, S) \in Nat BY <1>2, TotalAdds
<1> QED BY <1>3, <1>4, <1>5, <1>6

\* Each statement of a call that places a bet finds what the later ones rely on.
LEMMA PlacingSteps ==
    ASSUME BetInv, NEW c \in Callers,
           \/ CheckDuplicate(c) \/ ReadWeekly(c) \/ ReadPlayer(c) \/ ReadEvent(c) \/ ReadActive(c)
    PROVE  BetInv'
<1> DEFINE f == call[c]
           wanted == Recommended[f.rec]
           Pcs == {"duplicate"} \cup PastDuplicate
<1>1. /\ bets \in Seq(Bet) /\ week \in 1 .. MaxWeek /\ f \in Frames /\ Holds(c, f, bets, week)
      /\ OpenIsUnsettled(bets)
    BY DEF BetInv, Typed
<1>2. Wanted(c) = wanted BY DEF Wanted
<1> HIDE DEF wanted
<1>3. f.pc \in Pcs /\ UNCHANGED <<bets, week>>
    BY DEF CheckDuplicate, ReadWeekly, ReadPlayer, ReadEvent, ReadActive, PastDuplicate, PastWeekly,
           PastPlayer, PastLimits, ToInsert
<1>4. f \in Placings /\ c \in Placers /\ Found(f, bets, week)
    BY <1>1, <1>3, FrameKinds DEF Holds
<1>5. /\ f.rec \in Recommendations /\ f.stake \in Amounts /\ f.stake \in Nat
      /\ f.weekly \in Nat /\ f.player \in Nat /\ f.flags \in Flags
      /\ f.since \in (1 .. MaxWeek) \cup {None}
    BY <1>4, LimitsAssumption DEF Placings
<1>6. ASSUME Answer(c, "refused") PROVE BetInv'
    BY <1>1, <1>3, <1>6, FrameKinds, CallMoves DEF Answer
<1>7. ASSUME NEW g \in Placings, Found(g, bets, week), Goto(c, g) PROVE BetInv'
  <2>1. g \in Frames BY DEF Frames
  <2>2. g \notin Closings \cup Settlings
    <3>1. \A h \in Closings \cup Settlings : h.pc \in {"close", "settle"}
        BY DEF Closings, Settlings
    <3>2. g.pc \notin {"close", "settle"}
        BY DEF Placings, PastDuplicate, PastWeekly, PastPlayer, PastLimits, ToInsert
    <3> QED BY <3>1, <3>2
  <2>3. Holds(c, g, bets, week) BY <1>4, <1>7, <2>2 DEF Holds
  <2> QED BY <1>3, <1>7, <2>1, <2>3, CallMoves
<1> HIDE DEF f
<1>8. CASE CheckDuplicate(c)
  <2> DEFINE g == [f EXCEPT !.pc = "weekly", !.since = week]
  <2>1. CASE \E n \in UnsettledBets : SameContract(Line(bets[n]), wanted)
    <3>1. Answer(c, "refused") BY <1>2, <1>8, <2>1 DEF CheckDuplicate, Answer, f
    <3> QED BY <1>6, <3>1
  <2>2. CASE ~ \E n \in UnsettledBets : SameContract(Line(bets[n]), wanted)
    <3>1. Goto(c, g) BY <1>2, <1>8, <2>2 DEF CheckDuplicate, f
    <3>2. /\ g \in Placings /\ g.pc = "weekly" /\ g.since = week /\ g.rec = f.rec
        BY <1>1, <1>4 DEF Placings, PastDuplicate
    <3>3. \A n \in OpenIn(bets) : n \in UnsettledBets
        BY <1>1 DEF OpenIn, UnsettledBets, OpenIsUnsettled
    <3>4. \A n \in OpenIn(bets) : ~SameContract(Line(bets[n]), wanted) BY <2>2, <3>3
    <3>5. week \in 1 .. week BY <1>1, LimitsAssumption
    <3> HIDE DEF g
    <3>6. Found(g, bets, week)
        BY <3>2, <3>4, <3>5
           DEF Found, wanted, PastWeekly, PastPlayer, PastLimits, ToInsert
    <3> QED BY <1>7, <3>1, <3>2, <3>6
  <2> QED BY <2>1, <2>2
<1>9. CASE ReadWeekly(c)
  <2> DEFINE S == SinceIn(bets, f.since)
             g == [f EXCEPT !.pc = "player", !.weekly = Total(bets, S)]
  <2>1. f.pc = "weekly" BY <1>9 DEF ReadWeekly, f
  <2>2. S = {n \in DOMAIN bets : bets[n].week >= f.since} BY DEF SinceIn
  <2>3. Goto(c, [f EXCEPT !.pc = "player",
                     !.weekly = StakeOf({n \in DOMAIN bets : bets[n].week >= f.since})])
      BY <1>9 DEF ReadWeekly, f
  <2>4. S \in SUBSET (1 .. Len(bets)) BY <1>1, Positions
  <2>5. Total(bets, S) \in Nat BY <1>1, <2>4, TableTypes, TotalAdds
  <2> HIDE DEF S
  <2>6. StakeOf(S) = Total(bets, S) BY StakeOfIsTotal
  <2>7. Goto(c, g) BY <2>2, <2>3, <2>6
  <2>8. /\ g \in Placings /\ g.pc = "player" /\ g.since = f.since /\ g.rec = f.rec
        /\ g.weekly = Total(bets, S)
      BY <1>4, <2>5 DEF Placings, PastDuplicate, PastWeekly
  <2> HIDE DEF g
  <2>9. Found(g, bets, week)
    <3>1. f.pc \in PastDuplicate BY <2>1 DEF PastDuplicate
    <3>2. g.pc \notin PastPlayer BY <2>8 DEF PastPlayer, PastLimits, ToInsert
    <3> QED BY <1>4, <2>5, <2>8, <3>1, <3>2 DEF Found, S, PastPlayer, PastLimits
  <2> QED BY <1>7, <2>7, <2>8, <2>9
<1>10. CASE ReadPlayer(c)
  <2> DEFINE S == OnPlayer(wanted)
             g == [f EXCEPT !.pc = "event", !.player = Total(bets, S)]
  <2>1. f.pc = "player" BY <1>10 DEF ReadPlayer, f
  <2>2. Goto(c, [f EXCEPT !.pc = "event", !.player = StakeOf(OnPlayer(wanted))])
      BY <1>2, <1>10 DEF ReadPlayer, f
  <2>3. Total(bets, S) \in Nat /\ Total(bets, PlayerIn(bets, wanted)) <= Total(bets, S)
      BY ReadExposure
  <2> HIDE DEF S
  <2>4. StakeOf(S) = Total(bets, S) BY StakeOfIsTotal
  <2>5. Goto(c, g) BY <2>2, <2>4 DEF S
  <2>6. /\ g \in Placings /\ g.pc = "event" /\ g.since = f.since /\ g.rec = f.rec
        /\ g.weekly = f.weekly /\ g.player = Total(bets, S)
      BY <1>4, <2>3 DEF Placings, PastDuplicate, PastWeekly, PastPlayer
  <2> HIDE DEF g
  <2>7. Found(g, bets, week)
    <3>1. f.pc \in PastWeekly /\ f.pc \in PastDuplicate BY <2>1 DEF PastDuplicate, PastWeekly
    <3>2. g.pc \notin PastLimits BY <2>6 DEF PastLimits, ToInsert
    <3> QED BY <1>4, <2>3, <2>6, <3>1, <3>2 DEF Found, wanted, PastLimits
  <2> QED BY <1>7, <2>5, <2>6, <2>7
<1>11. CASE ReadEvent(c)
  <2> DEFINE S == OnEvent(wanted)
             e == Total(bets, EventIn(bets, wanted))
             g == [f EXCEPT !.pc = "correlation"]
  <2>1. f.pc = "event" BY <1>11 DEF ReadEvent, f
  <2>2. IF WithinLimits(f.stake, f.weekly, f.player, StakeOf(OnEvent(wanted)))
        THEN Goto(c, g) ELSE Answer(c, "exposure")
      BY <1>2, <1>11 DEF ReadEvent, f
  <2>3. Total(bets, S) \in Nat /\ e \in Nat /\ e <= Total(bets, S)
      BY ReadExposure
  <2> HIDE DEF S, e
  <2>4. StakeOf(S) = Total(bets, S) BY StakeOfIsTotal
  <2>5. CASE WithinLimits(f.stake, f.weekly, f.player, StakeOf(OnEvent(wanted)))
    <3>1. Goto(c, g) BY <2>2, <2>5
    <3>2. /\ g \in Placings /\ g.pc = "correlation" /\ g.since = f.since /\ g.rec = f.rec
          /\ g.weekly = f.weekly /\ g.player = f.player /\ g.stake = f.stake
        BY <1>4 DEF Placings, PastDuplicate, PastWeekly, PastPlayer, PastLimits
    <3>3. WithinLimits(f.stake, f.weekly, f.player, Total(bets, S)) BY <2>4, <2>5 DEF S
    <3>4. WithinLimits(f.stake, f.weekly, f.player, e)
        BY <1>5, <2>3, <3>3, LimitsAssumption DEF WithinLimits
    <3>5. f.pc \in PastPlayer /\ f.pc \in PastWeekly /\ f.pc \in PastDuplicate
        BY <2>1 DEF PastDuplicate, PastWeekly, PastPlayer
    <3> HIDE DEF g
    <3>6. Found(g, bets, week)
        BY <1>4, <3>2, <3>4, <3>5 DEF Found, wanted, e, ToInsert
    <3> QED BY <1>7, <3>1, <3>2, <3>6
  <2>6. CASE ~WithinLimits(f.stake, f.weekly, f.player, StakeOf(OnEvent(wanted)))
    <3>1. Answer(c, "refused") BY <2>2, <2>6 DEF Answer
    <3> QED BY <1>6, <3>1
  <2> QED BY <2>5, <2>6
<1>12. CASE ReadActive(c)
  <2> DEFINE flags == (IF OnPlayer(wanted) = {} THEN {} ELSE {"SAME_PLAYER"})
                      \cup (IF OnEvent(wanted) = {} THEN {} ELSE {"SAME_EVENT"})
             g == [f EXCEPT !.pc = "insert", !.flags = flags]
  <2>1. f.pc = "correlation" BY <1>12 DEF ReadActive, f
  <2>2. Goto(c, g) BY <1>2, <1>12 DEF ReadActive, f
  <2>3. /\ PlayerIn(bets, wanted) \subseteq OnPlayer(wanted)
        /\ EventIn(bets, wanted) \subseteq OnEvent(wanted)
      BY ReadExposure
  <2>4. /\ flags \in Flags
        /\ PlayerIn(bets, wanted) # {} => "SAME_PLAYER" \in flags
        /\ EventIn(bets, wanted) # {} => "SAME_EVENT" \in flags
      BY <2>3 DEF Flags
  <2> HIDE DEF flags
  <2>5. /\ g \in Placings /\ g.pc = "insert" /\ g.since = f.since /\ g.rec = f.rec
        /\ g.weekly = f.weekly /\ g.player = f.player /\ g.stake = f.stake /\ g.flags = flags
      BY <1>4, <2>4
         DEF Placings, PastDuplicate, PastWeekly, PastPlayer, PastLimits, ToInsert
  <2>6. f.pc \in PastLimits /\ f.pc \in PastPlayer /\ f.pc \in PastWeekly /\ f.pc \in PastDuplicate
      BY <2>1 DEF PastDuplicate, PastWeekly, PastPlayer, PastLimits
  <2> HIDE DEF g
  <2>7. Found(g, bets, week) BY <1>4, <2>4, <2>5, <2>6 DEF Found, wanted
  <2> QED BY <1>7, <2>2, <2>5, <2>7
<1> QED BY <1>8, <1>9, <1>10, <1>11, <1>12

\* A call that begins has found nothing yet.
LEMMA BeginningSteps ==
    ASSUME BetInv, NEW c \in Callers,
           \/ \E rec \in Recommendations \cup {None}, stake \in Stakes \cup {None} :
                 c \in Placers /\ Create(c, rec, stake)
           \/ \E n \in 1 .. MaxBets, closing \in ClosingLines : Close(c, n, closing)
           \/ \E n \in 1 .. MaxBets, outcome \in Outcomes, at \in SettledTimes :
                 Settle(c, n, outcome, at)
    PROVE  BetInv'
<1>1. bets \in Seq(Bet) /\ DOMAIN bets \subseteq Nat BY TableTypes DEF BetInv, Typed
<1>2. ASSUME UNCHANGED <<bets, week>>, Answer(c, "refused") PROVE BetInv'
    BY <1>2, FrameKinds, CallMoves DEF Answer
<1>3. \A g \in Placings : g \notin Closings \cup Settlings
    BY DEF Placings, Closings, Settlings, PastDuplicate, PastWeekly, PastPlayer, PastLimits, ToInsert
<1>4. CASE \E rec \in Recommendations \cup {None}, stake \in Stakes \cup {None} :
              c \in Placers /\ Create(c, rec, stake)
  <2>1. PICK rec \in Recommendations \cup {None}, stake \in Stakes \cup {None} :
           c \in Placers /\ Create(c, rec, stake)
      BY <1>4
  <2> DEFINE amount == IF stake = None THEN DefaultUnit ELSE stake
             g == [pc |-> "duplicate", rec |-> rec, since |-> None, stake |-> amount,
                   weekly |-> 0, player |-> 0, flags |-> {}]
  <2>2. CASE rec = None
    <3>1. UNCHANGED <<bets, week>> /\ Answer(c, "refused") BY <2>1, <2>2 DEF Create, Answer
    <3> QED BY <1>2, <3>1
  <2>3. CASE rec # None
    <3>1. UNCHANGED <<bets, week>> /\ Goto(c, g) BY <2>1, <2>3 DEF Create
    <3>2. amount \in Amounts BY DEF Amounts
    <3> HIDE DEF amount
    <3>3. g \in Placings /\ g.pc = "duplicate" BY <2>3, <3>2 DEF Placings, Flags
    <3> HIDE DEF g
    <3>4. Found(g, bets, week)
        BY <3>3 DEF Found, PastDuplicate, PastWeekly, PastPlayer, PastLimits, ToInsert
    <3>5. g \in Frames /\ Holds(c, g, bets, week)
        BY <1>3, <2>1, <3>3, <3>4 DEF Frames, Holds
    <3> QED BY <3>1, <3>5, CallMoves
  <2> QED BY <2>2, <2>3
<1>5. CASE \E n \in 1 .. MaxBets, closing \in ClosingLines : Close(c, n, closing)
  <2>1. PICK n \in 1 .. MaxBets, closing \in ClosingLines : Close(c, n, closing) BY <1>5
  <2> DEFINE g == [pc |-> "close", bet |-> n, closing |-> closing]
  <2>2. UNCHANGED <<bets, week>> BY <2>1 DEF Close
  <2>3. CASE Answer(c, "refused") BY <1>2, <2>2, <2>3
  <2>4. CASE n \in DOMAIN bets /\ Goto(c, g)
    <3>1. g \in Closings /\ g.bet = n BY <1>1, <2>4 DEF Closings
    <3> HIDE DEF g
    <3>2. g \in Frames /\ Holds(c, g, bets, week) BY <1>3, <2>4, <3>1 DEF Frames, Holds
    <3> QED BY <2>2, <2>4, <3>2, CallMoves
  <2> QED BY <2>1, <2>3, <2>4 DEF Close, Answer
<1>6. CASE \E n \in 1 .. MaxBets, outcome \in Outcomes, at \in SettledTimes :
              Settle(c, n, outcome, at)
  <2>1. PICK n \in 1 .. MaxBets, outcome \in Outcomes, at \in SettledTimes :
           Settle(c, n, outcome, at)
      BY <1>6
  <2> DEFINE g == [pc |-> "settle", bet |-> n, outcome |-> outcome, at |-> at]
  <2>2. UNCHANGED <<bets, week>> BY <2>1 DEF Settle
  <2>3. CASE Answer(c, "refused") BY <1>2, <2>2, <2>3
  <2>4. CASE n \in DOMAIN bets /\ Goto(c, g)
    <3>1. g \in Settlings /\ g.bet = n BY <1>1, <2>4 DEF Settlings
    <3> HIDE DEF g
    <3>2. g \in Frames /\ Holds(c, g, bets, week) BY <1>3, <2>4, <3>1 DEF Frames, Holds
    <3> QED BY <2>2, <2>4, <3>2, CallMoves
  <2> QED BY <2>1, <2>3, <2>4 DEF Settle, Answer
<1> QED BY <1>4, <1>5, <1>6

\* A bet of the table gets a row: its closing line, and counts as unsettled, or its
\* settlement, and is no longer open.
Rowed(c) ==
    LET n == call[c].bet
    IN  /\ n \in DOMAIN bets
        /\ \/ /\ call[c] \in Closings
              /\ bets' = [bets EXCEPT ![n].status = "CLOSED", ![n].closing =
                    [line |-> call[c].closing.line, odds |-> call[c].closing.odds,
                     beat |-> BeatsClose(Line(bets[n]).side, Line(bets[n]).line,
                                         Line(bets[n]).odds, call[c].closing),
                     clv |-> Clv(Line(bets[n]).line, Line(bets[n]).odds, call[c].closing)]]
           \/ /\ call[c] \in Settlings
              /\ bets' = [bets EXCEPT ![n].status = "SETTLED", ![n].settlement =
                    [outcome |-> call[c].outcome, at |-> call[c].at,
                     profit |-> Profit(call[c].outcome, bets[n].stake, Line(bets[n]).odds)]]

\* What a row leaves of the bet it is for.
LEMMA RowedBet ==
    ASSUME NEW x \in Bet
    PROVE  /\ \A row \in ClosingRows :
                 LET y == [x EXCEPT !.status = "CLOSED", !.closing = row]
                 IN  /\ y \in Bet /\ y.rec = x.rec /\ y.stake = x.stake /\ y.week = x.week
                     /\ y.flags = x.flags /\ y.settlement = x.settlement /\ y.status = "CLOSED"
           /\ \A row \in SettlementRows :
                 LET y == [x EXCEPT !.status = "SETTLED", !.settlement = row]
                 IN  /\ y \in Bet /\ y.rec = x.rec /\ y.stake = x.stake /\ y.week = x.week
                     /\ y.flags = x.flags /\ y.settlement = row
<1>1. ASSUME NEW row \in ClosingRows
      PROVE  LET y == [x EXCEPT !.status = "CLOSED", !.closing = row]
             IN  /\ y \in Bet /\ y.rec = x.rec /\ y.stake = x.stake /\ y.week = x.week
                 /\ y.flags = x.flags /\ y.settlement = x.settlement /\ y.status = "CLOSED"
    BY DEF Bet
<1>2. ASSUME NEW row \in SettlementRows
      PROVE  LET y == [x EXCEPT !.status = "SETTLED", !.settlement = row]
             IN  /\ y \in Bet /\ y.rec = x.rec /\ y.stake = x.stake /\ y.week = x.week
                 /\ y.flags = x.flags /\ y.settlement = row
    BY DEF Bet
<1> QED BY <1>1, <1>2

\* A row of a bet opens none.
LEMMA RowedTable ==
    ASSUME Typed, NEW c \in Callers, Rowed(c)
    PROVE  /\ Shrinks(bets, bets')
           /\ OpenIsUnsettled(bets) => OpenIsUnsettled(bets')
<1> DEFINE n == call[c].bet
           r == bets'[n]
<1>1. bets \in Seq(Bet) /\ n \in DOMAIN bets BY DEF Typed, Rowed
<1>2. bets[n] \in Bet /\ bets[n].rec \in Recommendations /\ bets[n].stake \in Amounts
      /\ DOMAIN bets = 1 .. Len(bets) /\ Len(bets) \in Nat
    BY <1>1, TableTypes
<1>3. /\ r \in Bet /\ r.rec = bets[n].rec /\ r.stake = bets[n].stake /\ r.week = bets[n].week
      /\ r.flags = bets[n].flags
      /\ r.settlement = None => bets[n].settlement = None /\ r.status \in Unsettled
      /\ bets' = [bets EXCEPT ![n] = r]
  <2>1. CASE call[c] \in Closings /\
             bets' = [bets EXCEPT ![n].status = "CLOSED", ![n].closing =
                    [line |-> call[c].closing.line, odds |-> call[c].closing.odds,
                     beat |-> BeatsClose(Line(bets[n]).side, Line(bets[n]).line,
                                         Line(bets[n]).odds, call[c].closing),
                     clv |-> Clv(Line(bets[n]).line, Line(bets[n]).odds, call[c].closing)]]
    <3> DEFINE row == [line |-> call[c].closing.line, odds |-> call[c].closing.odds,
                       beat |-> BeatsClose(Line(bets[n]).side, Line(bets[n]).line,
                                           Line(bets[n]).odds, call[c].closing),
                       clv |-> Clv(Line(bets[n]).line, Line(bets[n]).odds, call[c].closing)]
    <3>1. call[c].closing \in ClosingLines BY <2>1 DEF Closings
    <3>2. row \in ClosingRows BY <1>2, <3>1 DEF ClosingRows, Line
    <3> HIDE DEF row
    <3>3. bets' = [bets EXCEPT ![n] = [bets[n] EXCEPT !.status = "CLOSED", !.closing = row]]
        BY <2>1 DEF row
    <3> DEFINE y == [bets[n] EXCEPT !.status = "CLOSED", !.closing = row]
    <3>4. /\ y \in Bet /\ y.rec = bets[n].rec /\ y.stake = bets[n].stake
          /\ y.week = bets[n].week /\ y.flags = bets[n].flags
          /\ y.settlement = bets[n].settlement /\ y.status = "CLOSED"
        BY <1>2, <3>2, RowedBet
    <3>5. bets' = [bets EXCEPT ![n] = y] BY <3>3
    <3> HIDE DEF y
    <3>6. r = y BY <1>1, <1>2, <3>5
    <3> HIDE DEF r, n
    <3> QED BY <3>4, <3>5, <3>6 DEF Unsettled
  <2>2. CASE call[c] \in Settlings /\
             bets' = [bets EXCEPT ![n].status = "SETTLED", ![n].settlement =
                    [outcome |-> call[c].outcome, at |-> call[c].at,
                     profit |-> Profit(call[c].outcome, bets[n].stake, Line(bets[n]).odds)]]
    <3> DEFINE row == [outcome |-> call[c].outcome, at |-> call[c].at,
                       profit |-> Profit(call[c].outcome, bets[n].stake, Line(bets[n]).odds)]
    <3>1. call[c].outcome \in Outcomes /\ call[c].at \in SettledTimes BY <2>2 DEF Settlings
    <3>2. row \in SettlementRows BY <1>2, <3>1 DEF SettlementRows, Line
    <3> HIDE DEF row
    <3>3. row # None BY <3>2, NoneAssumption
    <3>4. bets' = [bets EXCEPT ![n] = [bets[n] EXCEPT !.status = "SETTLED", !.settlement = row]]
        BY <2>2 DEF row
    <3> DEFINE y == [bets[n] EXCEPT !.status = "SETTLED", !.settlement = row]
    <3>5. /\ y \in Bet /\ y.rec = bets[n].rec /\ y.stake = bets[n].stake
          /\ y.week = bets[n].week /\ y.flags = bets[n].flags /\ y.settlement = row
        BY <1>2, <3>2, RowedBet
    <3>6. bets' = [bets EXCEPT ![n] = y] BY <3>4
    <3> HIDE DEF y
    <3>7. r = y BY <1>1, <1>2, <3>6
    <3> HIDE DEF r, n
    <3> QED BY <3>3, <3>5, <3>6, <3>7
  <2> QED BY <2>1, <2>2 DEF Rowed
<1> HIDE DEF n, r
<1>4. /\ bets' \in Seq(Bet) /\ Len(bets') = Len(bets)
      /\ \A m \in DOMAIN bets : bets'[m] = IF m = n THEN r ELSE bets[m]
    BY <1>1, <1>2, <1>3
<1>5. Shrinks(bets, bets') BY <1>1, <1>3, <1>4 DEF Shrinks
<1>6. DOMAIN bets' = DOMAIN bets BY <1>5, ShrunkTables
<1>7. OpenIsUnsettled(bets) => OpenIsUnsettled(bets')
    BY <1>1, <1>3, <1>4, <1>6 DEF OpenIsUnsettled, OpenIn
<1> QED BY <1>5, <1>7

\* What a call that closes or settles a bet writes leaves the rules, and what the
\* calls beside it have found.
LEMMA WritingSteps ==
    ASSUME BetInv, NEW c \in Callers, RecordClosing(c) \/ RecordSettlement(c)
    PROVE  BetInv'
<1> DEFINE f == call[c]
<1>1. /\ f \in Frames /\ Holds(c, f, bets, week) /\ week \in 1 .. MaxWeek
      /\ call \in [Callers -> Frames] /\ bets \in Seq(Bet)
      /\ Exposed(bets) /\ Distinct(bets) /\ Flagged(bets)
    BY DEF BetInv, Typed
<1>2. week' = week /\ Answer(c, "answered")
    BY DEF RecordClosing, RecordSettlement, Answer
<1>3. CASE UNCHANGED bets BY <1>2, <1>3, FrameKinds, CallMoves DEF Answer
<1>4. CASE Rowed(c)
  <2>1. Shrinks(bets, bets') /\ OpenIsUnsettled(bets') BY <1>4, RowedTable DEF BetInv
  <2>2. Exposed(bets') /\ Distinct(bets') /\ Flagged(bets') BY <1>1, <2>1, ShrunkRules
  <2>3. call' = [call EXCEPT ![c] = Idle] BY <1>2 DEF Answer, Goto
  <2>4. ASSUME NEW d \in Callers PROVE Holds(d, call'[d], bets', week')
    <3>1. CASE d = c BY <1>1, <2>3, <3>1, FrameKinds
    <3>2. CASE d # c
      <4>1. call'[d] = call[d] /\ Holds(d, call[d], bets, week)
          BY <1>1, <2>3, <3>2 DEF BetInv
      <4>2. DOMAIN bets' = DOMAIN bets BY <2>1, ShrunkTables
      <4>3. call[d] \in Placings => Found(call[d], bets', week)
          BY <1>1, <2>1, <4>1, ShrunkFound DEF Holds
      <4> QED BY <1>2, <4>1, <4>2, <4>3 DEF Holds
    <3> QED BY <3>1, <3>2
  <2>5. Typed'
    <3>1. bets' \in Seq(Bet) BY <2>1 DEF Shrinks
    <3>2. call' \in [Callers -> Frames] BY <1>1, <2>3, FrameKinds
    <3> QED BY <1>1, <1>2, <3>1, <3>2 DEF Typed
  <2> QED BY <2>1, <2>2, <2>4, <2>5 DEF BetInv
<1>5. UNCHANGED bets \/ Rowed(c)
  <2>1. CASE RecordClosing(c)
    <3>1. f.pc = "close" BY <2>1 DEF RecordClosing
    <3>2. f \in Closings /\ f.bet \in DOMAIN bets BY <1>1, <3>1, FrameKinds DEF Holds
    <3> QED BY <2>1, <3>2 DEF RecordClosing, Rowed
  <2>2. CASE RecordSettlement(c)
    <3>1. f.pc = "settle" BY <2>2 DEF RecordSettlement
    <3>2. f \in Settlings /\ f.bet \in DOMAIN bets BY <1>1, <3>1, FrameKinds DEF Holds
    <3> QED BY <2>2, <3>2 DEF RecordSettlement, Rowed
  <2> QED BY <2>1, <2>2
<1> QED BY <1>3, <1>4, <1>5

\* One caller places bets; any number close and settle them.
OnePlacer == \A c, d \in Placers : c = d

\* The bet that is inserted keeps the rules, and nobody else relies on sums it
\* changes.
LEMMA InsertStep ==
    ASSUME OnePlacer, BetInv, NEW c \in Callers, Insert(c)
    PROVE  BetInv'
<1> DEFINE f == call[c]
           r == Placed(f, week)
<1>1. /\ f \in Frames /\ Holds(c, f, bets, week) /\ week \in 1 .. MaxWeek
      /\ call \in [Callers -> Frames] /\ bets \in Seq(Bet) /\ OpenIsUnsettled(bets)
      /\ Exposed(bets) /\ Distinct(bets) /\ Flagged(bets)
    BY DEF BetInv, Typed
<1>2. /\ f.pc = "insert" /\ week' = week /\ bets' = Append(bets, r)
      /\ call' = [call EXCEPT ![c] = Idle]
    BY DEF Insert, Answer, Goto, Placed
<1>3. f \in Placings /\ c \in Placers /\ Found(f, bets, week)
    BY <1>1, <1>2, FrameKinds
       DEF Holds, PastDuplicate, PastWeekly, PastPlayer, PastLimits, ToInsert
<1>4. r \in Bet /\ Exposed(bets') /\ Distinct(bets') /\ Flagged(bets')
    BY <1>1, <1>2, <1>3, InsertedRules
<1>5. r.settlement = None /\ r.status = "ACTIVE" BY DEF Placed
<1> HIDE DEF r
<1>6. Inserted(bets, r, bets', Len(bets) + 1) BY <1>1, <1>2, <1>4, <1>5, InsertedTable
<1>7. OpenIsUnsettled(bets')
  <2> DEFINE k == Len(bets) + 1
  <2>1. /\ OpenIn(bets') = OpenIn(bets) \cup {k} /\ bets'[k] = r
        /\ \A n \in DOMAIN bets : bets'[n] = bets[n]
      BY <1>6 DEF Inserted
  <2> HIDE DEF k
  <2>2. \A n \in OpenIn(bets) : n \in DOMAIN bets BY DEF OpenIn
  <2> QED BY <1>1, <1>5, <2>1, <2>2 DEF OpenIsUnsettled, Unsettled
<1>8. ASSUME NEW d \in Callers PROVE Holds(d, call'[d], bets', week')
  <2>1. CASE d = c BY <1>1, <1>2, <2>1, FrameKinds
  <2>2. CASE d # c
    <3>1. call'[d] = call[d] /\ Holds(d, call[d], bets, week)
        BY <1>1, <1>2, <2>2 DEF BetInv
    <3>2. call[d] \notin Placings BY <1>3, <2>2, <3>1 DEF Holds, OnePlacer
    <3>3. DOMAIN bets \subseteq DOMAIN bets' BY <1>6 DEF Inserted
    <3> QED BY <3>1, <3>2, <3>3 DEF Holds
  <2> QED BY <2>1, <2>2
<1>9. Typed'
  <2>1. bets' \in Seq(Bet) BY <1>6 DEF Inserted
  <2>2. call' \in [Callers -> Frames] BY <1>1, <1>2, FrameKinds
  <2> QED BY <1>1, <1>2, <2>1, <2>2 DEF Typed
<1> QED BY <1>4, <1>7, <1>8, <1>9 DEF BetInv

\* A week that begins.
LEMMA WeekStep ==
    ASSUME BetInv, NextWeek
    PROVE  BetInv'
<1>1. /\ bets' = bets /\ call' = call /\ week' = week + 1 /\ week < MaxWeek
      /\ week \in 1 .. MaxWeek
    BY DEF NextWeek, BetInv, Typed
<1>2. week \in Nat /\ week' \in 1 .. MaxWeek BY <1>1, LimitsAssumption
<1>3. Typed' BY <1>1, <1>2 DEF BetInv, Typed
<1>4. ASSUME NEW c \in Callers PROVE Holds(c, call'[c], bets', week')
  <2>1. Holds(c, call[c], bets, week) BY DEF BetInv
  <2>2. call[c] \in Placings => Found(call[c], bets, week + 1)
      BY <1>2, <2>1, LaterFound DEF Holds
  <2> QED BY <1>1, <2>1, <2>2 DEF Holds
<1>5. /\ OpenIsUnsettled(bets') /\ Exposed(bets') /\ Distinct(bets') /\ Flagged(bets')
    BY <1>1 DEF BetInv
<1> QED BY <1>3, <1>4, <1>5 DEF BetInv

\* The invariant is inductive: every statement of every endpoint keeps it.
LEMMA BetStep ==
    ASSUME OnePlacer, BetInv, [Next]_vars
    PROVE  BetInv'
<1>1. CASE NextWeek BY <1>1, WeekStep
<1>2. ASSUME NEW c \in Callers, CallStep(c) PROVE BetInv'
    BY <1>2, PlacingSteps, InsertStep, WritingSteps DEF CallStep
<1>3. ASSUME NEW c \in Callers,
             \/ \E rec \in Recommendations \cup {None}, stake \in Stakes \cup {None} :
                   c \in Placers /\ Create(c, rec, stake)
             \/ \E n \in 1 .. MaxBets, closing \in ClosingLines : Close(c, n, closing)
             \/ \E n \in 1 .. MaxBets, outcome \in Outcomes, at \in SettledTimes :
                   Settle(c, n, outcome, at)
      PROVE  BetInv'
    BY <1>3, BeginningSteps
<1>4. CASE UNCHANGED vars
  <2>1. bets' = bets /\ week' = week /\ call' = call BY <1>4 DEF vars
  <2> QED BY <2>1 DEF BetInv, Typed
<1> QED BY <1>1, <1>2, <1>3, <1>4 DEF Next

-----------------------------------------------------------------------------
(* The theorems                                                             *)

\* Nothing is staked on no bets.
LEMMA TotalEmpty == Total(<<>>, {}) = 0
<1> DEFINE b == <<>>
<1>1. Counted(b, 0) BY DEF Counted
<1> HIDE DEF b
<1>2. Total(b, {}) = 0 BY <1>1, TotalAdds
<1> QED BY <1>2 DEF b

\* There are no bets at first.
LEMMA BetInit ==
    ASSUME Init
    PROVE  BetInv
<1>1. bets = <<>> /\ week = 1 /\ call = [c \in Callers |-> Idle] BY DEF Init
<1>2. bets \in Seq(Bet) /\ DOMAIN bets = {} BY <1>1
<1>3. OpenIn(bets) = {} /\ \A w : WeekIn(bets, w) = {} BY <1>2 DEF OpenIn, WeekIn
<1>4. Typed BY <1>1, <1>2, FrameKinds, LimitsAssumption DEF Typed
<1>5. Total(bets, {}) <= MaxWeekly
  <2>1. Total(bets, {}) = 0 BY <1>1, TotalEmpty
  <2> QED BY <2>1, LimitsAssumption
<1>6. Exposed(bets) /\ Distinct(bets) /\ Flagged(bets) /\ OpenIsUnsettled(bets)
    BY <1>2, <1>3, <1>5 DEF Exposed, Distinct, Flagged, OpenIsUnsettled
<1>7. \A c \in Callers : Holds(c, call[c], bets, week) BY <1>1, FrameKinds
<1> QED BY <1>4, <1>6, <1>7 DEF BetInv

\* The invariant holds of the bets, in the terms of the property.
LEMMA RulesHold ==
    ASSUME BetInv
    PROVE  OpenBetsWithinRules
<1>1. Exposed(bets) /\ Distinct(bets) /\ Flagged(bets) BY DEF BetInv
<1>2. Open = OpenIn(bets) BY DEF Open, Settled, OpenIn
<1>3. \A n \in DOMAIN bets : bets[n].stake <= MaxSingle BY <1>1 DEF Exposed
<1>4. ASSUME NEW w \in 1 .. MaxWeek
      PROVE  StakeOf({n \in DOMAIN bets : bets[n].week = w}) <= MaxWeekly
  <2> DEFINE S == {n \in DOMAIN bets : bets[n].week = w}
  <2>1. Total(bets, S) <= MaxWeekly BY <1>1 DEF Exposed, WeekIn
  <2> HIDE DEF S
  <2>2. StakeOf(S) <= MaxWeekly BY <2>1, StakeOfIsTotal
  <2> QED BY <2>2 DEF S
<1>5. ASSUME NEW n \in Open
      PROVE  /\ StakeOf({m \in Open : Line(bets[m]).player = Line(bets[n]).player}) <= MaxPlayer
             /\ StakeOf({m \in Open : Line(bets[m]).event = Line(bets[n]).event}) <= MaxEvent
  <2> DEFINE S == {m \in Open : Line(bets[m]).player = Line(bets[n]).player}
             T == {m \in Open : Line(bets[m]).event = Line(bets[n]).event}
  <2>1. S = PlayerIn(bets, Line(bets[n])) /\ T = EventIn(bets, Line(bets[n]))
      BY <1>2 DEF PlayerIn, EventIn
  <2> HIDE DEF S, T
  <2>2. Total(bets, S) <= MaxPlayer /\ Total(bets, T) <= MaxEvent
      BY <1>1, <1>2, <2>1 DEF Exposed
  <2>3. StakeOf(S) <= MaxPlayer /\ StakeOf(T) <= MaxEvent BY <2>2, StakeOfIsTotal
  <2> QED BY <2>3 DEF S, T
<1>6. ExposureWithinLimits BY <1>3, <1>4, <1>5 DEF ExposureWithinLimits
<1>7. OneUnsettledBet BY <1>1, <1>2 DEF OneUnsettledBet, Distinct
<1>8. CorrelationFlagged BY <1>1, <1>2 DEF CorrelationFlagged, Flagged
<1> QED BY <1>6, <1>7, <1>8 DEF OpenBetsWithinRules

\* With one caller placing, open bets stay within every limit, no contract has two of
\* them, and those that share a player or an event are flagged, whatever is closed or
\* settled between the checks of create_paper_bet and its insert.
THEOREM OpenBetsStayWithinRules == OnePlacer => (Spec => []OpenBetsWithinRules)
<1>1. SUFFICES ASSUME OnePlacer PROVE Spec => []OpenBetsWithinRules OBVIOUS
<1>2. Init => BetInv BY BetInit
<1>3. BetInv /\ [Next]_vars => BetInv' BY <1>1, BetStep
<1>4. BetInv => OpenBetsWithinRules BY RulesHold
<1> QED BY <1>2, <1>3, <1>4, PTL DEF Spec

-----------------------------------------------------------------------------
(* What holds however many callers place bets                               *)

\* A bet that is being closed or settled is in the table.
Targeted(f, b) == f \in Closings \cup Settlings => f.bet \in DOMAIN b

\* Types, and the bets that calls are about.
TypeInv == Typed /\ \A c \in Callers : Targeted(call[c], bets)

\* What a step may do to the table: one more bet, or a row for a bet that has none
\* of its kind.
Recorded ==
    \/ UNCHANGED bets
    \/ \E r \in Bet : bets' = Append(bets, r)
    \/ \E c \in Callers :
          /\ Rowed(c)
          /\ call[c] \in Closings => bets[call[c].bet].closing = None
          /\ call[c] \in Settlings => bets[call[c].bet].settlement = None

\* The frames of calls that place a bet are about none in the table.
LEMMA Untargeted ==
    /\ \A b : Targeted(Idle, b)
    /\ \A g \in Placings : \A b : Targeted(g, b)
<1>1. \A g \in Closings \cup Settlings : g.pc \in {"close", "settle"} BY DEF Closings, Settlings
<1>2. \A g \in Placings : g.pc \notin {"close", "settle"}
    BY DEF Placings, PastDuplicate, PastWeekly, PastPlayer, PastLimits, ToInsert
<1>3. Idle.pc = "idle" BY DEF Idle
<1> QED BY <1>1, <1>2, <1>3 DEF Targeted

\* A step moves one call to a frame of its kind, beside the same table or one that
\* has a bet or a row more.
LEMMA CallTypes ==
    ASSUME TypeInv, NEW c \in Callers, NEW f \in Frames, Targeted(f, bets'), Goto(c, f),
           week' \in 1 .. MaxWeek, bets' \in Seq(Bet), DOMAIN bets \subseteq DOMAIN bets'
    PROVE  TypeInv'
<1>1. call' = [call EXCEPT ![c] = f] /\ call \in [Callers -> Frames] BY DEF Goto, TypeInv, Typed
<1>2. Typed' BY <1>1 DEF Typed
<1>3. ASSUME NEW d \in Callers PROVE Targeted(call'[d], bets')
  <2>1. CASE d = c BY <1>1, <2>1
  <2>2. CASE d # c
    <3>1. call'[d] = call[d] /\ Targeted(call[d], bets) BY <1>1, <2>2 DEF TypeInv
    <3> QED BY <3>1 DEF Targeted
  <2> QED BY <2>1, <2>2
<1> QED BY <1>2, <1>3 DEF TypeInv

\* Every step of a call keeps the types, whoever else places bets.
LEMMA CallStepTypes ==
    ASSUME TypeInv, NEW c \in Callers, CallStep(c)
    PROVE  TypeInv' /\ Recorded
<1> DEFINE f == call[c]
<1>1. /\ bets \in Seq(Bet) /\ week \in 1 .. MaxWeek /\ f \in Frames /\ Targeted(f, bets)
      /\ Len(bets) \in Nat /\ Counted(bets, Len(bets)) /\ DOMAIN bets = 1 .. Len(bets)
    BY TableTypes DEF TypeInv, Typed
<1>2. \A S \in SUBSET (1 .. Len(bets)) : Total(bets, S) \in Nat BY <1>1, TotalAdds
<1>3. f.pc \in {"duplicate"} \cup PastDuplicate => f \in Placings BY <1>1, FrameKinds
<1>4. ASSUME NEW g \in Placings, UNCHANGED <<bets, week>>, Goto(c, g) PROVE TypeInv' /\ Recorded
    BY <1>1, <1>4, Untargeted, CallTypes DEF Frames, Recorded
<1>5. ASSUME UNCHANGED <<bets, week>>, Answer(c, "refused") PROVE TypeInv' /\ Recorded
    BY <1>1, <1>5, Untargeted, CallTypes, FrameKinds DEF Answer, Recorded
<1> HIDE DEF f
<1>6. CASE CheckDuplicate(c)
  <2> DEFINE g == [f EXCEPT !.pc = "weekly", !.since = week]
  <2>1. f \in Placings BY <1>3, <1>6 DEF CheckDuplicate, f
  <2>2. g \in Placings BY <1>1, <2>1 DEF Placings, PastDuplicate
  <2>3. /\ UNCHANGED <<bets, week>>
        /\ Goto(c, g) \/ Answer(c, "refused")
      BY <1>6 DEF CheckDuplicate, Answer, f
  <2> HIDE DEF g
  <2> QED BY <1>4, <1>5, <2>2, <2>3
<1>7. CASE ReadWeekly(c)
  <2> DEFINE S == {n \in DOMAIN bets : bets[n].week >= f.since}
             g == [f EXCEPT !.pc = "player", !.weekly = Total(bets, S)]
  <2>1. f \in Placings BY <1>3, <1>7 DEF ReadWeekly, f, PastDuplicate
  <2>2. Total(bets, S) \in Nat BY <1>1, <1>2
  <2>3. UNCHANGED <<bets, week>> /\ Goto(c, [f EXCEPT !.pc = "player", !.weekly = StakeOf(S)])
      BY <1>7 DEF ReadWeekly, f
  <2> HIDE DEF S
  <2>4. Goto(c, g) BY <2>3, StakeOfIsTotal
  <2>5. g \in Placings BY <2>1, <2>2 DEF Placings, PastDuplicate, PastWeekly
  <2> HIDE DEF g
  <2> QED BY <1>4, <2>3, <2>4, <2>5
<1>8. CASE ReadPlayer(c)
  <2> DEFINE S == OnPlayer(Wanted(c))
             g == [f EXCEPT !.pc = "event", !.player = Total(bets, S)]
  <2>1. f \in Placings BY <1>3, <1>8 DEF ReadPlayer, f, PastDuplicate, PastWeekly
  <2>2. S \in SUBSET (1 .. Len(bets)) BY <1>1 DEF OnPlayer, UnsettledBets
  <2>3. UNCHANGED <<bets, week>> /\ Goto(c, [f EXCEPT !.pc = "event", !.player = StakeOf(S)])
      BY <1>8 DEF ReadPlayer, f
  <2> HIDE DEF S
  <2>4. Total(bets, S) \in Nat BY <1>2, <2>2
  <2>5. Goto(c, g) BY <2>3, StakeOfIsTotal
  <2>6. g \in Placings BY <2>1, <2>4 DEF Placings, PastDuplicate, PastWeekly, PastPlayer
  <2> HIDE DEF g
  <2> QED BY <1>4, <2>3, <2>5, <2>6
<1>9. CASE ReadEvent(c)
  <2> DEFINE g == [f EXCEPT !.pc = "correlation"]
  <2>1. f \in Placings BY <1>3, <1>9 DEF ReadEvent, f, PastDuplicate, PastWeekly, PastPlayer
  <2>2. g \in Placings
      BY <2>1 DEF Placings, PastDuplicate, PastWeekly, PastPlayer, PastLimits
  <2>3. /\ UNCHANGED <<bets, week>>
        /\ Goto(c, g) \/ Answer(c, "refused")
      BY <1>9 DEF ReadEvent, Answer, f
  <2> HIDE DEF g
  <2> QED BY <1>4, <1>5, <2>2, <2>3
<1>10. CASE ReadActive(c)
  <2> DEFINE flags == (IF OnPlayer(Wanted(c)) = {} THEN {} ELSE {"SAME_PLAYER"})
                      \cup (IF OnEvent(Wanted(c)) = {} THEN {} ELSE {"SAME_EVENT"})
             g == [f EXCEPT !.pc = "insert", !.flags = flags]
  <2>1. f \in Placings
      BY <1>3, <1>10 DEF ReadActive, f, PastDuplicate, PastWeekly, PastPlayer, PastLimits
  <2>2. UNCHANGED <<bets, week>> /\ Goto(c, g) BY <1>10 DEF ReadActive, f
  <2>3. flags \in Flags BY DEF Flags
  <2> HIDE DEF flags
  <2>4. g \in Placings
      BY <2>1, <2>3 DEF Placings, PastDuplicate, PastWeekly, PastPlayer, PastLimits, ToInsert
  <2> HIDE DEF g
  <2> QED BY <1>4, <2>2, <2>4
<1>11. CASE Insert(c)
  <2> DEFINE r == Placed(f, week)
  <2>1. f \in Placings
      BY <1>3, <1>11
         DEF Insert, f, PastDuplicate, PastWeekly, PastPlayer, PastLimits, ToInsert
  <2>2. r \in Bet BY <1>1, <2>1 DEF Placings, Placed, Bet
  <2>3. bets' = Append(bets, r) /\ week' = week /\ Goto(c, Idle)
      BY <1>11 DEF Insert, Answer, Placed, f
  <2> HIDE DEF r
  <2>4. bets' \in Seq(Bet) /\ DOMAIN bets \subseteq DOMAIN bets'
    <3>1. bets' \in Seq(Bet) /\ Len(bets') = Len(bets) + 1 BY <1>1, <2>2, <2>3
    <3>2. DOMAIN bets' = 1 .. (Len(bets) + 1) BY <3>1
    <3> QED BY <1>1, <3>1, <3>2
  <2>5. TypeInv' BY <1>1, <2>3, <2>4, Untargeted, FrameKinds, CallTypes
  <2> QED BY <2>2, <2>3, <2>5 DEF Recorded
<1>12. CASE RecordClosing(c) \/ RecordSettlement(c)
  <2>1. week' = week /\ Answer(c, "refused")
      BY <1>12 DEF RecordClosing, RecordSettlement, Answer
  <2>2. CASE UNCHANGED bets BY <1>5, <2>1, <2>2
  <2>3. CASE /\ Rowed(c)
             /\ call[c] \in Closings => bets[call[c].bet].closing = None
             /\ call[c] \in Settlings => bets[call[c].bet].settlement = None
    <3>1. Shrinks(bets, bets') BY <2>3, RowedTable DEF TypeInv
    <3>2. bets' \in Seq(Bet) /\ DOMAIN bets' = DOMAIN bets BY <3>1, ShrunkTables DEF Shrinks
    <3>3. TypeInv' BY <1>1, <2>1, <3>2, Untargeted, FrameKinds, CallTypes DEF Answer
    <3> QED BY <2>3, <3>3 DEF Recorded
  <2>4. CASE RecordClosing(c)
    <3>1. f.pc = "close" BY <2>4 DEF RecordClosing, f
    <3>2. f \in Closings /\ f.bet \in DOMAIN bets BY <1>1, <3>1, FrameKinds DEF Targeted
    <3>3. call[c] \in Closings /\ call[c] \notin Settlings /\ call[c].bet \in DOMAIN bets
        BY <3>1, <3>2 DEF f, Settlings
    <3>4. UNCHANGED bets \/ (Rowed(c) /\ bets[call[c].bet].closing = None)
        BY <2>4, <3>3 DEF RecordClosing, Rowed
    <3> QED BY <2>2, <2>3, <3>3, <3>4
  <2>5. CASE RecordSettlement(c)
    <3>1. f.pc = "settle" BY <2>5 DEF RecordSettlement, f
    <3>2. f \in Settlings /\ f.bet \in DOMAIN bets BY <1>1, <3>1, FrameKinds DEF Targeted
    <3>3. call[c] \in Settlings /\ call[c] \notin Closings /\ call[c].bet \in DOMAIN bets
        BY <3>1, <3>2 DEF f, Closings
    <3>4. UNCHANGED bets \/ (Rowed(c) /\ bets[call[c].bet].settlement = None)
        BY <2>5, <3>3 DEF RecordSettlement, Rowed
    <3> QED BY <2>2, <2>3, <3>3, <3>4
  <2> QED BY <1>12, <2>4, <2>5
<1> QED BY <1>6, <1>7, <1>8, <1>9, <1>10, <1>11, <1>12 DEF CallStep

\* A call that begins is about a bet in the table, or about none.
LEMMA BeginningTypes ==
    ASSUME TypeInv, NEW c \in Callers,
           \/ \E rec \in Recommendations \cup {None}, stake \in Stakes \cup {None} :
                 c \in Placers /\ Create(c, rec, stake)
           \/ \E n \in 1 .. MaxBets, closing \in ClosingLines : Close(c, n, closing)
           \/ \E n \in 1 .. MaxBets, outcome \in Outcomes, at \in SettledTimes :
                 Settle(c, n, outcome, at)
    PROVE  TypeInv' /\ UNCHANGED bets
<1>1. bets \in Seq(Bet) /\ DOMAIN bets \subseteq Nat /\ week \in 1 .. MaxWeek
    BY TableTypes DEF TypeInv, Typed
<1>2. ASSUME NEW f \in Frames, Targeted(f, bets), UNCHANGED <<bets, week>>, Goto(c, f)
      PROVE  TypeInv' /\ UNCHANGED bets
    BY <1>1, <1>2, CallTypes
<1>3. ASSUME UNCHANGED <<bets, week>>, Answer(c, "refused") PROVE TypeInv' /\ UNCHANGED bets
    BY <1>2, <1>3, Untargeted, FrameKinds DEF Answer
<1>4. CASE \E rec \in Recommendations \cup {None}, stake \in Stakes \cup {None} :
              c \in Placers /\ Create(c, rec, stake)
  <2>1. PICK rec \in Recommendations \cup {None}, stake \in Stakes \cup {None} :
           c \in Placers /\ Create(c, rec, stake)
      BY <1>4
  <2> DEFINE amount == IF stake = None THEN DefaultUnit ELSE stake
             g == [pc |-> "duplicate", rec |-> rec, since |-> None, stake |-> amount,
                   weekly |-> 0, player |-> 0, flags |-> {}]
  <2>1a. UNCHANGED <<bets, week>> BY <2>1 DEF Create
  <2>2. CASE Answer(c, "refused") BY <1>3, <2>1a, <2>2
  <2>3. CASE rec # None /\ Goto(c, g)
    <3>1. amount \in Amounts BY DEF Amounts
    <3> HIDE DEF amount
    <3>2. g \in Placings BY <2>3, <3>1 DEF Placings, Flags
    <3> HIDE DEF g
    <3> QED BY <1>2, <2>1a, <2>3, <3>2, Untargeted DEF Frames
  <2> QED BY <2>1, <2>2, <2>3 DEF Create, Answer
<1>5. CASE \E n \in 1 .. MaxBets, closing \in ClosingLines : Close(c, n, closing)
  <2>1. PICK n \in 1 .. MaxBets, closing \in ClosingLines : Close(c, n, closing) BY <1>5
  <2> DEFINE g == [pc |-> "close", bet |-> n, closing |-> closing]
  <2>2. UNCHANGED <<bets, week>> BY <2>1 DEF Close
  <2>3. CASE Answer(c, "refused") BY <1>3, <2>2, <2>3
  <2>4. CASE n \in DOMAIN bets /\ Goto(c, g)
    <3>1. g \in Closings /\ g.bet = n BY <1>1, <2>4 DEF Closings
    <3> HIDE DEF g
    <3> QED BY <1>2, <2>2, <2>4, <3>1 DEF Frames, Targeted
  <2> QED BY <2>1, <2>3, <2>4 DEF Close, Answer
<1>6. CASE \E n \in 1 .. MaxBets, outcome \in Outcomes, at \in SettledTimes :
              Settle(c, n, outcome, at)
  <2>1. PICK n \in 1 .. MaxBets, outcome \in Outcomes, at \in SettledTimes :
           Settle(c, n, outcome, at)
      BY <1>6
  <2> DEFINE g == [pc |-> "settle", bet |-> n, outcome |-> outcome, at |-> at]
  <2>2. UNCHANGED <<bets, week>> BY <2>1 DEF Settle
  <2>3. CASE Answer(c, "refused") BY <1>3, <2>2, <2>3
  <2>4. CASE n \in DOMAIN bets /\ Goto(c, g)
    <3>1. g \in Settlings /\ g.bet = n BY <1>1, <2>4 DEF Settlings
    <3> HIDE DEF g
    <3> QED BY <1>2, <2>2, <2>4, <3>1 DEF Frames, Targeted
  <2> QED BY <2>1, <2>3, <2>4 DEF Settle, Answer
<1> QED BY <1>4, <1>5, <1>6

\* The types hold whoever places bets, and a step leaves the table, or has one bet or
\* one row more in it.
LEMMA TypeStep ==
    ASSUME TypeInv, [Next]_vars
    PROVE  TypeInv' /\ Recorded
<1>1. CASE NextWeek
  <2>1. /\ bets' = bets /\ call' = call /\ week' = week + 1 /\ week < MaxWeek
        /\ week \in 1 .. MaxWeek
      BY <1>1 DEF NextWeek, TypeInv, Typed
  <2>2. week' \in 1 .. MaxWeek BY <2>1, LimitsAssumption
  <2> QED BY <2>1, <2>2 DEF TypeInv, Typed, Recorded
<1>2. ASSUME NEW c \in Callers, CallStep(c) PROVE TypeInv' /\ Recorded
    BY <1>2, CallStepTypes
<1>3. ASSUME NEW c \in Callers,
             \/ \E rec \in Recommendations \cup {None}, stake \in Stakes \cup {None} :
                   c \in Placers /\ Create(c, rec, stake)
             \/ \E n \in 1 .. MaxBets, closing \in ClosingLines : Close(c, n, closing)
             \/ \E n \in 1 .. MaxBets, outcome \in Outcomes, at \in SettledTimes :
                   Settle(c, n, outcome, at)
      PROVE  TypeInv' /\ Recorded
    BY <1>3, BeginningTypes DEF Recorded
<1>4. CASE UNCHANGED vars
  <2>1. bets' = bets /\ week' = week /\ call' = call BY <1>4 DEF vars
  <2> QED BY <2>1 DEF TypeInv, Typed, Recorded
<1> QED BY <1>1, <1>2, <1>3, <1>4 DEF Next

\* The closing line and the settlement a bet has are there after a step.
LEMMA RecordedKept ==
    ASSUME TypeInv, Recorded, NEW n \in DOMAIN bets
    PROVE  /\ bets[n].closing # None => bets'[n].closing = bets[n].closing
           /\ bets[n].settlement # None => bets'[n].settlement = bets[n].settlement
<1>1. /\ bets \in Seq(Bet) /\ DOMAIN bets = 1 .. Len(bets) /\ Len(bets) \in Nat
      /\ bets[n] \in Bet
    BY TableTypes DEF TypeInv, Typed
<1>2. CASE UNCHANGED bets BY <1>2
<1>3. CASE \E r \in Bet : bets' = Append(bets, r)
  <2>1. bets'[n] = bets[n] BY <1>1, <1>3
  <2> QED BY <2>1
<1>4. ASSUME NEW c \in Callers, Rowed(c),
             call[c] \in Closings => bets[call[c].bet].closing = None,
             call[c] \in Settlings => bets[call[c].bet].settlement = None
      PROVE  /\ bets[n].closing # None => bets'[n].closing = bets[n].closing
             /\ bets[n].settlement # None => bets'[n].settlement = bets[n].settlement
  <2> DEFINE m == call[c].bet
  <2>1. CASE n # m
    <3>1. bets'[n] = bets[n] BY <1>1, <1>4, <2>1 DEF Rowed
    <3> QED BY <3>1
  <2>2. CASE n = m /\ call[c] \in Closings
    <3>1. call[c] \notin Settlings
      <4>1. call[c].pc = "close" BY <2>2 DEF Closings
      <4> QED BY <4>1 DEF Settlings
    <3>2. PICK row : bets' = [bets EXCEPT ![m].status = "CLOSED", ![m].closing = row]
        BY <1>4, <3>1 DEF Rowed
    <3>3. bets' = [bets EXCEPT ![n] = [bets[n] EXCEPT !.status = "CLOSED", !.closing = row]]
        BY <2>2, <3>2
    <3>4. bets'[n] = [bets[n] EXCEPT !.status = "CLOSED", !.closing = row] BY <1>1, <3>3
    <3>5. bets'[n].settlement = bets[n].settlement BY <1>1, <3>4 DEF Bet
    <3> QED BY <1>4, <2>2, <3>5
  <2>3. CASE n = m /\ call[c] \in Settlings
    <3>1. call[c] \notin Closings
      <4>1. call[c].pc = "settle" BY <2>3 DEF Settlings
      <4> QED BY <4>1 DEF Closings
    <3>2. PICK row : bets' = [bets EXCEPT ![m].status = "SETTLED", ![m].settlement = row]
        BY <1>4, <3>1 DEF Rowed
    <3>3. bets' = [bets EXCEPT ![n] = [bets[n] EXCEPT !.status = "SETTLED", !.settlement = row]]
        BY <2>3, <3>2
    <3>4. bets'[n] = [bets[n] EXCEPT !.status = "SETTLED", !.settlement = row] BY <1>1, <3>3
    <3>5. bets'[n].closing = bets[n].closing BY <1>1, <3>4 DEF Bet
    <3> QED BY <1>4, <2>3, <3>5
  <2> QED BY <1>4, <2>1, <2>2, <2>3 DEF Rowed
<1> QED BY <1>2, <1>3, <1>4 DEF Recorded

\* Nobody is about a bet at first.
LEMMA TypeInit ==
    ASSUME Init
    PROVE  TypeInv
<1>1. Typed BY BetInit DEF BetInv
<1>2. call = [c \in Callers |-> Idle] BY DEF Init
<1>3. \A c \in Callers : call[c] = Idle BY <1>2
<1> QED BY <1>1, <1>3, Untargeted DEF TypeInv

\* However many callers place, close and settle bets, the first closing line of a bet
\* and its first settlement stay as they are (close_paper_bet, settle_paper_bet).
THEOREM FirstRecordsStay == Spec => FirstRecordStays
<1> DEFINE Kept == \A n \in DOMAIN bets :
              /\ bets[n].closing # None => bets'[n].closing = bets[n].closing
              /\ bets[n].settlement # None => bets'[n].settlement = bets[n].settlement
<1>1. Init => TypeInv BY TypeInit
<1>2. TypeInv /\ [Next]_vars => TypeInv' BY TypeStep
<1>3. TypeInv /\ [Next]_vars => Kept BY TypeStep, RecordedKept
<1>4. TypeInv /\ [Next]_vars => [Kept]_vars BY <1>3
<1>5. Spec => [][Kept]_vars
  <2> HIDE DEF Kept
  <2> QED BY <1>1, <1>2, <1>4, PTL DEF Spec
<1> QED BY <1>5 DEF FirstRecordStays

-----------------------------------------------------------------------------
(* Recommendations: fractions and the order of offers                       *)

\* An amount that is larger is larger so many times.
LEMMA TimesPositive ==
    ASSUME NEW p \in Int, NEW q \in Int, NEW k \in Nat \ {0}
    PROVE  p > q <=> p * k > q * k
<1>1. CASE p > q
  <2>1. PICK d \in Nat : d >= 1 /\ p = q + d
    <3>1. p - q \in Nat /\ p - q >= 1 /\ p = q + (p - q) BY <1>1
    <3> QED BY <3>1
  <2>2. p * k = q * k + d * k BY <2>1
  <2>3. d * k >= 1 BY <2>1
  <2> QED BY <1>1, <2>2, <2>3
<1>2. CASE ~(p > q)
  <2>1. PICK d \in Nat : q = p + d
    <3>1. q - p \in Nat /\ q = p + (q - p) BY <1>2
    <3> QED BY <3>1
  <2>2. q * k = p * k + d * k BY <2>1
  <2>3. d * k >= 0 BY <2>1
  <2> QED BY <1>2, <2>2, <2>3
<1> QED BY <1>1, <1>2

\* What is above a fraction is above every one that is not above it.
LEMMA CrossProducts ==
    ASSUME NEW a \in Int, NEW b \in Nat \ {0}, NEW c \in Int, NEW d \in Nat \ {0},
           NEW e \in Int, NEW f \in Nat \ {0}, a * d > c * b, ~(e * d > c * f)
    PROVE  a * f > e * b
<1>1. (a * d) * f > (c * b) * f
  <2>1. a * d \in Int /\ c * b \in Int OBVIOUS
  <2> QED BY <2>1, TimesPositive
<1>2. ~((e * d) * b > (c * f) * b)
  <2>1. e * d \in Int /\ c * f \in Int OBVIOUS
  <2> QED BY <2>1, TimesPositive
<1>3. (a * d) * f = (a * f) * d /\ (c * b) * f = (c * f) * b /\ (e * d) * b = (e * b) * d
    OBVIOUS
<1>4. (a * f) * d > (e * b) * d
  <2>1. /\ (a * f) * d \in Int /\ (e * b) * d \in Int /\ (c * f) * b \in Int OBVIOUS
  <2> QED BY <1>1, <1>2, <1>3, <2>1
<1>5. a * f \in Int /\ e * b \in Int OBVIOUS
<1> QED BY <1>4, <1>5, TimesPositive

Fraction == Int \X (Nat \ {0})

LEMMA AboveOrder ==
    ASSUME NEW x \in Fraction, NEW y \in Fraction, Rec!Above(x, y)
    PROVE  /\ ~Rec!Above(y, x)
           /\ \A z \in Fraction : ~Rec!Above(z, y) => Rec!Above(x, z)
<1>1. /\ x[1] \in Int /\ x[2] \in Nat \ {0} /\ y[1] \in Int /\ y[2] \in Nat \ {0}
      /\ x[1] * y[2] > y[1] * x[2]
    BY DEF Fraction, Rec!Above
<1>2. ~Rec!Above(y, x)
  <2>1. x[1] * y[2] \in Int /\ y[1] * x[2] \in Int BY <1>1
  <2> QED BY <1>1, <2>1 DEF Rec!Above
<1>3. ASSUME NEW z \in Fraction, ~Rec!Above(z, y) PROVE Rec!Above(x, z)
  <2>1. z[1] \in Int /\ z[2] \in Nat \ {0} /\ ~(z[1] * y[2] > y[1] * z[2])
      BY <1>3 DEF Fraction, Rec!Above
  <2>2. x[1] * z[2] > z[1] * x[2] BY <1>1, <2>1, CrossProducts
  <2> QED BY <2>2 DEF Rec!Above
<1> QED BY <1>2, <1>3

Sides == {"over", "under", "yes", "no"}

\* prop_lines of the contract.
StoredLine == [side : Sides, line : Int \cup {None}, odds : Int \ {0}, captured : Int]

LEMMA OddsFractions ==
    ASSUME NEW odds \in Int \ {0}
    PROVE  Rec!DecimalOdds(odds) \in Fraction
<1>1. CASE odds > 0
  <2>1. Rec!DecimalOdds(odds) = <<odds + 100, 100>> BY <1>1 DEF Rec!DecimalOdds
  <2> QED BY <2>1 DEF Fraction
<1>2. CASE ~(odds > 0)
  <2>1. Rec!DecimalOdds(odds) = <<100 - odds, -odds>> BY <1>2 DEF Rec!DecimalOdds
  <2>2. 100 - odds \in Int /\ -odds \in Nat \ {0} BY <1>2
  <2> QED BY <2>1, <2>2 DEF Fraction
<1> QED BY <1>1, <1>2

LEMMA BetterOrder ==
    ASSUME NEW x \in StoredLine, NEW y \in StoredLine, Rec!Better(x, y)
    PROVE  /\ ~Rec!Better(y, x)
           /\ \A z \in StoredLine : ~Rec!Better(z, y) => Rec!Better(x, z)
<1> DEFINE S(o) == Rec!LineScore(o)
           D(o) == Rec!DecimalOdds(o.odds)
<1>1. \A o \in StoredLine : S(o) \in Int BY DEF Rec!LineScore, StoredLine
<1>2. \A o \in StoredLine : D(o) \in Fraction BY OddsFractions DEF StoredLine
<1>3. \A o, p \in StoredLine :
         Rec!Better(o, p) <=> S(o) > S(p) \/ (S(o) = S(p) /\ Rec!Above(D(o), D(p)))
    BY DEF Rec!Better
<1> HIDE DEF S, D
<1>4. ~Rec!Better(y, x)
  <2>1. CASE S(x) > S(y) BY <1>1, <1>3, <2>1
  <2>2. CASE S(x) = S(y) /\ Rec!Above(D(x), D(y))
    <3>1. ~Rec!Above(D(y), D(x)) BY <1>2, <2>2, AboveOrder
    <3> QED BY <1>1, <1>3, <2>2, <3>1
  <2> QED BY <1>3, <2>1, <2>2
<1>5. ASSUME NEW z \in StoredLine, ~Rec!Better(z, y) PROVE Rec!Better(x, z)
  <2>1. ~(S(z) > S(y)) /\ (S(z) = S(y) => ~Rec!Above(D(z), D(y))) BY <1>3, <1>5
  <2>2. CASE S(x) > S(y)
    <3>1. S(x) > S(z) BY <1>1, <2>1, <2>2
    <3> QED BY <1>3, <3>1
  <2>3. CASE S(x) = S(y) /\ Rec!Above(D(x), D(y))
    <3>1. CASE S(z) = S(y)
      <4>1. Rec!Above(D(x), D(z)) BY <1>2, <2>1, <2>3, <3>1, AboveOrder
      <4> QED BY <1>3, <2>3, <3>1, <4>1
    <3>2. CASE S(z) # S(y)
      <4>1. S(x) > S(z) BY <1>1, <2>1, <2>3, <3>2
      <4> QED BY <1>3, <4>1
    <3> QED BY <3>1, <3>2
  <2> QED BY <1>3, <2>2, <2>3
<1> QED BY <1>4, <1>5

\* Among offers there is a best one, the first of the best.
LEMMA BestIsBest ==
    ASSUME NEW s \in Seq(StoredLine), NEW n \in 1 .. Len(s)
    PROVE  /\ Rec!BestLine(s) \in 1 .. Len(s)
           /\ \A m \in 1 .. Len(s) : ~Rec!Better(s[m], s[Rec!BestLine(s)])
<1> DEFINE N == Len(s)
           First(k, i) == /\ \A m \in 1 .. k : ~Rec!Better(s[m], s[i])
                          /\ \A m \in 1 .. i - 1 : Rec!Better(s[i], s[m])
           Good == {k \in 0 .. N : k = 0 \/ \E i \in 1 .. k : First(k, i)}
<1>1. N \in Nat /\ DOMAIN s = 1 .. N /\ \A i \in 1 .. N : s[i] \in StoredLine OBVIOUS
<1>2. \A x \in StoredLine : ~Rec!Better(x, x) BY BetterOrder
<1>3. 0 \in Good BY <1>1
<1>4. ASSUME NEW k \in 1 .. N, k - 1 \in Good PROVE k \in Good
  <2>1. CASE k = 1
    <3>1. First(1, 1) BY <1>1, <1>2, <2>1
    <3> QED BY <2>1, <3>1
  <2>2. CASE k # 1
    <3>0. k - 1 # 0 /\ k - 1 \in Nat /\ \A m \in 1 .. k : m \in 1 .. k - 1 \/ m = k BY <1>1, <2>2
    <3>1. PICK i \in 1 .. k - 1 : First(k - 1, i) BY <1>4, <3>0
    <3>2. i \in 1 .. N /\ k \in 1 .. N /\ \A m \in 1 .. k - 1 : m \in 1 .. N BY <1>1, <2>2
    <3>3. CASE Rec!Better(s[k], s[i])
      <4>1. \A m \in 1 .. k - 1 : Rec!Better(s[k], s[m])
          BY <1>1, <3>1, <3>2, <3>3, BetterOrder
      <4>2. \A m \in 1 .. k - 1 : ~Rec!Better(s[m], s[k]) BY <1>1, <3>2, <4>1, BetterOrder
      <4>3. ~Rec!Better(s[k], s[k]) BY <1>1, <1>2
      <4>4. First(k, k) BY <3>0, <4>1, <4>2, <4>3
      <4> QED BY <4>4
    <3>4. CASE ~Rec!Better(s[k], s[i])
      <4>1. First(k, i) BY <3>0, <3>1, <3>4
      <4>2. i \in 1 .. k BY <3>1
      <4> QED BY <4>1, <4>2
    <3> QED BY <3>3, <3>4
  <2> QED BY <2>1, <2>2
<1> HIDE DEF Good, N
<1>5. N \in Good
  <2>1. 0 .. N \subseteq Good BY <1>1, <1>3, <1>4, UpTo
  <2> QED BY <1>1, <2>1
<1>6. \E i \in 1 .. N : First(N, i) BY <1>1, <1>5 DEF Good
<1>7. Rec!BestLine(s) \in 1 .. N /\ First(N, Rec!BestLine(s))
  <2>1. Rec!BestLine(s) = CHOOSE i \in 1 .. N : First(N, i) BY <1>1 DEF Rec!BestLine
  <2> HIDE DEF First
  <2> QED BY <1>6, <2>1
<1> QED BY <1>7 DEF N

-----------------------------------------------------------------------------
(* Recommendations: ratings                                                 *)

\* What is below a threshold is so with less.
LEMMA BelowMonotone ==
    ASSUME NEW x \in Fraction, NEW y \in Fraction, NEW t \in Int,
           ~Rec!Above(y, x), Rec!Below(x, t)
    PROVE  Rec!Below(y, t)
<1> DEFINE T == <<t, 1>>
<1>1. T \in Fraction /\ T[1] = t /\ T[2] = 1 BY DEF Fraction
<1>2. /\ x[1] \in Int /\ x[2] \in Int /\ y[1] \in Int /\ y[2] \in Int
      /\ t * x[2] \in Int /\ t * y[2] \in Int
    BY DEF Fraction
<1>3. Rec!Above(T, x) BY <1>1, <1>2 DEF Rec!Above, Rec!Below
<1> HIDE DEF T
<1>4. Rec!Above(T, y) BY <1>1, <1>3, AboveOrder
<1> QED BY <1>1, <1>2, <1>4 DEF Rec!Above, Rec!Below

\* Of two decisions the one with no less return and confidence and no more age is no
\* lower: whatever keeps it from a rating keeps the other from it.
LEMMA DecisionsAreMonotone ==
    ASSUME NEW e \in Fraction, NEW f \in Fraction, ~Rec!Above(f, e),
           NEW c \in Fraction, NEW d \in Fraction, ~Rec!Above(d, c),
           NEW a \in Int, NEW b \in Int, a <= b
    PROVE  Rec!Rank[Rec!Decide(e, c, a).rating] >= Rec!Rank[Rec!Decide(f, d, b).rating]
<1>1. /\ {MinWatchEv, MinBetEv, MinWatchConfidence, MinBetConfidence} \subseteq Int
      /\ {Fresh, Stale} \subseteq Nat
    BY RecommendingAssumption DEF Rec!RecommendationAssumption, Rec!ThresholdAssumption
<1>2. Rec!Failures(e, c, a) \subseteq Rec!Failures(f, d, b)
    BY <1>1, BelowMonotone DEF Rec!Failures
<1>3. Rec!Borderline(e, c, a) \subseteq Rec!Borderline(f, d, b)
    BY <1>1, BelowMonotone DEF Rec!Borderline
<1>4. Rec!Rank["PASS"] = 0 /\ Rec!Rank["WATCH"] = 1 /\ Rec!Rank["BET"] = 2 BY DEF Rec!Rank
<1>5. CASE Rec!Failures(f, d, b) # {}
  <2>1. Rec!Decide(f, d, b).rating = "PASS" BY <1>5 DEF Rec!Decide
  <2>2. Rec!Decide(e, c, a).rating \in {"PASS", "WATCH", "BET"} BY DEF Rec!Decide
  <2> QED BY <1>4, <2>1, <2>2
<1>6. CASE Rec!Failures(f, d, b) = {} /\ Rec!Borderline(f, d, b) # {}
  <2>1. Rec!Decide(f, d, b).rating = "WATCH" BY <1>6 DEF Rec!Decide
  <2>2. Rec!Failures(e, c, a) = {} BY <1>2, <1>6
  <2>3. Rec!Decide(e, c, a).rating \in {"WATCH", "BET"} BY <2>2 DEF Rec!Decide
  <2> QED BY <1>4, <2>1, <2>3
<1>7. CASE Rec!Failures(f, d, b) = {} /\ Rec!Borderline(f, d, b) = {}
  <2>1. Rec!Decide(f, d, b).rating = "BET" BY <1>7 DEF Rec!Decide
  <2>2. Rec!Failures(e, c, a) = {} /\ Rec!Borderline(e, c, a) = {} BY <1>2, <1>3, <1>7
  <2>3. Rec!Decide(e, c, a).rating = "BET" BY <2>2 DEF Rec!Decide
  <2> QED BY <1>4, <2>1, <2>3
<1> QED BY <1>5, <1>6, <1>7

\* Every confidence is a fraction of what the weights come to.
LEMMA ConfidenceIsFraction ==
    ASSUME NEW c \in Confidences
    PROVE  Rec!OverallConfidence(c) \in Fraction
<1> DEFINE D == DOMAIN Weights
           g == [k \in D |-> Weights[k] * c[k]]
           R(h) == [s \in SUBSET D |-> IF s = {} THEN 0
                                       ELSE Weights[Taken(s)] * c[Taken(s)] + h[s \ {Taken(s)}]]
           iter == CHOOSE h : h = R(h)
<1>0. IsFiniteSet(D)
    BY RecommendingAssumption
    DEF Rec!RecommendationAssumption, Rec!WeightsAssumption, Rec!IsFiniteSet, IsFiniteSet
<1>1. /\ IsFiniteSet(D) /\ \A k \in D : Weights[k] \in Nat /\ c[k] \in Nat
      /\ \E k \in D : Weights[k] # 0
    BY <1>0, RecommendingAssumption DEF Rec!RecommendationAssumption, Rec!WeightsAssumption
<1>2. Rec!OverallConfidence(c) = <<iter[D], SumOver(Weights, D)>>
    BY DEF Rec!OverallConfidence, Rec!MapThenSumSet, Rec!MapThenFoldSet, SumOver, Taken
<1>3. NaturalOn(Weights, D) /\ NaturalOn(g, D) BY <1>1 DEF NaturalOn
<1>4. iter[D] \in Nat
  <2>1. \A s \in SUBSET D : s # {} => g[Taken(s)] = Weights[Taken(s)] * c[Taken(s)] BY DEF Taken
  <2>2. ASSUME NEW h PROVE h = R(h) <=> Summing(h, g, D)
    <3>1. R(h) = [s \in SUBSET D |-> IF s = {} THEN 0 ELSE g[Taken(s)] + h[s \ {Taken(s)}]]
        BY <2>1
    <3> QED BY <3>1 DEF Summing
  <2>3. PICK k : Summing(k, g, D)
    <3> HIDE DEF D, g
    <3> QED BY <1>1, <1>3, FoldIsSum
  <2>4. iter = R(iter)
    <3>1. k = R(k) BY <2>2, <2>3
    <3> HIDE DEF R
    <3> QED BY <3>1
  <2> HIDE DEF iter
  <2>5. Summing(iter, g, D) BY <2>2, <2>4
  <2> HIDE DEF g, D, R
  <2>6. iter[D] = TotalOf(g, D) BY <1>1, <1>3, <2>5, FoldIsSum
  <2>7. D \in SUBSET D OBVIOUS
  <2> QED BY <1>1, <1>3, <2>6, <2>7, SumAdds
<1>5. SumOver(Weights, D) \in Nat \ {0}
  <2> HIDE DEF D
  <2>1. SumOver(Weights, D) = TotalOf(Weights, D) BY <1>1, <1>3, SumOverIsTotal
  <2>2. PICK k \in D : Weights[k] # 0 BY <1>1
  <2>3. D \in SUBSET D /\ D \ {k} \in SUBSET D OBVIOUS
  <2>4. TotalOf(Weights, D) = Weights[k] + TotalOf(Weights, D \ {k})
      BY <1>1, <1>3, <2>3, SumAdds
  <2>5. TotalOf(Weights, D \ {k}) \in Nat BY <1>1, <1>3, <2>3, SumAdds
  <2> QED BY <1>1, <2>1, <2>2, <2>4, <2>5
<1> HIDE DEF iter, D
<1> QED BY <1>2, <1>4, <1>5 DEF Fraction

LEMMA ReturnIsFraction ==
    ASSUME NEW p \in Chances, NEW odds \in Int \ {0}
    PROVE  Rec!ExpectedReturn(p, odds) \in Fraction
<1> DEFINE d == Rec!DecimalOdds(odds)
<1>1. d[1] \in Int /\ d[2] \in Nat \ {0} BY OddsFractions DEF Fraction
<1>2. p \in Nat
    BY RecommendingAssumption DEF Rec!RecommendationAssumption, Rec!RequestsAssumption
<1>3. Rec!ExpectedReturn(p, odds) = <<p * d[1] - 100 * d[2], d[2]>> BY DEF Rec!ExpectedReturn
<1> HIDE DEF d
<1>4. p * d[1] - 100 * d[2] \in Int BY <1>1, <1>2
<1> QED BY <1>1, <1>3, <1>4 DEF Fraction

-----------------------------------------------------------------------------
(* Recommendations: what was rated stays rated by the best offer            *)

\* README, Divergences: an offer without a line beats every OVER line.
Lined(o) == o.side \in {"over", "under"} => o.line # None

OffersHaveLines == \A o \in Offers : Lined(o)

\* x was rated as what it was made from says, against an offer that none of those
\* that were there with the requested one beats.
Rated(x, ls) ==
    /\ x.request \in Rec!Requests /\ x.request.line \in 1 .. Len(ls)
    /\ x.line \in StoredLine /\ x.age \in Int
    /\ OffersHaveLines => Lined(x.line)
    /\ x.decision = Rec!Decide(Rec!ExpectedReturn(x.request.chance, x.line.odds),
                               Rec!OverallConfidence(x.request.components), x.age)
    /\ \A m \in 1 .. x.request.line : ~Rec!Better(ls[m], x.line) /\ ls[m].side = x.line.side

StakeUnit == Rec!Least(RecUnit, RecSingle)

FrameRated(f, ls) ==
    /\ f.pc \in {"idle", "select", "exposure", "insert"}
    /\ f.pc = "select" =>
          f.request \in Rec!Requests /\ f.request.line \in 1 .. Len(ls) /\ f.captured \in Int
    /\ f.pc \in {"exposure", "insert"} => Rated(f, ls)
    /\ f.pc = "insert" => f.stake \in Nat /\ f.stake <= StakeUnit /\ f.stake <= RecWeekly

Made ==
    [request : Rec!Requests, line : StoredLine, age : Int,
     decision : [rating : {"PASS", "WATCH", "BET"}, reasons : SUBSET {"edge", "confidence", "stale"}],
     stake : Nat, at : Nat]

RatedInv ==
    /\ lines \in Seq(StoredLine)
    /\ \A m, n \in 1 .. Len(lines) : lines[m].side = lines[n].side
    /\ OffersHaveLines => \A n \in 1 .. Len(lines) : Lined(lines[n])
    /\ made \in Seq(Made) /\ \A n \in 1 .. Len(made) : Rated(made[n], lines)
    /\ now \in Nat
    /\ asked = [c \in Requesters |-> asked[c]]
    /\ \A c \in Requesters : FrameRated(asked[c], lines)

\* More offers leave what was rated before as it is.
LEMMA RatedStays ==
    ASSUME NEW ls \in Seq(StoredLine), NEW o \in StoredLine
    PROVE  /\ \A x : Rated(x, ls) => Rated(x, Append(ls, o))
           /\ \A f : FrameRated(f, ls) => FrameRated(f, Append(ls, o))
<1> DEFINE more == Append(ls, o)
<1>1. /\ Len(ls) \in Nat /\ Len(more) = Len(ls) + 1
      /\ \A m \in 1 .. Len(ls) : more[m] = ls[m]
    OBVIOUS
<1> HIDE DEF more
<1>2. 1 .. Len(ls) \subseteq 1 .. Len(more) BY <1>1
<1>3. ASSUME NEW x, Rated(x, ls) PROVE Rated(x, more)
  <2>1. \A m \in 1 .. x.request.line : more[m] = ls[m]
    <3>1. x.request.line \in 1 .. Len(ls) BY <1>3 DEF Rated
    <3> DEFINE r == x.request.line
               N == Len(ls)
    <3>2. \A m \in 1 .. r : m \in 1 .. N
      <4> HIDE DEF r, N
      <4>1. N \in Nat /\ r \in 1 .. N BY <1>1, <3>1 DEF N, r
      <4> QED BY <4>1
    <3> QED BY <1>1, <3>2
  <2> QED BY <1>2, <1>3, <2>1 DEF Rated
<1>4. \A f : FrameRated(f, ls) => FrameRated(f, more) BY <1>2, <1>3 DEF FrameRated
<1> QED BY <1>3, <1>4 DEF more

\* A step moves one request on, beside the same offers.
LEMMA RequestMoves ==
    ASSUME RatedInv, NEW c \in Requesters, NEW f, FrameRated(f, lines), Rec!Goto(c, f),
           UNCHANGED <<lines, now>>,
           made' \in Seq(Made), \A n \in 1 .. Len(made') : Rated(made'[n], lines)
    PROVE  RatedInv'
<1>1. asked' = [asked EXCEPT ![c] = f] BY DEF Rec!Goto
<1>2. asked = [d \in Requesters |-> asked[d]] BY DEF RatedInv
<1>3. asked' = [d \in Requesters |-> asked'[d]]
      /\ \A d \in Requesters : asked'[d] = IF d = c THEN f ELSE asked[d]
    BY <1>1, <1>2
<1>4. \A d \in Requesters : FrameRated(asked'[d], lines) BY <1>3 DEF RatedInv
<1> QED BY <1>3, <1>4 DEF RatedInv

\* The stakes of a week and later are a sum of natural numbers.
LEMMA StakesAreTotal ==
    ASSUME RatedInv, NEW w
    PROVE  /\ Len(made) \in Nat /\ DOMAIN made = 1 .. Len(made)
           /\ Counted(made, Len(made))
           /\ Rec!StakesSince(w)
                = Total(made, {n \in 1 .. Len(made) : Rec!Week(made[n].at) >= w})
           /\ Rec!StakesSince(w) \in Nat
<1> DEFINE S == {n \in 1 .. Len(made) : Rec!Week(made[n].at) >= w}
<1>1. made \in Seq(Made) BY DEF RatedInv
<1>2. Len(made) \in Nat /\ DOMAIN made = 1 .. Len(made) BY <1>1
<1>3. Counted(made, Len(made))
  <2>1. \A n \in 1 .. Len(made) : made[n] \in Made BY <1>1
  <2>2. \A x \in Made : x.stake \in Nat BY DEF Made
  <2> QED BY <2>1, <2>2 DEF Counted
<1>4. Rec!StakesSince(w) = Total(made, S)
    BY <1>2 DEF Rec!StakesSince, Rec!MapThenSumSet, Rec!MapThenFoldSet, Total, Taken
<1>5. S \in SUBSET (1 .. Len(made)) OBVIOUS
<1> HIDE DEF S
<1>6. Total(made, S) \in Nat BY <1>2, <1>3, <1>5, TotalAdds
<1> QED BY <1>2, <1>3, <1>4, <1>6 DEF S

\* A stake is at most the unit, and within what the week has left.
LEMMA StakeIsLimited ==
    ASSUME NEW rating, NEW e \in Nat
    PROVE  LET s == Rec!StakeFor(rating, e)
           IN  /\ s \in Nat /\ s <= StakeUnit /\ s <= RecWeekly
               /\ s = 0 \/ e + s <= RecWeekly
<1>1. RecUnit \in Nat /\ RecSingle \in Nat /\ RecWeekly \in Nat
    BY RecommendingAssumption DEF Rec!RecommendationAssumption, Rec!RequestsAssumption
<1> QED BY <1>1 DEF Rec!StakeFor, Rec!Least, StakeUnit

LEMMA DecisionTypes ==
    ASSUME NEW e, NEW c, NEW a
    PROVE  Rec!Decide(e, c, a)
             \in [rating : {"PASS", "WATCH", "BET"}, reasons : SUBSET {"edge", "confidence", "stale"}]
BY DEF Rec!Decide, Rec!Failures, Rec!Borderline

LEMMA RequestTypes ==
    ASSUME NEW r \in Rec!Requests
    PROVE  r.line \in Int /\ r.chance \in Chances /\ r.components \in Confidences /\ r.age \in Nat
<1>1. MaxTime \in Nat /\ MaxLines \in Nat
    BY RecommendingAssumption DEF Rec!RecommendationAssumption, Rec!RequestsAssumption
<1> QED BY <1>1 DEF Rec!Requests

LEMMA RequestStep ==
    ASSUME RatedInv, NEW c \in Requesters, NEW r \in Rec!Requests, Rec!Request(c, r)
    PROVE  RatedInv'
<1> DEFINE f == [pc |-> "select", request |-> r, captured |-> now - r.age]
<1>1. /\ r.line \in DOMAIN lines /\ Rec!Goto(c, f) /\ UNCHANGED <<lines, made, now>>
    BY DEF Rec!Request
<1>2. lines \in Seq(StoredLine) /\ made \in Seq(Made) /\ now \in Nat
      /\ \A n \in 1 .. Len(made) : Rated(made[n], lines)
    BY DEF RatedInv
<1>3. FrameRated(f, lines)
  <2>1. f.pc = "select" /\ f.request = r /\ f.captured = now - r.age OBVIOUS
  <2>2. r.line \in 1 .. Len(lines) BY <1>1, <1>2
  <2>3. now - r.age \in Int BY <1>2, RequestTypes
  <2> HIDE DEF f
  <2> QED BY <2>1, <2>2, <2>3 DEF FrameRated
<1> HIDE DEF f
<1> QED BY <1>1, <1>2, <1>3, RequestMoves

LEMMA SelectStep ==
    ASSUME RatedInv, NEW c \in Requesters, Rec!Select(c)
    PROVE  RatedInv'
<1> DEFINE r == asked[c].request
           best == Rec!BestLine(lines)
           line == lines[best]
           age == now - Rec!Least(line.captured, asked[c].captured)
           decision == Rec!Decide(Rec!ExpectedReturn(r.chance, line.odds),
                                  Rec!OverallConfidence(r.components), age)
           f == [pc |-> "exposure", request |-> r, line |-> line, age |-> age,
                 decision |-> decision]
<1>1. asked[c].pc = "select" /\ Rec!Goto(c, f) /\ UNCHANGED <<lines, made, now>>
    BY DEF Rec!Select
<1>2. /\ lines \in Seq(StoredLine) /\ made \in Seq(Made) /\ now \in Nat
      /\ \A n \in 1 .. Len(made) : Rated(made[n], lines)
      /\ \A m, n \in 1 .. Len(lines) : lines[m].side = lines[n].side
      /\ OffersHaveLines => \A n \in 1 .. Len(lines) : Lined(lines[n])
    BY DEF RatedInv
<1>3. /\ r \in Rec!Requests /\ r.line \in 1 .. Len(lines) /\ asked[c].captured \in Int
    BY <1>1 DEF RatedInv, FrameRated
<1>4. /\ best \in 1 .. Len(lines)
      /\ \A m \in 1 .. Len(lines) : ~Rec!Better(lines[m], line)
    BY <1>2, <1>3, BestIsBest
<1>5. line \in StoredLine /\ line.captured \in Int
  <2> HIDE DEF best
  <2>1. lines[best] \in StoredLine BY <1>2, <1>4
  <2> QED BY <2>1 DEF StoredLine
<1>6. age \in Int
  <2> HIDE DEF line
  <2> QED BY <1>2, <1>3, <1>5 DEF Rec!Least
<1>7. \A m \in 1 .. r.line : m \in 1 .. Len(lines)
  <2> DEFINE k == r.line
             N == Len(lines)
  <2>1. N \in Nat /\ k \in 1 .. N BY <1>2, <1>3
  <2> HIDE DEF k, N
  <2>2. \A m \in 1 .. k : m \in 1 .. N BY <2>1
  <2> QED BY <2>2 DEF k, N
<1>8. FrameRated(f, lines)
  <2>1. /\ f.pc = "exposure" /\ f.request = r /\ f.line = line /\ f.age = age
        /\ f.decision = decision
      OBVIOUS
  <2>2. OffersHaveLines => Lined(line) BY <1>2, <1>4
  <2>3. \A m \in 1 .. Len(lines) : lines[m].side = line.side BY <1>2, <1>4
  <2> HIDE DEF f, line, age, r, best
  <2>4. Rated(f, lines) BY <1>3, <1>4, <1>5, <1>6, <1>7, <2>1, <2>2, <2>3 DEF Rated
  <2> QED BY <2>1, <2>4 DEF FrameRated
<1> HIDE DEF f
<1> QED BY <1>1, <1>2, <1>8, RequestMoves

LEMMA ExposureStep ==
    ASSUME RatedInv, NEW c \in Requesters, Rec!ReadExposure(c)
    PROVE  RatedInv'
<1> DEFINE g == asked[c]
           s == Rec!StakeFor(g.decision.rating, Rec!StakesSince(Rec!Week(now)))
           f == [pc |-> "insert", request |-> g.request, line |-> g.line, age |-> g.age,
                 decision |-> g.decision, stake |-> s]
<1>1. g.pc = "exposure" /\ Rec!Goto(c, f) /\ UNCHANGED <<lines, made, now>>
    BY DEF Rec!ReadExposure
<1>2. made \in Seq(Made) /\ \A n \in 1 .. Len(made) : Rated(made[n], lines) BY DEF RatedInv
<1>3. Rated(g, lines) BY <1>1 DEF RatedInv, FrameRated
<1>4. s \in Nat /\ s <= StakeUnit /\ s <= RecWeekly BY StakesAreTotal, StakeIsLimited
<1>5. FrameRated(f, lines)
  <2>1. /\ f.pc = "insert" /\ f.request = g.request /\ f.line = g.line /\ f.age = g.age
        /\ f.decision = g.decision /\ f.stake = s
      OBVIOUS
  <2> HIDE DEF f, s, g
  <2>2. Rated(f, lines) BY <1>3, <2>1 DEF Rated
  <2> QED BY <1>4, <2>1, <2>2 DEF FrameRated
<1> HIDE DEF f
<1> QED BY <1>1, <1>2, <1>5, RequestMoves

\* The recommendation a request ends with.
Recommendation(g) ==
    [request |-> g.request, line |-> g.line, age |-> g.age, decision |-> g.decision,
     stake |-> g.stake, at |-> now]

LEMMA RecommendationTypes ==
    ASSUME RatedInv, NEW c \in Requesters, asked[c].pc = "insert"
    PROVE  /\ Recommendation(asked[c]) \in Made /\ Rated(Recommendation(asked[c]), lines)
           /\ Recommendation(asked[c]).stake = asked[c].stake
           /\ Recommendation(asked[c]).at = now
<1> DEFINE g == asked[c]
           x == Recommendation(g)
<1>1. Rated(g, lines) /\ g.stake \in Nat BY DEF RatedInv, FrameRated
<1>2. now \in Nat BY DEF RatedInv
<1>3. /\ x.request = g.request /\ x.line = g.line /\ x.age = g.age
      /\ x.decision = g.decision /\ x.stake = g.stake /\ x.at = now
    BY DEF Recommendation
<1>4. x \in Made
  <2> HIDE DEF g
  <2>1. g.decision \in [rating : {"PASS", "WATCH", "BET"},
                        reasons : SUBSET {"edge", "confidence", "stale"}]
      BY <1>1, DecisionTypes DEF Rated
  <2>2. g.request \in Rec!Requests /\ g.line \in StoredLine /\ g.age \in Int BY <1>1 DEF Rated
  <2> QED BY <1>1, <1>2, <2>1, <2>2 DEF Recommendation, Made
<1> HIDE DEF x, g
<1>5. Rated(x, lines) BY <1>1, <1>3 DEF Rated
<1> QED BY <1>3, <1>4, <1>5 DEF x, g

LEMMA RecommendStep ==
    ASSUME RatedInv, NEW c \in Requesters, Rec!Insert(c)
    PROVE  RatedInv'
<1> DEFINE x == Recommendation(asked[c])
<1>1. /\ asked[c].pc = "insert" /\ made' = Append(made, x) /\ Rec!Goto(c, Rec!Idle)
      /\ UNCHANGED <<lines, now>>
    BY DEF Rec!Insert, Recommendation
<1>2. x \in Made /\ Rated(x, lines) BY <1>1, RecommendationTypes
<1> HIDE DEF x
<1>3. made \in Seq(Made) /\ \A n \in 1 .. Len(made) : Rated(made[n], lines) BY DEF RatedInv
<1>4. made' \in Seq(Made) /\ Len(made') = Len(made) + 1 /\ Len(made) \in Nat
      /\ made'[Len(made) + 1] = x /\ \A n \in 1 .. Len(made) : made'[n] = made[n]
    BY <1>1, <1>2, <1>3
<1>5. \A n \in 1 .. Len(made') : Rated(made'[n], lines)
  <2>1. \A n \in 1 .. Len(made') : n \in 1 .. Len(made) \/ n = Len(made) + 1 BY <1>4
  <2> QED BY <1>2, <1>3, <1>4, <2>1
<1>6. FrameRated(Rec!Idle, lines)
  <2>1. Rec!Idle.pc = "idle" BY DEF Rec!Idle
  <2> QED BY <2>1 DEF FrameRated
<1> QED BY <1>1, <1>4, <1>5, <1>6, RequestMoves

LEMMA StoreStep ==
    ASSUME RatedInv, NEW o \in Offers, Rec!Store(o)
    PROVE  RatedInv'
<1> DEFINE x == [side |-> o.side, line |-> o.line, odds |-> o.odds, captured |-> now - o.delay]
<1>1. /\ lines' = Append(lines, x) /\ UNCHANGED <<made, now, asked>>
      /\ \A n \in DOMAIN lines : lines[n].side = o.side
    BY DEF Rec!Store
<1>2. /\ lines \in Seq(StoredLine) /\ now \in Nat
      /\ \A m, n \in 1 .. Len(lines) : lines[m].side = lines[n].side
      /\ OffersHaveLines => \A n \in 1 .. Len(lines) : Lined(lines[n])
    BY DEF RatedInv
<1>3. x \in StoredLine /\ x.side = o.side /\ x.line = o.line
  <2>1. o \in [side : {"over", "under", "yes", "no"}, line : Int \cup {None},
                odds : Int \ {0}, delay : Nat]
      BY RecommendingAssumption DEF Rec!RecommendationAssumption, Rec!OffersAssumption
  <2>2. now - o.delay \in Int BY <1>2, <2>1
  <2> QED BY <2>1, <2>2 DEF StoredLine, Sides
<1>4. OffersHaveLines => Lined(x) BY <1>3 DEF OffersHaveLines, Lined
<1> HIDE DEF x
<1>5. /\ lines' \in Seq(StoredLine) /\ Len(lines') = Len(lines) + 1 /\ Len(lines) \in Nat
      /\ lines'[Len(lines) + 1] = x /\ \A n \in 1 .. Len(lines) : lines'[n] = lines[n]
      /\ DOMAIN lines = 1 .. Len(lines)
    BY <1>1, <1>2, <1>3
<1>6. \A n \in 1 .. Len(lines') : n \in 1 .. Len(lines) \/ n = Len(lines) + 1 BY <1>5
<1>7. \A n \in 1 .. Len(lines') : lines'[n].side = o.side BY <1>1, <1>3, <1>5, <1>6
<1>8. OffersHaveLines => \A n \in 1 .. Len(lines') : Lined(lines'[n])
    BY <1>2, <1>4, <1>5, <1>6
<1>9. \A n \in 1 .. Len(made) : Rated(made[n], lines')
    BY <1>1, <1>2, <1>3, RatedStays DEF RatedInv
<1>10. \A c \in Requesters : FrameRated(asked[c], lines')
    BY <1>1, <1>2, <1>3, RatedStays DEF RatedInv
<1>11. \A m, n \in 1 .. Len(lines') : lines'[m].side = lines'[n].side BY <1>7
<1> QED BY <1>1, <1>5, <1>8, <1>9, <1>10, <1>11 DEF RatedInv

LEMMA RatedStep ==
    ASSUME RatedInv, [Rec!Next]_Rec!vars
    PROVE  RatedInv'
<1>1. ASSUME NEW c \in Requesters, NEW r \in Rec!Requests, Rec!Request(c, r) PROVE RatedInv'
    BY <1>1, RequestStep
<1>2. ASSUME NEW c \in Requesters, Rec!Select(c) PROVE RatedInv' BY <1>2, SelectStep
<1>3. ASSUME NEW c \in Requesters, Rec!ReadExposure(c) PROVE RatedInv' BY <1>3, ExposureStep
<1>4. ASSUME NEW c \in Requesters, Rec!Insert(c) PROVE RatedInv' BY <1>4, RecommendStep
<1>5. ASSUME NEW o \in Offers, Rec!Store(o) PROVE RatedInv' BY <1>5, StoreStep
<1>6. CASE Rec!Tick
  <2>1. now' = now + 1 /\ UNCHANGED <<lines, made, asked>> BY <1>6 DEF Rec!Tick
  <2>2. now' \in Nat BY <2>1 DEF RatedInv
  <2> QED BY <2>1, <2>2 DEF RatedInv
<1>7. CASE UNCHANGED Rec!vars
  <2>1. UNCHANGED <<lines, made, now, asked>> BY <1>7 DEF Rec!vars
  <2> QED BY <2>1 DEF RatedInv
<1> QED BY <1>1, <1>2, <1>3, <1>4, <1>5, <1>6, <1>7 DEF Rec!Next

LEMMA RatedInit ==
    ASSUME Rec!Init
    PROVE  RatedInv
<1>1. lines = <<>> /\ made = <<>> /\ now = 0 /\ asked = [c \in Requesters |-> Rec!Idle]
    BY DEF Rec!Init
<1>2. Rec!Idle.pc = "idle" BY DEF Rec!Idle
<1>3. \A c \in Requesters : FrameRated(asked[c], lines) BY <1>1, <1>2 DEF FrameRated
<1>4. lines \in Seq(StoredLine) /\ made \in Seq(Made) /\ Len(lines) = 0 /\ Len(made) = 0 BY <1>1
<1> QED BY <1>1, <1>3, <1>4 DEF RatedInv

\* What was rated by the best offer is recommended by it, also across ratings.
LEMMA RatedIsBest ==
    ASSUME RatedInv
    PROVE  /\ Rec!RatedAgainstBest /\ Rec!RatingsAreMonotone
           /\ OffersHaveLines => Rec!ThresholdFirst
<1>1. /\ DOMAIN made = 1 .. Len(made) /\ \A n \in 1 .. Len(made) : Rated(made[n], lines)
      /\ lines \in Seq(StoredLine)
    BY DEF RatedInv
<1>2. Rec!RatedAgainstBest BY <1>1 DEF Rec!RatedAgainstBest, Rated
<1>3. Rec!RatingsAreMonotone
  <2>1. ASSUME NEW m \in 1 .. Len(made), NEW n \in 1 .. Len(made),
               ~Rec!Above(Rec!ExpectedReturn(made[n].request.chance, made[n].line.odds),
                          Rec!ExpectedReturn(made[m].request.chance, made[m].line.odds)),
               ~Rec!Above(Rec!OverallConfidence(made[n].request.components),
                          Rec!OverallConfidence(made[m].request.components)),
               made[m].age <= made[n].age
        PROVE  Rec!Rank[made[m].decision.rating] >= Rec!Rank[made[n].decision.rating]
    <3> DEFINE Ev(x) == Rec!ExpectedReturn(x.request.chance, x.line.odds)
               Certainty(x) == Rec!OverallConfidence(x.request.components)
    <3>1. \A x : Rated(x, lines) =>
             /\ Ev(x) \in Fraction /\ Certainty(x) \in Fraction /\ x.age \in Int
             /\ x.decision = Rec!Decide(Ev(x), Certainty(x), x.age)
      <4>1. ASSUME NEW x, Rated(x, lines)
            PROVE  x.request \in Rec!Requests /\ x.line.odds \in Int \ {0} /\ x.age \in Int
          BY <4>1 DEF Rated, StoredLine
      <4> QED BY <4>1, RequestTypes, ReturnIsFraction, ConfidenceIsFraction DEF Rated
    <3>2. ~Rec!Above(Ev(made[n]), Ev(made[m])) /\ ~Rec!Above(Certainty(made[n]), Certainty(made[m]))
        BY <2>1
    <3>3. Rated(made[m], lines) /\ Rated(made[n], lines) BY <1>1
    <3> HIDE DEF Ev, Certainty
    <3> QED BY <2>1, <3>1, <3>2, <3>3, DecisionsAreMonotone
  <2> QED BY <1>1, <2>1 DEF Rec!RatingsAreMonotone
<1>4. ASSUME OffersHaveLines PROVE Rec!ThresholdFirst
  <2>1. ASSUME NEW n \in 1 .. Len(made), NEW m \in 1 .. made[n].request.line,
               lines[m].line # None, made[n].line.side \in {"over", "under"}
        PROVE  /\ made[n].line.line # None
               /\ IF made[n].line.side = "over" THEN made[n].line.line <= lines[m].line
                  ELSE made[n].line.line >= lines[m].line
    <3> DEFINE x == made[n].line
               y == lines[m]
    <3>1. x \in StoredLine /\ x.line # None /\ ~Rec!Better(y, x) /\ y.side = x.side
        BY <1>1, <1>4, <2>1 DEF Rated, Lined
    <3>2. y \in StoredLine
      <4> DEFINE k == made[n].request.line
                 N == Len(lines)
      <4>1. N \in Nat /\ k \in 1 .. N BY <1>1 DEF Rated
      <4>2. m \in 1 .. k BY <2>1
      <4> HIDE DEF k, N
      <4>3. m \in 1 .. N BY <4>1, <4>2
      <4> QED BY <1>1, <4>3 DEF N
    <3>3. y.line # None /\ x.side \in {"over", "under"} BY <2>1
    <3> HIDE DEF x, y
    <3>4. x.line \in Int /\ y.line \in Int BY <3>1, <3>2, <3>3 DEF StoredLine
    <3>5. ~(Rec!LineScore(y) > Rec!LineScore(x)) BY <3>1 DEF Rec!Better
    <3>6. CASE x.side = "over"
      <4>1. Rec!LineScore(x) = -x.line /\ Rec!LineScore(y) = -y.line
          BY <3>1, <3>3, <3>6 DEF Rec!LineScore
      <4> QED BY <3>1, <3>4, <3>5, <3>6, <4>1 DEF x, y
    <3>7. CASE x.side = "under"
      <4>1. Rec!LineScore(x) = x.line /\ Rec!LineScore(y) = y.line
          BY <3>1, <3>3, <3>7 DEF Rec!LineScore
      <4> QED BY <3>1, <3>4, <3>5, <3>7, <4>1 DEF x, y
    <3> QED BY <3>3, <3>6, <3>7
  <2> QED BY <1>1, <2>1 DEF Rec!ThresholdFirst
<1> QED BY <1>2, <1>3, <1>4

-----------------------------------------------------------------------------
(* Recommendations: the week                                                *)

\* What a request is about to recommend, and what all are.
Amount(g) == IF g.pc = "insert" THEN g.stake ELSE 0

Pending(table) == TotalOf([c \in Requesters |-> Amount(table[c])], Requesters)

InWeek(b, w) == Total(b, {n \in 1 .. Len(b) : Rec!Week(b[n].at) = w})

WeekLimit == RecWeekly + (Cardinality(Requesters) - 1) * StakeUnit

\* What is recommended in the present week stays within the limit together with what
\* is about to be: a stake that is not 0 was added to all that was there.
WeekInv ==
    /\ RatedInv
    /\ \A n \in 1 .. Len(made) : Rec!Week(made[n].at) <= Rec!Week(now)
    /\ \A w \in Int : InWeek(made, w) <= WeekLimit
    /\ InWeek(made, Rec!Week(now)) + Pending(asked) <= WeekLimit

LEMMA WeekTypes ==
    /\ IsFiniteSet(Requesters) /\ Requesters # {} /\ Cardinality(Requesters) \in Nat \ {0}
    /\ StakeUnit \in Nat /\ RecWeekly \in Nat
    /\ WeekLength \in Nat \ {0}
<1>1. IsFiniteSet(Requesters)
    BY RecommendingAssumption
    DEF Rec!RecommendationAssumption, Rec!RequestsAssumption, Rec!IsFiniteSet, IsFiniteSet
<1>2. /\ Requesters # {} /\ {RecUnit, RecSingle, RecWeekly} \subseteq Nat
      /\ WeekLength \in Nat \ {0}
    BY RecommendingAssumption DEF Rec!RecommendationAssumption, Rec!RequestsAssumption
<1>3. Cardinality(Requesters) \in Nat \ {0} BY <1>1, <1>2, FS_CardinalityType, FS_EmptySet
<1> QED BY <1>1, <1>2, <1>3 DEF StakeUnit, Rec!Least

\* Weeks follow one another.
LEMMA WeeksGoOn ==
    ASSUME NEW t \in Nat
    PROVE  Rec!Week(t) \in Int /\ Rec!Week(t) <= Rec!Week(t + 1)
<1> DEFINE L == WeekLength
           q == t \div L
           p == (t + 1) \div L
<1>1. L \in Nat \ {0} BY WeekTypes
<1> HIDE DEF L
<1>2. q \in Int /\ L * q <= t /\ t < L * q + L BY <1>1
<1>3. p \in Int /\ L * p <= t + 1 /\ t + 1 < L * p + L BY <1>1
<1>4. Rec!Week(t) = q /\ Rec!Week(t + 1) = p BY DEF Rec!Week, L
<1> HIDE DEF q, p
<1>5. ASSUME q > p PROVE FALSE
  <2>1. ~(p + 1 > q) BY <1>2, <1>3, <1>5
  <2>0. p + 1 = q \/ q > p + 1 BY <1>2, <1>3, <1>5
  <2>2. (p + 1) * L <= q * L
    <3>1. q > p + 1 => q * L > (p + 1) * L BY <1>1, <1>2, <1>3, TimesPositive
    <3>2. q * L \in Int /\ (p + 1) * L \in Int BY <1>1, <1>2, <1>3
    <3> QED BY <2>0, <3>1, <3>2
  <2>3. (p + 1) * L = L * p + L /\ q * L = L * q BY <1>1, <1>2, <1>3
  <2>4. L * p + L \in Int /\ L * q \in Int BY <1>1, <1>2, <1>3
  <2> QED BY <1>2, <1>3, <2>2, <2>3, <2>4
<1> QED BY <1>2, <1>3, <1>4, <1>5

\* What is pending is one request's stake and that of the others, which is at most a
\* unit each.
LEMMA PendingSplits ==
    ASSUME NEW t, NEW u, NEW c \in Requesters,
           \A d \in Requesters : Amount(t[d]) \in Nat /\ Amount(t[d]) <= StakeUnit,
           Amount(u[c]) \in Nat, \A d \in Requesters \ {c} : u[d] = t[d]
    PROVE  \E rest \in Nat :
              /\ Pending(t) = Amount(t[c]) + rest /\ Pending(u) = Amount(u[c]) + rest
              /\ RecWeekly + rest <= WeekLimit
<1> DEFINE R == Requesters
           f == [d \in R |-> Amount(t[d])]
           g == [d \in R |-> Amount(u[d])]
           S == R \ {c}
           k == Cardinality(R)
<1>1. /\ IsFiniteSet(R) /\ k \in Nat \ {0} /\ StakeUnit \in Nat /\ RecWeekly \in Nat
    BY WeekTypes
<1>2. IsFiniteSet(S) /\ Cardinality(S) = k - 1 BY <1>1, FS_RemoveElement, FS_Subset
<1>3. /\ NaturalOn(f, R) /\ NaturalOn(g, R) /\ NaturalOn(f, S)
      /\ f[c] = Amount(t[c]) /\ g[c] = Amount(u[c])
      /\ \A d \in S : g[d] = f[d] /\ f[d] <= StakeUnit
    BY DEF NaturalOn
<1>4. Pending(t) = TotalOf(f, R) /\ Pending(u) = TotalOf(g, R) BY DEF Pending
<1> HIDE DEF f, g, k
<1>5. R \in SUBSET R /\ S \in SUBSET R /\ c \in R OBVIOUS
<1>6. TotalOf(f, R) = f[c] + TotalOf(f, S) /\ TotalOf(f, S) \in Nat BY <1>1, <1>3, <1>5, SumAdds
<1>7. TotalOf(g, R) = g[c] + TotalOf(g, S) BY <1>1, <1>3, <1>5, SumAdds
<1>8. TotalOf(g, S) = TotalOf(f, S) BY <1>2, <1>3, SumSame
<1>9. TotalOf(f, S) <= (k - 1) * StakeUnit BY <1>1, <1>2, <1>3, SumBounded
<1>10. WeekLimit = RecWeekly + (k - 1) * StakeUnit /\ (k - 1) * StakeUnit \in Nat
    BY <1>1 DEF WeekLimit, k
<1>11. RecWeekly + TotalOf(f, S) <= WeekLimit BY <1>1, <1>6, <1>9, <1>10
<1> QED BY <1>3, <1>4, <1>6, <1>7, <1>8, <1>11

LEMMA AmountTypes ==
    ASSUME RatedInv, NEW d \in Requesters
    PROVE  Amount(asked[d]) \in Nat /\ Amount(asked[d]) <= StakeUnit /\ Amount(asked[d]) <= RecWeekly
<1>1. FrameRated(asked[d], lines) BY DEF RatedInv
<1> QED BY <1>1, WeekTypes DEF FrameRated, Amount

\* A step moves one request on: what is pending changes by its stake alone.
LEMMA PendingMoves ==
    ASSUME RatedInv, NEW c \in Requesters, NEW f, Amount(f) \in Nat, Rec!Goto(c, f)
    PROVE  \E rest \in Nat :
              /\ Pending(asked) = Amount(asked[c]) + rest /\ Pending(asked') = Amount(f) + rest
              /\ RecWeekly + rest <= WeekLimit
<1>1. asked' = [asked EXCEPT ![c] = f] BY DEF Rec!Goto
<1>2. asked = [d \in Requesters |-> asked[d]] BY DEF RatedInv
<1>3. asked'[c] = f /\ \A d \in Requesters \ {c} : asked'[d] = asked[d] BY <1>1, <1>2
<1>4. \A d \in Requesters : Amount(asked[d]) \in Nat /\ Amount(asked[d]) <= StakeUnit
    BY AmountTypes
<1> DEFINE u == asked'
<1>5. u[c] = f /\ \A d \in Requesters \ {c} : u[d] = asked[d] BY <1>3
<1> HIDE DEF u
<1>6. \E rest \in Nat :
         /\ Pending(asked) = Amount(asked[c]) + rest /\ Pending(u) = Amount(u[c]) + rest
         /\ RecWeekly + rest <= WeekLimit
    BY <1>4, <1>5, PendingSplits
<1> QED BY <1>5, <1>6 DEF u

\* Sums of a week are natural numbers.
LEMMA InWeekTypes ==
    ASSUME RatedInv, NEW w
    PROVE  InWeek(made, w) \in Nat
<1> DEFINE S == {n \in 1 .. Len(made) : Rec!Week(made[n].at) = w}
<1>1. Len(made) \in Nat /\ Counted(made, Len(made)) BY StakesAreTotal
<1>2. S \in SUBSET (1 .. Len(made)) OBVIOUS
<1> HIDE DEF S
<1>3. Total(made, S) \in Nat BY <1>1, <1>2, TotalAdds
<1> QED BY <1>3 DEF InWeek, S

LEMMA MadeWeeks ==
    ASSUME RatedInv
    PROVE  /\ Rec!Week(now) \in Int
           /\ \A n \in 1 .. Len(made) : Rec!Week(made[n].at) \in Int
<1>1. now \in Nat /\ \A n \in 1 .. Len(made) : made[n] \in Made BY DEF RatedInv
<1>2. \A x \in Made : x.at \in Nat BY DEF Made
<1> QED BY <1>1, <1>2, WeeksGoOn

\* Where neither week, recommendations nor what is pending change.
LEMMA WeekSame ==
    ASSUME WeekInv, RatedInv', UNCHANGED <<made, now>>, Pending(asked') = Pending(asked)
    PROVE  WeekInv'
BY DEF WeekInv

\* A request that has no stake yet, and gets none.
LEMMA UnstakedMoves ==
    ASSUME WeekInv, RatedInv', NEW c \in Requesters, NEW f, asked[c].pc # "insert",
           f.pc # "insert", Rec!Goto(c, f), UNCHANGED <<made, now>>
    PROVE  WeekInv'
<1>1. Amount(asked[c]) = 0 /\ Amount(f) = 0 BY DEF Amount
<1>2. Pending(asked') = Pending(asked) BY <1>1, PendingMoves DEF WeekInv
<1> QED BY <1>2, WeekSame

\* The exposure is what the present week has; the stake stays within what it leaves.
LEMMA ExposureWeek ==
    ASSUME WeekInv, RatedInv', NEW c \in Requesters, Rec!ReadExposure(c)
    PROVE  WeekInv'
<1> DEFINE g == asked[c]
           w == Rec!Week(now)
           s == Rec!StakeFor(g.decision.rating, Rec!StakesSince(w))
           f == [pc |-> "insert", request |-> g.request, line |-> g.line, age |-> g.age,
                 decision |-> g.decision, stake |-> s]
<1>0. RatedInv BY DEF WeekInv
<1>1. g.pc = "exposure" /\ Rec!Goto(c, f) /\ UNCHANGED <<lines, made, now>>
    BY DEF Rec!ReadExposure
<1>2. Amount(g) = 0 /\ Amount(f) = s BY <1>1 DEF Amount
<1>3. Rec!StakesSince(w) = InWeek(made, w) /\ Rec!StakesSince(w) \in Nat
  <2>1. {n \in 1 .. Len(made) : Rec!Week(made[n].at) >= w}
        = {n \in 1 .. Len(made) : Rec!Week(made[n].at) = w}
      BY <1>0, MadeWeeks DEF WeekInv
  <2> QED BY <1>0, <2>1, StakesAreTotal DEF InWeek
<1>4. s \in Nat /\ (s = 0 \/ InWeek(made, w) + s <= RecWeekly) BY <1>3, StakeIsLimited
<1>5. PICK rest \in Nat :
         /\ Pending(asked) = Amount(g) + rest /\ Pending(asked') = Amount(f) + rest
         /\ RecWeekly + rest <= WeekLimit
  <2>1. Amount(f) \in Nat BY <1>2, <1>4
  <2> HIDE DEF f
  <2> QED BY <1>0, <1>1, <2>1, PendingMoves
<1>6. InWeek(made, w) + Pending(asked) <= WeekLimit BY DEF WeekInv
<1>7. InWeek(made, w) \in Nat /\ RecWeekly \in Nat /\ WeekLimit \in Int
    BY <1>0, InWeekTypes, WeekTypes DEF WeekLimit
<1> HIDE DEF s, f, g
<1>8. InWeek(made, w) + Pending(asked') <= WeekLimit BY <1>2, <1>4, <1>5, <1>6, <1>7
<1> QED BY <1>1, <1>8 DEF WeekInv

\* A recommendation counts instead of being pending, in the present week.
LEMMA RecommendWeek ==
    ASSUME WeekInv, RatedInv', NEW c \in Requesters, Rec!Insert(c)
    PROVE  WeekInv'
<1> DEFINE g == asked[c]
           x == Recommendation(g)
           w == Rec!Week(now)
           N == Len(made)
           T(v) == {n \in 1 .. N : Rec!Week(made[n].at) = v}
           U(v) == {n \in 1 .. N + 1 : Rec!Week(made'[n].at) = v}
<1>0. RatedInv BY DEF WeekInv
<1>1. /\ g.pc = "insert" /\ made' = Append(made, x) /\ Rec!Goto(c, Rec!Idle)
      /\ UNCHANGED <<lines, now>>
    BY DEF Rec!Insert, Recommendation
<1>2. x \in Made /\ x.stake = g.stake /\ x.at = now /\ Amount(g) = g.stake /\ g.stake \in Nat
    BY <1>0, <1>1, RecommendationTypes, AmountTypes DEF Amount
<1> HIDE DEF x
<1>3. /\ N \in Nat /\ Len(made') = N + 1 /\ made'[N + 1] = x
      /\ \A n \in 1 .. N : made'[n] = made[n]
  <2>1. made \in Seq(Made) BY <1>0 DEF RatedInv
  <2> QED BY <1>1, <1>2, <2>1
<1>4. Counted(made, N) /\ Counted(made', N + 1) /\ SameStakes(made, made', N)
  <2>1. Counted(made, N) BY <1>0, StakesAreTotal
  <2>2. \A n \in 1 .. N + 1 : n \in 1 .. N \/ n = N + 1 BY <1>3
  <2> QED BY <1>2, <1>3, <2>1, <2>2 DEF Counted, SameStakes
<1>5. /\ U(w) = T(w) \cup {N + 1} /\ \A v : v # w => U(v) = T(v)
      /\ \A v : T(v) \in SUBSET (1 .. N)
  <2>1. \A n \in 1 .. N + 1 : n \in 1 .. N \/ n = N + 1 BY <1>3
  <2>2. N + 1 \in 1 .. N + 1 /\ \A n \in 1 .. N : n \in 1 .. N + 1 BY <1>3
  <2>3. Rec!Week(made'[N + 1].at) = w BY <1>2, <1>3
  <2> HIDE DEF N, w
  <2> QED BY <1>3, <2>1, <2>2, <2>3
<1>6. \A v : InWeek(made, v) = Total(made, T(v)) /\ InWeek(made', v) = Total(made', U(v))
    BY <1>3 DEF InWeek
<1>7. InWeek(made', w) = InWeek(made, w) + g.stake
  <2> DEFINE b == made'
             S == T(w)
  <2>1. /\ S \in SUBSET (1 .. N) /\ Counted(b, N + 1) /\ SameStakes(made, b, N)
        /\ b[N + 1].stake = g.stake /\ U(w) = S \cup {N + 1}
        /\ Counted(made, N) /\ N \in Nat
      BY <1>2, <1>3, <1>4, <1>5
  <2>2. InWeek(made, w) = Total(made, S) /\ InWeek(made', w) = Total(b, U(w)) BY <1>6
  <2> HIDE DEF T, U, N, w, g, b, S
  <2>3. Total(b, S \cup {N + 1}) = b[N + 1].stake + Total(made, S) /\ Total(made, S) \in Nat
      BY <2>1, TotalOneMore
  <2> QED BY <1>2, <2>1, <2>2, <2>3
<1>8. \A v : v # w => InWeek(made', v) = InWeek(made, v)
  <2>1. ASSUME NEW v, v # w PROVE InWeek(made', v) = InWeek(made, v)
    <3> HIDE DEF N, w, T, U
    <3>1. T(v) \in SUBSET (1 .. N) BY <1>5
    <3>2. Total(made', T(v)) = Total(made, T(v)) BY <1>3, <1>4, <3>1, TotalSame
    <3> QED BY <1>5, <1>6, <2>1, <3>2
  <2> QED BY <2>1
<1>9. PICK rest \in Nat : Pending(asked) = g.stake + rest /\ Pending(asked') = rest
  <2>1. Amount(Rec!Idle) = 0 BY DEF Amount, Rec!Idle
  <2> QED BY <1>0, <1>1, <1>2, <2>1, PendingMoves
<1>10. /\ InWeek(made, w) + Pending(asked) <= WeekLimit
       /\ \A v \in Int : InWeek(made, v) <= WeekLimit
    BY DEF WeekInv
<1>11. w \in Int /\ InWeek(made, w) \in Nat /\ WeekLimit \in Int
    BY <1>0, InWeekTypes, MadeWeeks, WeekTypes DEF WeekLimit
<1>12. w' = w BY <1>1
<1>13. \A n \in 1 .. Len(made') : Rec!Week(made'[n].at) <= w
  <2>1. \A n \in 1 .. N + 1 : n \in 1 .. N \/ n = N + 1 BY <1>3
  <2>2. \A n \in 1 .. N : Rec!Week(made[n].at) <= w BY DEF WeekInv
  <2> QED BY <1>2, <1>3, <1>11, <2>1, <2>2
<1> HIDE DEF w, g, T, U, N
<1>14. InWeek(made', w) + Pending(asked') <= WeekLimit BY <1>2, <1>7, <1>9, <1>10, <1>11
<1>15. \A v \in Int : InWeek(made', v) <= WeekLimit
  <2>1. InWeek(made', w) <= WeekLimit BY <1>2, <1>7, <1>9, <1>10, <1>11
  <2> QED BY <1>8, <1>10, <2>1
<1> QED BY <1>12, <1>13, <1>14, <1>15 DEF WeekInv, w

\* A week that begins has nothing but what is pending; one of the requests read the
\* exposure of an earlier week.
LEMMA TickWeek ==
    ASSUME WeekInv, RatedInv', Rec!Tick
    PROVE  WeekInv'
<1> DEFINE w == Rec!Week(now)
           v == Rec!Week(now + 1)
<1>0. RatedInv BY DEF WeekInv
<1>1. now' = now + 1 /\ UNCHANGED <<lines, made, asked>> /\ now \in Nat
    BY <1>0 DEF Rec!Tick, RatedInv
<1>2. w \in Int /\ v \in Int /\ w <= v
  <2>1. now + 1 \in Nat BY <1>1
  <2> QED BY <1>1, <2>1, WeeksGoOn
<1>3. \A n \in 1 .. Len(made) : Rec!Week(made[n].at) \in Int /\ Rec!Week(made[n].at) <= w
    BY <1>0, MadeWeeks DEF WeekInv
<1>4. InWeek(made, v) + Pending(asked) <= WeekLimit
  <2>1. CASE v = w BY <2>1 DEF WeekInv
  <2>2. CASE v # w
    <3>1. {n \in 1 .. Len(made) : Rec!Week(made[n].at) = v} = {}
      <4> HIDE DEF v, w
      <4> QED BY <1>2, <1>3, <2>2
    <3>2. InWeek(made, v) = 0
      <4>1. Len(made) \in Nat /\ Counted(made, Len(made)) BY <1>0, StakesAreTotal
      <4>2. Total(made, {}) = 0 BY <4>1, TotalAdds
      <4> QED BY <3>1, <4>2 DEF InWeek
    <3>3. PICK c \in Requesters : TRUE BY WeekTypes
    <3>4. Amount(asked[c]) \in Nat /\ Amount(asked[c]) <= RecWeekly BY <1>0, AmountTypes
    <3>5. PICK rest \in Nat :
             Pending(asked) = Amount(asked[c]) + rest /\ RecWeekly + rest <= WeekLimit
      <4>1. \A d \in Requesters : Amount(asked[d]) \in Nat /\ Amount(asked[d]) <= StakeUnit
          BY <1>0, AmountTypes
      <4> QED BY <3>4, <4>1, PendingSplits
    <3>6. WeekLimit \in Int /\ RecWeekly \in Nat BY WeekTypes DEF WeekLimit
    <3> QED BY <3>2, <3>4, <3>5, <3>6
  <2> QED BY <2>1, <2>2
<1>5. \A n \in 1 .. Len(made) : Rec!Week(made[n].at) <= v
  <2> HIDE DEF v, w
  <2> QED BY <1>2, <1>3
<1> QED BY <1>1, <1>4, <1>5 DEF WeekInv

LEMMA WeekStepHolds ==
    ASSUME WeekInv, [Rec!Next]_Rec!vars
    PROVE  WeekInv'
<1>0. RatedInv /\ RatedInv' BY RatedStep DEF WeekInv
<1>1. ASSUME NEW c \in Requesters, NEW r \in Rec!Requests, Rec!Request(c, r) PROVE WeekInv'
  <2> DEFINE f == [pc |-> "select", request |-> r, captured |-> now - r.age]
  <2>1. /\ asked[c].pc = "idle" /\ Rec!Goto(c, f) /\ f.pc = "select"
        /\ UNCHANGED <<made, now>>
      BY <1>1 DEF Rec!Request
  <2> HIDE DEF f
  <2> QED BY <1>0, <2>1, UnstakedMoves
<1>2. ASSUME NEW c \in Requesters, Rec!Select(c) PROVE WeekInv'
  <2>1. /\ asked[c].pc = "select" /\ UNCHANGED <<made, now>>
        /\ \E f : f.pc = "exposure" /\ Rec!Goto(c, f)
      BY <1>2 DEF Rec!Select
  <2> QED BY <1>0, <2>1, UnstakedMoves
<1>3. ASSUME NEW c \in Requesters, Rec!ReadExposure(c) PROVE WeekInv'
    BY <1>0, <1>3, ExposureWeek
<1>4. ASSUME NEW c \in Requesters, Rec!Insert(c) PROVE WeekInv' BY <1>0, <1>4, RecommendWeek
<1>5. ASSUME NEW o \in Offers, Rec!Store(o) PROVE WeekInv'
  <2>1. UNCHANGED <<made, now, asked>> BY <1>5 DEF Rec!Store
  <2> QED BY <1>0, <2>1, WeekSame
<1>6. CASE Rec!Tick BY <1>0, <1>6, TickWeek
<1>7. CASE UNCHANGED Rec!vars
  <2>1. UNCHANGED <<made, now, asked>> BY <1>7 DEF Rec!vars
  <2> QED BY <1>0, <2>1, WeekSame
<1> QED BY <1>1, <1>2, <1>3, <1>4, <1>5, <1>6, <1>7 DEF Rec!Next

LEMMA WeekInit ==
    ASSUME Rec!Init
    PROVE  WeekInv
<1>1. RatedInv /\ made = <<>> /\ Len(made) = 0 /\ asked = [c \in Requesters |-> Rec!Idle]
    BY RatedInit DEF Rec!Init
<1>2. \A w : InWeek(made, w) = 0
  <2>1. Total(made, {}) = 0
    <3>1. Len(made) \in Nat /\ Counted(made, Len(made)) BY <1>1, StakesAreTotal
    <3> QED BY <3>1, TotalAdds
  <2>2. \A w : {n \in 1 .. Len(made) : Rec!Week(made[n].at) = w} = {} BY <1>1
  <2> QED BY <2>1, <2>2 DEF InWeek
<1>3. PICK c \in Requesters : TRUE BY WeekTypes
<1>4. \A d \in Requesters : Amount(asked[d]) = 0
  <2>1. Rec!Idle.pc # "insert" BY DEF Rec!Idle
  <2> QED BY <1>1, <2>1 DEF Amount
<1>5. PICK rest \in Nat : Pending(asked) = rest /\ RecWeekly + rest <= WeekLimit
  <2>1. \A d \in Requesters : Amount(asked[d]) \in Nat /\ Amount(asked[d]) <= StakeUnit
      BY <1>4, WeekTypes
  <2> QED BY <1>3, <1>4, <2>1, PendingSplits
<1>6. WeekLimit \in Int /\ RecWeekly \in Nat BY WeekTypes DEF WeekLimit
<1>7. 0 <= WeekLimit /\ 0 + Pending(asked) <= WeekLimit BY <1>5, <1>6
<1> QED BY <1>1, <1>2, <1>7 DEF WeekInv

LEMMA WeekHolds ==
    ASSUME WeekInv
    PROVE  Rec!WeekWithinLimit
<1>1. DOMAIN made = 1 .. Len(made) BY StakesAreTotal DEF WeekInv
<1>2. MaxTime \in Nat
    BY RecommendingAssumption DEF Rec!RecommendationAssumption, Rec!RequestsAssumption
<1>3. Rec!Week(MaxTime) \in Int BY <1>2, WeeksGoOn
<1>4. \A w \in 0 .. Rec!Week(MaxTime) : InWeek(made, w) <= WeekLimit
  <2>1. \A w \in 0 .. Rec!Week(MaxTime) : w \in Int BY <1>3
  <2> QED BY <2>1 DEF WeekInv
<1>5. WeekLimit = RecWeekly + (Rec!Cardinality(Requesters) - 1) * Rec!Least(RecUnit, RecSingle)
    BY DEF WeekLimit, StakeUnit, Rec!Cardinality, Cardinality
<1> QED BY <1>1, <1>4, <1>5
    DEF Rec!WeekWithinLimit, InWeek, Total, Taken, Rec!MapThenSumSet, Rec!MapThenFoldSet

-----------------------------------------------------------------------------

\* For any number of requests served at once, whatever ingestion stores meanwhile: what
\* is recommended rests on the best of the offers there were, of two recommendations
\* the better founded one is rated no lower, and a week exceeds its limit by no more
\* than one stake for each further caller (create_projection, select_best_line,
\* RecommendationPolicy.decide, BankrollRules.stake_for).
THEOREM RecommendationsAreBest == OffersHaveLines => (Rec!Spec => []RecommendedIsBest)
<1>1. SUFFICES ASSUME OffersHaveLines PROVE Rec!Spec => []RecommendedIsBest OBVIOUS
<1>2. Rec!Init => WeekInv BY WeekInit
<1>3. WeekInv /\ [Rec!Next]_Rec!vars => WeekInv' BY WeekStepHolds
<1>4. WeekInv => RecommendedIsBest BY <1>1, RatedIsBest, WeekHolds DEF RecommendedIsBest, WeekInv
<1> QED BY <1>2, <1>3, <1>4, PTL DEF Rec!Spec
=============================================================================
