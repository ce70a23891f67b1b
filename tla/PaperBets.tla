------------------------------ MODULE PaperBets ------------------------------
(***************************************************************************)
(* Paper bets: placed after checks against the bets there are, closed with  *)
(* a closing line, settled.  Each endpoint runs in a worker thread with its *)
(* own session, and every statement of it sees what is committed by then.   *)
(***************************************************************************)
EXTENDS Odds, FiniteSetsExt

CONSTANTS
    Callers,
    Placers,          \* those of them that place bets
    Recommended,      \* recommendation -> the prop line it is about
    Stakes,           \* amounts callers ask for
    DefaultUnit,
    MaxSingle, MaxWeekly, MaxPlayer, MaxEvent,     \* BankrollRules
    ClosingLines,     \* closing lines and odds
    Outcomes,         \* SettlementOutcome
    SettledTimes,     \* settlement times, which callers choose
    MaxBets, MaxWeek  \* bounds: bets placed, weeks that begin

VARIABLES
    bets,     \* paper_bets with their closing and settlement rows, in the order of their ids
    week,     \* the week the clock is in
    call      \* where each caller is

vars == <<bets, week, call>>

Recommendations == DOMAIN Recommended

\* The stake of a bet is the one asked for or the default, in whole dollars.
Amounts == Stakes \cup {DefaultUnit}

ASSUME LimitsAssumption ==
    /\ Placers \subseteq Callers /\ Amounts \subseteq Nat
    /\ {MaxSingle, MaxWeekly, MaxPlayer, MaxEvent, MaxBets} \subseteq Nat
    /\ MaxWeek \in Nat \ {0}

Line(b) == Recommended[b.rec]

-----------------------------------------------------------------------------
(* Arithmetic                                                               *)

\* calculate_clv: whether the bet beat the closing line, and the percentage, as
\* the two odds it is the ratio of, when both are the same contract.
BeatsClose(side, line, odds, closing) ==
    IF line # None /\ closing.line # None /\ line # closing.line /\ side \in {"over", "under"}
    THEN IF side = "over" THEN line < closing.line ELSE line > closing.line
    ELSE Above(DecimalOdds(odds), DecimalOdds(closing.odds))

Clv(line, odds, closing) ==
    IF line = closing.line THEN <<DecimalOdds(odds), DecimalOdds(closing.odds)>> ELSE None

\* The cent next to p / q, the even one of two.
Nearest(p, q) ==
    LET low == p \div q
        rest == 2 * (p % q)
    IN  IF rest > q \/ (rest = q /\ low % 2 = 1) THEN low + 1 ELSE low

\* What a settled bet brings, in cents; stakes are in dollars.
Profit(outcome, stake, odds) ==
    CASE outcome = "WIN" -> Nearest(IF odds > 0 THEN stake * odds * 100 ELSE stake * 10000,
                                    IF odds > 0 THEN 100 ELSE -odds)
      [] outcome = "LOSS" -> -(stake * 100)
      [] outcome = "PUSH" -> 0

\* Settlement, as it can be written for a bet of this kind.
SettlementRows ==
    {[outcome |-> o, at |-> t, profit |-> Profit(o, stake, Recommended[rec].odds)] :
        o \in Outcomes, t \in SettledTimes, stake \in Amounts, rec \in Recommendations}

ASSUME NoneAssumption == None \notin SettlementRows

-----------------------------------------------------------------------------
(* The checks                                                               *)

\* UNSETTLED_STATUSES
Unsettled == {"ACTIVE", "CLOSED"}

StakeOf(positions) == MapThenSumSet(LAMBDA n : bets[n].stake, positions)

UnsettledBets == {n \in DOMAIN bets : bets[n].status \in Unsettled}

OnPlayer(line) == {n \in UnsettledBets : Line(bets[n]).player = line.player}
OnEvent(line) == {n \in UnsettledBets : Line(bets[n]).event = line.event}

SameContract(x, y) ==
    <<x.player, x.event, x.market, x.side>> = <<y.player, y.event, y.market, y.side>>

\* Mutant: what is there already is compared, without the stake.
WithinLimits_Before(stake, weekly, player, event) ==
    stake <= MaxSingle /\ weekly <= MaxWeekly /\ player <= MaxPlayer /\ event <= MaxEvent

\* BankrollRules.exposure_rejections is empty.
WithinLimits(stake, weekly, player, event) ==
    /\ stake <= MaxSingle
    /\ weekly + stake <= MaxWeekly
    /\ player + stake <= MaxPlayer
    /\ event + stake <= MaxEvent

-----------------------------------------------------------------------------
(* Placing a bet                                                            *)

Idle == [pc |-> "idle"]

Goto(c, frame) == call' = [call EXCEPT ![c] = frame]

\* The call is answered: with the bet, 404, 409, or 500 for an exception.
Answer(c, answer) == Goto(c, Idle)

Placing(c) == call[c].pc \in {"duplicate", "weekly", "player", "event", "correlation", "insert"}

\* The recommendation is read; recommendations and prop lines do not change.
Create(c, rec, stake) ==
    /\ call[c].pc = "idle"
    /\ Len(bets) + Cardinality({d \in Callers : Placing(d)}) < MaxBets
    /\ IF rec = None THEN Answer(c, "not found")
       ELSE Goto(c, [pc |-> "duplicate", rec |-> rec, since |-> None,
                     stake |-> IF stake = None THEN DefaultUnit ELSE stake,
                     weekly |-> 0, player |-> 0, flags |-> {}])
    /\ UNCHANGED <<bets, week>>

Wanted(c) == Recommended[call[c].rec]

\* A duplicate is refused; otherwise the week begins where the clock says.
CheckDuplicate(c) ==
    /\ call[c].pc = "duplicate"
    /\ IF \E n \in UnsettledBets : SameContract(Line(bets[n]), Wanted(c))
       THEN Answer(c, "duplicate")
       ELSE Goto(c, [call[c] EXCEPT !.pc = "weekly", !.since = week])
    /\ UNCHANGED <<bets, week>>

ReadWeekly(c) ==
    /\ call[c].pc = "weekly"
    /\ Goto(c, [call[c] EXCEPT !.pc = "player",
           !.weekly = StakeOf({n \in DOMAIN bets : bets[n].week >= call[c].since})])
    /\ UNCHANGED <<bets, week>>

ReadPlayer(c) ==
    /\ call[c].pc = "player"
    /\ Goto(c, [call[c] EXCEPT !.pc = "event", !.player = StakeOf(OnPlayer(Wanted(c)))])
    /\ UNCHANGED <<bets, week>>

\* The event's exposure is read and the limits are applied.
ReadEvent(c) ==
    /\ call[c].pc = "event"
    /\ IF WithinLimits(call[c].stake, call[c].weekly, call[c].player, StakeOf(OnEvent(Wanted(c))))
       THEN Goto(c, [call[c] EXCEPT !.pc = "correlation"])
       ELSE Answer(c, "exposure")
    /\ UNCHANGED <<bets, week>>

ReadActive(c) ==
    /\ call[c].pc = "correlation"
    /\ Goto(c, [call[c] EXCEPT !.pc = "insert",
           !.flags = (IF OnPlayer(Wanted(c)) = {} THEN {} ELSE {"SAME_PLAYER"})
                     \cup (IF OnEvent(Wanted(c)) = {} THEN {} ELSE {"SAME_EVENT"})])
    /\ UNCHANGED <<bets, week>>

Insert(c) ==
    /\ call[c].pc = "insert"
    /\ bets' = Append(bets, [rec |-> call[c].rec, stake |-> call[c].stake, week |-> week,
                             status |-> "ACTIVE", flags |-> call[c].flags,
                             closing |-> None, settlement |-> None])
    /\ Answer(c, "placed")
    /\ UNCHANGED week

-----------------------------------------------------------------------------
(* Closing and settling                                                     *)

\* The bet is read with its two rows: 404, 409 or on to the write.
Close(c, n, closing) ==
    /\ call[c].pc = "idle"
    /\ IF n \notin DOMAIN bets THEN Answer(c, "not found")
       ELSE IF bets[n].closing # None THEN Answer(c, "already closed")
       ELSE IF closing.odds = 0 THEN Answer(c, "error")
       ELSE Goto(c, [pc |-> "close", bet |-> n, closing |-> closing])
    /\ UNCHANGED <<bets, week>>

\* Closing line and status are committed, unless another closing line was: the
\* row is unique to the bet.
RecordClosing(c) ==
    LET n == call[c].bet
        line == Line(bets[n])
        closing == call[c].closing
    IN  /\ call[c].pc = "close"
        /\ IF bets[n].closing # None
           THEN Answer(c, "error") /\ UNCHANGED bets
           ELSE /\ bets' = [bets EXCEPT ![n].status = "CLOSED",
                       ![n].closing = [line |-> closing.line, odds |-> closing.odds,
                                       beat |-> BeatsClose(line.side, line.line, line.odds, closing),
                                       clv |-> Clv(line.line, line.odds, closing)]]
                /\ Answer(c, "closed")
        /\ UNCHANGED week

Settle(c, n, outcome, at) ==
    /\ call[c].pc = "idle"
    /\ IF n \notin DOMAIN bets THEN Answer(c, "not found")
       ELSE IF bets[n].settlement # None THEN Answer(c, "already settled")
       ELSE Goto(c, [pc |-> "settle", bet |-> n, outcome |-> outcome, at |-> at])
    /\ UNCHANGED <<bets, week>>

\* Mutant: a settlement that comes second counts as well.
RecordSettlement_Again(c) ==
    LET n == call[c].bet
        outcome == call[c].outcome
    IN  /\ call[c].pc = "settle"
        /\ bets' = [bets EXCEPT ![n].status = "SETTLED",
               ![n].settlement = [outcome |-> outcome, at |-> call[c].at,
                                  profit |-> Profit(outcome, bets[n].stake, Line(bets[n]).odds)]]
        /\ Answer(c, "settled")
        /\ UNCHANGED week

RecordSettlement(c) ==
    LET n == call[c].bet
        outcome == call[c].outcome
    IN  /\ call[c].pc = "settle"
        /\ IF bets[n].settlement # None
           THEN Answer(c, "error") /\ UNCHANGED bets
           ELSE /\ bets' = [bets EXCEPT ![n].status = "SETTLED",
                       ![n].settlement =
                           [outcome |-> outcome, at |-> call[c].at,
                            profit |-> Profit(outcome, bets[n].stake, Line(bets[n]).odds)]]
                /\ Answer(c, "settled")
        /\ UNCHANGED week

NextWeek ==
    /\ week < MaxWeek
    /\ week' = week + 1
    /\ UNCHANGED <<bets, call>>

-----------------------------------------------------------------------------
(* Performance, read in one statement                                       *)

Settled == {n \in DOMAIN bets : bets[n].settlement # None}

\* Settled bets by their settlement time, in the order placed when it is one.
BySettlement ==
    SetToSortSeq(Settled, LAMBDA m, n :
        \/ bets[m].settlement.at < bets[n].settlement.at
        \/ bets[m].settlement.at = bets[n].settlement.at /\ m < n)

Larger(x, y) == IF x > y THEN x ELSE y

MaximumDrawdown ==
    FoldLeft(LAMBDA d, n :
                 LET sum == d.sum + bets[n].settlement.profit
                     peak == Larger(d.peak, sum)
                 IN  [sum |-> sum, peak |-> peak, fall |-> Larger(d.fall, peak - sum)],
             [sum |-> 0, peak |-> 0, fall |-> 0], BySettlement).fall

-----------------------------------------------------------------------------

Init ==
    /\ bets = <<>>
    /\ week = 1
    /\ call = [c \in Callers |-> Idle]

CallStep(c) ==
    \/ CheckDuplicate(c) \/ ReadWeekly(c) \/ ReadPlayer(c) \/ ReadEvent(c)
    \/ ReadActive(c) \/ Insert(c) \/ RecordClosing(c) \/ RecordSettlement(c)

Next ==
    \/ \E c \in Callers :
          \/ CallStep(c)
          \/ \E rec \in Recommendations \cup {None}, stake \in Stakes \cup {None} :
                c \in Placers /\ Create(c, rec, stake)
          \/ \E n \in 1 .. MaxBets, closing \in ClosingLines : Close(c, n, closing)
          \/ \E n \in 1 .. MaxBets, outcome \in Outcomes, at \in SettledTimes :
                Settle(c, n, outcome, at)
    \/ NextWeek

Spec == Init /\ [][Next]_vars

-----------------------------------------------------------------------------
(* Properties                                                               *)

Open == DOMAIN bets \ Settled

\* README: $10 single stake, $50 weekly exposure, $15 active player exposure,
\* $20 active event exposure.
ExposureWithinLimits ==
    /\ \A n \in DOMAIN bets : bets[n].stake <= MaxSingle
    /\ \A w \in 1 .. MaxWeek : StakeOf({n \in DOMAIN bets : bets[n].week = w}) <= MaxWeekly
    /\ \A n \in Open :
          /\ StakeOf({m \in Open : Line(bets[m]).player = Line(bets[n]).player}) <= MaxPlayer
          /\ StakeOf({m \in Open : Line(bets[m]).event = Line(bets[n]).event}) <= MaxEvent

\* README: duplicate unsettled bets on the same player, event, market and side
\* are rejected, whatever is closed or settled while a bet is placed.
OneUnsettledBet ==
    \A m, n \in Open : SameContract(Line(bets[m]), Line(bets[n])) => m = n

\* Two open bets on one player or event are not both without the flag that says so.
CorrelationFlagged ==
    \A m, n \in Open : m < n =>
       /\ Line(bets[m]).player = Line(bets[n]).player => "SAME_PLAYER" \in bets[n].flags
       /\ Line(bets[m]).event = Line(bets[n]).event => "SAME_EVENT" \in bets[n].flags

\* With one caller placing, open bets stay within every limit, no contract has
\* two of them, and those that share a player or an event are flagged, whatever
\* is closed or settled meanwhile (create_paper_bet, BankrollRules).
OpenBetsWithinRules == ExposureWithinLimits /\ OneUnsettledBet /\ CorrelationFlagged

\* However many callers close and settle a bet, its first closing line and its
\* first settlement stay as they are.
FirstRecordStays ==
    [][\A n \in DOMAIN bets :
          /\ bets[n].closing # None => bets'[n].closing = bets[n].closing
          /\ bets[n].settlement # None => bets'[n].settlement = bets[n].settlement]_vars

\* performance: the drawdown is the largest fall of the profit between two
\* settlements, or from the beginning, along the times of settlement.
DrawdownIsLargestFall ==
    LET UpTo(n) == {m \in Settled : \/ bets[m].settlement.at < bets[n].settlement.at
                                    \/ bets[m].settlement.at = bets[n].settlement.at /\ m <= n}
        Sum(ns) == MapThenSumSet(LAMBDA m : bets[m].settlement.profit, ns)
        falls == {Sum(UpTo(m)) - Sum(UpTo(n)) : m, n \in Settled}
    IN  \A n \in Settled : \A before \in {UpTo(m) : m \in UpTo(n)} \cup {{}} :
           /\ MaximumDrawdown >= Sum(before) - Sum(UpTo(n))
           /\ MaximumDrawdown \in falls \cup {-Sum(UpTo(m)) : m \in Settled} \cup {0}

\* README: only unsettled bets are exposure or duplicates.
\* Not so of this code: README, Divergences.
OnlyUnsettledCount == UnsettledBets = Open
=============================================================================
