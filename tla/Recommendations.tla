--------------------------- MODULE Recommendations ---------------------------
(***************************************************************************)
(* create_projection: a caller's model probability is set against the best  *)
(* stored offer of the contract, rated, and given a stake within what the   *)
(* week has left, while ingestion stores offers and time passes.            *)
(***************************************************************************)
EXTENDS Odds, FiniteSetsExt

CONSTANTS
    Callers,
    Offers,           \* what ingestion may store of a contract: side, line, odds, delay
    Chances,          \* model probabilities, in hundredths
    Confidences,      \* confidence components callers send, in hundredths
    Weights,          \* component -> its weight, ConfidenceWeights
    MinWatchEv, MinBetEv, MinWatchConfidence, MinBetConfidence,      \* in hundredths
    Fresh, Stale,     \* ages in ticks
    DefaultUnit, MaxSingle, MaxWeekly,
    WeekLength,       \* ticks in a week
    MaxLines, MaxRecommendations, MaxTime     \* bounds

ThresholdAssumption ==
    /\ {MinWatchEv, MinBetEv, MinWatchConfidence, MinBetConfidence} \subseteq Int
    /\ MinWatchEv <= MinBetEv /\ MinWatchConfidence <= MinBetConfidence
    /\ {Fresh, Stale} \subseteq Nat /\ Fresh <= Stale

\* ConfidenceWeights refuses weights below 0 and those that are all 0.
WeightsAssumption ==
    /\ IsFiniteSet(DOMAIN Weights) /\ Weights \in [DOMAIN Weights -> Nat]
    /\ \E k \in DOMAIN Weights : Weights[k] # 0
    /\ Confidences \subseteq [DOMAIN Weights -> Nat]

\* No price is 0.
OffersAssumption ==
    Offers \subseteq [side : {"over", "under", "yes", "no"}, line : Int \cup {None},
                     odds : Int \ {0}, delay : Nat]

RequestsAssumption ==
    /\ IsFiniteSet(Callers) /\ Callers # {} /\ Chances \subseteq Nat
    /\ {DefaultUnit, MaxSingle, MaxWeekly, MaxLines, MaxTime} \subseteq Nat
    /\ WeekLength \in Nat \ {0}

RecommendationAssumption ==
    ThresholdAssumption /\ WeightsAssumption /\ OffersAssumption /\ RequestsAssumption

VARIABLES
    lines,            \* prop_lines of the contract, in the order of their ids
    made,             \* recommendations, with what they were made from
    now,
    call

vars == <<lines, made, now, call>>

-----------------------------------------------------------------------------
(* The decision                                                             *)

\* calculate_overall_confidence, as a fraction.
OverallConfidence(components) ==
    LET total == MapThenSumSet(LAMBDA k : Weights[k], DOMAIN Weights)
    IN  <<MapThenSumSet(LAMBDA k : Weights[k] * components[k], DOMAIN Weights), total>>

\* The expected return per dollar, as a fraction of hundredths.
ExpectedReturn(chance, odds) ==
    LET d == DecimalOdds(odds) IN <<chance * d[1] - 100 * d[2], d[2]>>

Below(x, threshold) == x[1] < threshold * x[2]

\* What keeps a rating from WATCH, and from BET.
Failures(ev, confidence, age) ==
    {r \in {"edge", "confidence", "stale"} :
        \/ r = "edge" /\ Below(ev, MinWatchEv)
        \/ r = "confidence" /\ Below(confidence, MinWatchConfidence)
        \/ r = "stale" /\ age > Stale}

Borderline(ev, confidence, age) ==
    {r \in {"edge", "confidence", "stale"} :
        \/ r = "edge" /\ Below(ev, MinBetEv)
        \/ r = "confidence" /\ Below(confidence, MinBetConfidence)
        \/ r = "stale" /\ age > Fresh}

\* RecommendationPolicy.decide
Decide(ev, confidence, age) ==
    LET failures == Failures(ev, confidence, age)
        borderline == Borderline(ev, confidence, age)
    IN  IF failures # {} THEN [rating |-> "PASS", reasons |-> failures]
        ELSE IF borderline # {} THEN [rating |-> "WATCH", reasons |-> borderline]
        ELSE [rating |-> "BET", reasons |-> {}]

Least(x, y) == IF x < y THEN x ELSE y

\* BankrollRules.stake_for
StakeFor(rating, exposure) ==
    IF rating # "BET" THEN 0
    ELSE Least(Least(DefaultUnit, MaxSingle), IF exposure > MaxWeekly THEN 0 ELSE MaxWeekly - exposure)

-----------------------------------------------------------------------------
(* The request                                                              *)

Idle == [pc |-> "idle"]

Goto(c, frame) == call' = [call EXCEPT ![c] = frame]

Requests == [line : 1 .. MaxLines, chance : Chances, components : Confidences, age : 0 .. MaxTime]

\* The requested line is read; of one that is not there nothing comes but a 404.
Request(c, r) ==
    /\ call[c].pc = "idle"
    /\ Len(made) + Cardinality({d \in Callers : call[d].pc # "idle"}) < MaxRecommendations
    /\ r.line \in DOMAIN lines /\ r.age <= now
    /\ Goto(c, [pc |-> "select", request |-> r, captured |-> now - r.age])
    /\ UNCHANGED <<lines, made, now>>

\* Mutant: the requested line is taken as it is.
Select_Requested(c) ==
    LET r == call[c].request
        line == lines[r.line]
        age == now - Least(line.captured, call[c].captured)
    IN  /\ call[c].pc = "select"
        /\ Goto(c, [pc |-> "exposure", request |-> r, line |-> line, age |-> age,
                    decision |-> Decide(ExpectedReturn(r.chance, line.odds),
                                        OverallConfidence(r.components), age)])
        /\ UNCHANGED <<lines, made, now>>

\* All lines of the contract are read, whenever they were captured, the best one
\* is chosen, and rated by the older of its time and the model input's.
Select(c) ==
    LET r == call[c].request
        line == lines[BestLine(lines)]
        age == now - Least(line.captured, call[c].captured)
    IN  /\ call[c].pc = "select"
        /\ Goto(c, [pc |-> "exposure", request |-> r, line |-> line, age |-> age,
                    decision |-> Decide(ExpectedReturn(r.chance, line.odds),
                                        OverallConfidence(r.components), age)])
        /\ UNCHANGED <<lines, made, now>>

Week(t) == t \div WeekLength

StakesSince(week) ==
    MapThenSumSet(LAMBDA n : made[n].stake, {n \in DOMAIN made : Week(made[n].at) >= week})

\* What was recommended since the week began is read.
ReadExposure(c) ==
    /\ call[c].pc = "exposure"
    /\ Goto(c, [pc |-> "insert", request |-> call[c].request, line |-> call[c].line,
                age |-> call[c].age, decision |-> call[c].decision,
                stake |-> StakeFor(call[c].decision.rating, StakesSince(Week(now)))])
    /\ UNCHANGED <<lines, made, now>>

\* Projection and recommendation are committed together.
Insert(c) ==
    /\ call[c].pc = "insert"
    /\ made' = Append(made, [request |-> call[c].request, line |-> call[c].line,
                             age |-> call[c].age, decision |-> call[c].decision,
                             stake |-> call[c].stake, at |-> now])
    /\ Goto(c, Idle)
    /\ UNCHANGED <<lines, now>>

\* Ingestion stores an offer it captured a while ago; what the contract's side is
\* the first one says.
Store(o) ==
    /\ Len(lines) < MaxLines /\ o.delay <= now
    /\ \A n \in DOMAIN lines : lines[n].side = o.side
    /\ lines' = Append(lines, [side |-> o.side, line |-> o.line, odds |-> o.odds,
                               captured |-> now - o.delay])
    /\ UNCHANGED <<made, now, call>>

Tick ==
    /\ now < MaxTime
    /\ now' = now + 1
    /\ UNCHANGED <<lines, made, call>>

Init ==
    /\ lines = <<>> /\ made = <<>>
    /\ now = 0
    /\ call = [c \in Callers |-> Idle]

Next ==
    \/ \E c \in Callers :
          \/ \E r \in Requests : Request(c, r)
          \/ Select(c) \/ ReadExposure(c) \/ Insert(c)
    \/ \E o \in Offers : Store(o)
    \/ Tick

Spec == Init /\ [][Next]_vars

-----------------------------------------------------------------------------
(* Properties                                                               *)

\* README: the expected value is computed against the best offer, so no line that
\* was there when the requested one was is better than the one recommended.
RatedAgainstBest ==
    \A n \in DOMAIN made : \A m \in 1 .. made[n].request.line :
        ~Better(lines[m], made[n].line)

\* The API and the command line agree on the best offer, and the ranking never
\* puts a better offer after a worse one.
RankingAgrees ==
    LET ranked == RankOffers(lines)
    IN  lines # <<>> =>
          /\ ranked[1] = BestLine(lines)
          /\ \A i, j \in DOMAIN ranked : i < j => ~Better(lines[ranked[j]], lines[ranked[i]])

Rank == [PASS |-> 0, WATCH |-> 1, BET |-> 2]

\* Of two recommendations the one with no less return and confidence and no more
\* age has no lower rating.
RatingsAreMonotone ==
    LET Ev(x) == ExpectedReturn(x.request.chance, x.line.odds)
        Certainty(x) == OverallConfidence(x.request.components)
    IN  \A m, n \in DOMAIN made :
          LET x == made[m]
              y == made[n]
          IN  ~Above(Ev(y), Ev(x)) /\ ~Above(Certainty(y), Certainty(x)) /\ x.age <= y.age
              => Rank[x.decision.rating] >= Rank[y.decision.rating]

\* README: what is recommended in a week stays within $50.  So it does of one
\* caller, whatever ends while a request is served; each caller more that is served
\* at once can add one stake, and no more, to it.
WeekWithinLimit ==
    \A w \in 0 .. Week(MaxTime) :
       MapThenSumSet(LAMBDA n : made[n].stake, {n \in DOMAIN made : Week(made[n].at) = w})
       <= MaxWeekly + (Cardinality(Callers) - 1) * Least(DefaultUnit, MaxSingle)

\* README: best-line ordering takes the lowest line for OVER and the highest for
\* UNDER.
ThresholdFirst ==
    \A n \in DOMAIN made : \A m \in 1 .. made[n].request.line :
        lines[m].line # None /\ made[n].line.side \in {"over", "under"} =>
            /\ made[n].line.line # None
            /\ IF made[n].line.side = "over" THEN made[n].line.line <= lines[m].line
               ELSE made[n].line.line >= lines[m].line
=============================================================================
