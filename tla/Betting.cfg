SPECIFICATION SpecParts
CONSTANTS
    brown = brown  game = game  derby = derby  c1 = c1  c2 = c2  c3 = c3  c4 = c4
    b1 = b1  b2 = b2  b3 = b3  x1 = x1  x2 = x2
    None = None
    Callers = {c1, c2}
    Placers = {c1}
    Recommended <- MCRecommended
    Stakes = {4}
    DefaultUnit = 2
    MaxSingle = 3
    MaxWeekly = 5
    MaxPlayer = 4
    MaxEvent = 4
    Outcomes = {"PUSH"}
    ClosingLines <- OneClosingLine
    SettledTimes = {1}
    Requesters = {c3, c4}
    Offers <- MCOffers
    Chances = {51}
    Confidences <- MCConfidences
    Weights <- MCWeights
    MinWatchEv = 0
    MinBetEv = 5
    MinWatchConfidence = 50
    MinBetConfidence = 70
    Fresh = 0
    Stale = 1
    WeekLength = 2
    MaxLines = 2
    MaxRecommendations = 2
    MaxTime = 2
    RecUnit = 3
    RecSingle = 4
    RecWeekly = 4
    MaxBets = 3
    MaxWeek = 2
INVARIANTS OpenBetsWithinRules RecommendedIsBest OrdersAreTrue
PROPERTY SettledBetsStand
SYMMETRY PartSymmetry
CHECK_DEADLOCK FALSE
