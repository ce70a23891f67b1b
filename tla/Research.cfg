SPECIFICATION SpecParts
CONSTANTS
    p = p  q = q  r = r  TeamA = TeamA  TeamB = TeamB  TeamC = TeamC  TeamD = TeamD
    f1 = f1  f2 = f2  g1 = g1  g2 = g2  l1 = l1  Absent = Absent  Partial = Partial
    stats = stats  schedules = schedules
    None = None
    Schedules <- MCSchedules
    BoxesOf <- MCBoxesOf
    Players = {p, q, r}
    Windows = {1, 2}
    Short = 1
    Long = 2
    Configs <- Configurations
    Tables <- Evaluated
    MinimumTrainingRows = 1
    MinimumEvaluationRows = 1
    Contents = {f1, f2}
    Registries = {g1, g2}
    Loaders = {l1}
    MaxWrites = 3
    MaxLoads = 2
    Datasets <- MCDatasets
    SourceSeasons <- MCSeasons
    Deliveries <- MCDeliveries
    Caches <- MCCaches
    MaxDownloads = 2
INVARIANTS FeaturesRestOnThePast BaselinesRestOnThePast EvaluationIsHonest
PROPERTIES LoadedTableIsTheDescribedOne DownloadsAreDescribed
CHECK_DEADLOCK FALSE
