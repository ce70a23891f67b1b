SPECIFICATION SpecParts
CONSTANTS
    c0 = c0  c1 = c1  c2 = c2  x1 = x1  x2 = x2  t1 = t1  t2 = t2  item = item  other = other
    s1 = s1  s2 = s2  plan = plan  bare = bare  chosen = chosen  late = late
    alien = alien  ready = ready  spoiled = spoiled  fresh = fresh  foreign = foreign  lease = lease
    halted = halted  loose = loose  narrow = narrow  b1 = b1  b2 = b2  k1 = k1  k2 = k2
    empty = empty  w1 = w1  w2 = w2  gpu = gpu  fit = fit  load = load  e1 = e1  e2 = e2  e3 = e3
    None = None
    Streams = {t1, t2}
    StreamOf <- MCStreamOf
    Keys = {k1, k2}
    Boundaries = {b1, b2}
    ArtifactId <- MCArtifactId
    Plans = {plan, bare}
    PlanOf <- MCPlanOf
    Selections = {chosen, late, alien}
    SelectionOf <- MCSelectionOf
    Readiness = {ready, spoiled, fresh, foreign}
    ReadinessOf <- MCReadinessOf
    Leases = {lease, halted, loose, narrow}
    LeaseOf <- MCLeaseOf
    Callers = {c1, c2}
    Requests <- MCRequests
    SelStreams = {w1}
    SelCallers = {c1, c2}
    SelRequests <- MCSelRequests
    SelKeys = {k1, k2, empty}
    EmptyKey = empty
    Versions = {0, 1, 2}
    Capabilities = {gpu}
    Weights <- MCWeights
    Unit = 2
    One = 8
    References = {e1, e2, e3}
INVARIANTS ApprovalsWarranted DecisionsStand SelectionsStand RankingAsDocumented
PROPERTY RetriesConverge
SYMMETRY CallerSymmetry
