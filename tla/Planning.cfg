SPECIFICATION SpecParts
CONSTANTS
    a1 = a1  a2 = a2  a3 = a3  p1 = p1  p2 = p2  d1 = d1  d2 = d2  d3 = d3  d4 = d4
    s1 = s1  s2 = s2  o1 = o1  o2 = o2  k1 = k1  k2 = k2  empty = empty
    v1 = v1  refused = refused  stray = stray  mixed = mixed  y1 = y1  y2 = y2  g1 = g1
    n1 = n1  n2 = n2  n3 = n3
    None = None
    Callers = {a1, a2, a3}
    Drafts = {d1, d2, d3, d4}
    CanonicalOf <- MCCanonicalOf
    ScopeOf <- MCScopeOf
    OrganizationOf <- MCOrganizationOf
    Keys = {k1, k2, empty}
    EmptyKey = empty
    Planners = {p1, p2}
    Policies = {y1, y2}
    Configurations = {g1}
    Validations = {v1, refused, stray, mixed}
    ValidationOf <- MCValidationOf
    Inputs <- MCInputs
    StepIds = {n1, n2, n3}
    Capabilities = {y1, y2}
    Evidence = {"e", "f", "request", "request digest", "validation", "validation digest"}
    Results <- RuleResults
INVARIANTS PlansStand PlansRestOnAcceptedEvidence AdmissionsStand AcceptedWorkIsSchedulable SameContentSameMeaning
PROPERTY RetriesConverge
SYMMETRY ThreadSymmetry
