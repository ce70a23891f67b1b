SPECIFICATION Spec
CONSTANTS
    c1 = c1  c2 = c2  l1 = l1  l2 = l2  s1 = s1  x = x  y = y
    dx = dx  dy = dy  dz = dz  alice = alice  bob = bob  carol = carol
    ea = ea  eb = eb  ec = ec  k1 = k1  k2 = k2
    None = None
    Callers = {c1, c2}
    Lineages = {l1}
    Scopes = {s1}
    ScopeOf <- MCScopeOf
    Keys <- RaceKeys
    Dispatches = {dx}
    DispatchOf <- MCDispatchOf
    Evidence = {ea, eb}
    EvidenceOf <- MCEvidenceOf
    Candidates = {x, y}
    Claimants = {alice, bob, carol}
    TTL = 1
    Requests <- RaceRequests
INVARIANTS IndexesAgree HistoriesReplay ClaimsExclude FencesCountAcceptances GenerationsChain
PROPERTIES AppendOnly ImplementsRegister
SYMMETRY CallerSymmetry
