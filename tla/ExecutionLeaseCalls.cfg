SPECIFICATION Spec
CONSTANTS
    c1 = c1  c2 = c2  l1 = l1  l2 = l2  s1 = s1  offer = offer  initiate = initiate
    wide = wide  narrow = narrow  late = late  denied = denied  halt = halt
    k1 = k1  k2 = k2
    None = None
    Callers = {c1, c2}
    Lineages = {l1}
    Scopes = {s1}
    ScopeOf <- MCScopeOf
    Permissions = {offer, initiate}
    AuthorizationOf <- MCAuthorizationOf
    Revocations = {halt}
    RevocationOf <- MCRevocationOf
    Authorizations = {wide, narrow, late, denied}
    Keys = {k1, k2}
    Requests <- CallRequests
    Times = {1, 2}
INVARIANTS AnswersAreCommitted BoundariesStayDecided
SYMMETRY CallerSymmetry
