SPECIFICATION SpecParts
CONSTANTS
    r1 = r1  r2 = r2  r3 = r3  r4 = r4  fake = fake  typo = typo
    today = today  later = later  junk = junk  nothing = nothing
    game = game  receptions = receptions  touchdown = touchdown
    jr = jr  white = white  book = book  Book = Book  dashed = dashed  spaced = spaced
    s1 = s1  s2 = s2  pa = pa  pb = pb  pc = pc  gabe = gabe  gabriel = gabriel  davis = davis
    mike = mike
    None = None
    Runs = {r1, r2, r3, r4}
    ProcessOf <- MCProcessOf
    Providers = {fake, typo}
    Registered = {fake}
    Payloads = {today, later, junk, nothing}
    KindOf <- MCKindOf
    RowsOf <- MCRowsOf
    MaxAttempts = 2
    Sessions = {s1, s2}
    AliasProviders = {pa, pb, pc}
    Names = {gabe, gabriel, mike, jr, white}
    NormalOf <- MCNormalOf
    MaxOffers = 2
    FoldOf <- MCFoldOf
    KeyOf <- MCKeyOf
    Blank = {white}
    Binary = touchdown
    MaxLine = 9
    Implied <- MCImplied
    RecordLists <- MCRecordLists
    MaxPayloads = 2
INVARIANT SuppressedOffersAreStored
CHECK_DEADLOCK FALSE
