\* One sign-in of either kind of user, two attempts, two rotations.
SPECIFICATION FairSpec
CONSTANTS
    s1 = s1  s2 = s2  web = web  admin = admin
    k1 = k1  k2 = k2  alice = alice  bob = bob  old = old  new = new
    SignIns = {s1}
    Clients = {web, admin}
    ClientOf <- AllInAdmin
    Realm = realm
    Documents <- MCDocuments
    TokenClaims <- MCTokenClaims
    EmptyName = EmptyName
    NoProfile = NoProfile
    NoClaims = NoClaims
    NoToken = NoToken
    SyncAttempts = 2
    MaxPublished = 3
INVARIANTS
    TypeOK
PROPERTIES
    RejectedOnlyForItsKey
    SignInEnds
