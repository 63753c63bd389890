\* Two sign-ins of two attempts each, racing, with fixed keys.
SPECIFICATION Spec
CONSTANTS
    s1 = s1  s2 = s2  web = web  admin = admin
    k1 = k1  k2 = k2  alice = alice  bob = bob  old = old  new = new
    SignIns = {s1, s2}
    Clients = {web, admin}
    ClientOf <- AllInWeb
    Realm = realm
    Documents <- OneDocument
    TokenClaims <- RaceClaims
    EmptyName = EmptyName
    NoProfile = NoProfile
    NoClaims = NoClaims
    NoToken = NoToken
    SyncAttempts = 2
    MaxPublished = 1
SYMMETRY SignInSymmetry
INVARIANT
    SyncedIsOwnProfile
