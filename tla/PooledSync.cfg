\* Three requests behind two connections; Postgres may leave the first without an answer.
SPECIFICATION PooledFairSpec
CONSTANTS
    r1 = r1  r2 = r2  r3 = r3
    k1 = k1  k2 = k2
    alice = alice  bob = bob  pic = pic  plain = plain  edited = edited
    Requests = {r1, r2, r3}
    Identities = {k1, k2}
    NilUUID = NilUUID
    NotAUUID = NotAUUID
    Usernames = {alice, bob}
    EmptyName = EmptyName
    Pictures = {pic}
    Bios = {plain, edited}
    DefaultBio = plain
    NoProfile = NoProfile
    NoClaims = NoClaims
    TokenClaims <- RaceClaims
    Unanswered = {r1}
    MaxConns = 2
INVARIANTS
    PooledTypeOK
    HeldOnlyByItsStatement
PROPERTIES
    ImplementsFairSync
    OthersEnd
CHECK_DEADLOCK FALSE
