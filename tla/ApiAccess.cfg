\* Either API, in every environment it may be started in.
SPECIFICATION Spec
CONSTANTS
    ana = ana  web = web  admin = admin  other = other  old = old  new = new
    Users = {ana}
    Roles = {"user", "admin"}
    Clients = {web, admin, other}
    Realm = realm
    Documents <- MCDocuments
    Apis <- MCApis
    Strays <- MCStrays
    Lifetime = 2
    Blank = Blank
    NoToken = NoToken
    MaxTime = 4
    MaxTokens = 1
    MaxPublished = 2
INVARIANTS
    TypeOK
    AdmitsOnlyTrustedLogins
    TurnsAwayOnlyForKeyOrAge
    RolesLagAtMostALifetime
