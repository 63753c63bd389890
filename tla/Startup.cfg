\* Any single variable may be missing in each API; no bound is needed.
SPECIFICATION FairSpec
CONSTANT
    MissingVariables = {"nothing", "DATABASE_URL", "KEYCLOAK_JWKS_URL", "KEYCLOAK_ISSUER",
                        "KEYCLOAK_ALLOWED_AZP"}
INVARIANTS
    TypeOK
    RunsOnItsSchema
    NoStartupRace
PROPERTIES
    ComesUp
