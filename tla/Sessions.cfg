\* Distinct cookie prefixes, distinct secrets, or both.
SPECIFICATION Spec
CONSTANTS
    Users = {u1, u2}
    Flows = {f1, f2, f3}
    Deployments <- MCDeployments
    PromptLogin = {"admin"}
    Nobody = Nobody
    NoCookie = NoCookie
    NoSession = NoSession
SYMMETRY SessionSymmetry
INVARIANTS
    TypeOK
    IndependentSessions
    NeverTheOthersSession
    FailsOnlyForItsOwnApp
    PortalOnlyForAdmins
    NobodySilentlyInAdmin
