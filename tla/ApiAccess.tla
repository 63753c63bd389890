------------------------------ MODULE ApiAccess ------------------------------
(***************************************************************************)
(* Who gets into one API: its process reads its environment, fetches        *)
(* Keycloak's keys and then decides about bearer tokens, while time passes, *)
(* keys rotate and Keycloak's administrator changes who has which role.     *)
(* The API is public-api, whose POST /auth/sync requires no role, or        *)
(* admin-api, whose GET /admin/whoami requires "admin".                     *)
(***************************************************************************)
EXTENDS Naturals, Sequences, FiniteSets

CONSTANTS
    Users,
    Roles,          \* realm roles
    Clients,        \* the realm's clients
    Realm,          \* the issuer of the realm's tokens
    Documents,      \* key documents Keycloak may publish: non-empty sets of kids
    Apis,           \* the APIs, with each environment they may be started in
    Strays,         \* requests without a token, or with one no login produced
    Lifetime,       \* of an access token
    Blank, NoToken,
    MaxTime, MaxTokens, MaxPublished   \* bounds: ticks, tokens, key documents

Kids == UNION Documents

\* An access token a login produces.
TokenType == [alg : {"RS256"}, kid : Kids, signer : Kids, iss : {Realm},
              exp : Nat, azp : Clients, user : Users, roles : SUBSET Roles]

VARIABLES
    api,        \* the API: the roles its route requires, the clients whose tokens
                \* it is meant to take, and its process's environment
    now,        \* the time
    grants,     \* the roles each user has at Keycloak
    changed,    \* history: when they last changed
    signing,    \* the key Keycloak signs with
    tokens,     \* the access tokens users have been issued
    answer,     \* what the last step answered (0: nothing), and to which token
    published, keys, asOf    \* KeyCache's

keyVars == <<published, keys, asOf>>
vars == <<api, now, grants, changed, signing, tokens, answer, keyVars>>

Env == INSTANCE ServiceEnv

\* What an API is started with names its own realm or none, and its own clients:
\* all of them, unless the list is blank.
ASSUME ApisAssumption ==
    \A a \in Apis :
        /\ a.issuer \in {Realm, Blank}
        /\ Blank \notin a.trusted
        /\ \A i \in DOMAIN a.azp : a.azp[i].name \in a.trusted \cup {Blank}
        /\ (\E i \in DOMAIN a.azp : a.azp[i].name # Blank)
             => \A c \in a.trusted : \E i \in DOMAIN a.azp : a.azp[i].name = c

\* A request without a login: no token, or one that differs from every token of
\* a login in its algorithm, its key, its issuer, its age or its client.
ASSUME StraysAssumption ==
    \A t \in Strays \ {NoToken} :
        \/ t.alg # "RS256" \/ t.signer # t.kid \/ t.iss # Realm
        \/ t.exp = 0 \/ t.azp = Blank

ASSUME ConstantsAssumption ==
    /\ Lifetime \in Nat \ {0}
    /\ NoToken \notin TokenType

KidsOf(doc) == doc

SomeKid(doc) == doc # {}

Cache == INSTANCE KeyCache WITH KeysOf <- KidsOf, Usable <- SomeKid

Auth == INSTANCE RequireAuth
          WITH Issuer <- api.issuer, AllowedAZP <- Env!Elements(api.azp)

NoAnswer == [token |-> NoToken, status |-> 0]

Init == /\ api \in Apis
        /\ now = 0
        /\ grants \in [Users -> SUBSET Roles]
        /\ changed = [u \in Users |-> 0]
        /\ Cache!Init
        /\ signing \in published[1]
        /\ tokens = {}
        /\ answer = NoAnswer

-----------------------------------------------------------------------------
(* The API's process.                                                       *)

\* Mutant: the issuer may be missing.
Configured_NoIssuer == Env!MustEnvList(api.azp)

\* main gets past MustEnv and MustEnvList.
Configured == Env!MustEnv(api.issuer) /\ Env!MustEnvList(api.azp)

Start == /\ Configured
         /\ Cache!Start
         /\ answer' = NoAnswer
         /\ UNCHANGED <<api, now, grants, changed, signing, tokens>>

LearnKeys == /\ Cache!Refresh
             /\ answer' = NoAnswer
             /\ UNCHANGED <<api, now, grants, changed, signing, tokens>>

Stop == /\ Cache!Stop
        /\ answer' = NoAnswer
        /\ UNCHANGED <<api, now, grants, changed, signing, tokens>>

\* A request of the route, all the way through the middlewares.
Request(t) ==
    /\ Cache!Serving
    /\ answer' = [token |-> t, status |-> Auth!StatusOf(t, keys, now, api.required)]
    /\ UNCHANGED <<api, now, grants, changed, signing, tokens, keyVars>>

-----------------------------------------------------------------------------
(* Keycloak, its administrator, and the clock.                              *)

\* A user gets an access token through a client, with the roles held now.
Login(u, client) ==
    /\ Cardinality(tokens) < MaxTokens
    /\ tokens' = tokens \cup {[alg |-> "RS256", kid |-> signing, signer |-> signing,
                               iss |-> Realm, exp |-> now + Lifetime, azp |-> client,
                               user |-> u, roles |-> grants[u]]}
    /\ answer' = NoAnswer
    /\ UNCHANGED <<api, now, grants, changed, signing, keyVars>>

ChangeRoles(u, held) ==
    /\ held # grants[u]
    /\ grants' = [grants EXCEPT ![u] = held]
    /\ changed' = [changed EXCEPT ![u] = now]
    /\ answer' = NoAnswer
    /\ UNCHANGED <<api, now, signing, tokens, keyVars>>

Rotate(doc) ==
    /\ Len(published) < MaxPublished
    /\ doc # published[Len(published)]
    /\ Cache!Publish(doc)
    /\ signing' \in doc
    /\ answer' = NoAnswer
    /\ UNCHANGED <<api, now, grants, changed, tokens>>

Tick == /\ now < MaxTime
        /\ now' = now + 1
        /\ answer' = NoAnswer
        /\ UNCHANGED <<api, grants, changed, signing, tokens, keyVars>>

Next == \/ Start \/ LearnKeys \/ Stop
        \/ \E t \in tokens \cup Strays : Request(t)
        \/ \E u \in Users : \/ \E c \in Clients : Login(u, c)
                            \/ \E held \in SUBSET Roles : ChangeRoles(u, held)
        \/ \E d \in Documents : Rotate(d)
        \/ Tick

Spec == Init /\ [][Next]_vars

-----------------------------------------------------------------------------
TypeOK ==
    /\ api \in Apis
    /\ now \in Nat
    /\ grants \in [Users -> SUBSET Roles]
    /\ changed \in [Users -> Nat]
    /\ signing \in published[Len(published)]
    /\ tokens \subseteq TokenType
    /\ answer \in [token : tokens \cup Strays \cup {NoToken}, status : {0, 200, 401, 403}]

Answered(status) == answer.status = status

\* Whatever environment the process accepted, only a token that a login of this
\* realm produced, for a client this API is meant to trust, gets past
\* RequireAuth (its comment: pinned issuer, required expiry, and a missing azp
\* fails closed).
AdmitsOnlyTrustedLogins ==
    Answered(200) \/ Answered(403)
        => answer.token \in tokens /\ answer.token.azp \in api.trusted

\* The other way round: a login of a trusted client is only ever turned away as
\* unauthorized because it has expired or its key is not held.
TurnsAwayOnlyForKeyOrAge ==
    Answered(401) /\ answer.token \in tokens /\ answer.token.azp \in api.trusted
        => answer.token.kid \notin keys \/ answer.token.exp <= now

\* The API decides by roles copied into a token. It disagrees with Keycloak about
\* a user only while a change of roles is younger than one token lifetime.
RolesLagAtMostALifetime ==
    Answered(200) \/ Answered(403)
        => LET u == answer.token.user
               allowed == api.required \subseteq grants[u]
           IN  (Answered(200) # allowed) => now < changed[u] + Lifetime
=============================================================================
