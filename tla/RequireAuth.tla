----------------------------- MODULE RequireAuth -----------------------------
(***************************************************************************)
(* The decisions of the RequireAuth and RequireRole middlewares about a     *)
(* request, as functions of its bearer token, of the key cache and of the   *)
(* clock at that moment.                                                    *)
(***************************************************************************)
EXTENDS Naturals

CONSTANTS
    Issuer,        \* KEYCLOAK_ISSUER: the realm URL a token must name
    AllowedAZP,    \* KEYCLOAK_ALLOWED_AZP: the clients a token may be minted for
    Blank,         \* an empty string, which an absent claim decodes to
    NoToken        \* a request without a bearer token

\* Keyfunc: an RSA method, and a kid that is cached. The cache is not refreshed
\* for a kid it does not hold.
Keyfunc(t, keys) == t.alg \in {"RS256", "RS384", "RS512"} /\ t.kid \in keys

\* RS256 only, with the key Keyfunc returns.
SignatureValid(t, keys) == t.alg = "RS256" /\ Keyfunc(t, keys) /\ t.signer = t.kid

\* Mutant: a token without an expiry never expires (no WithExpirationRequired).
Unexpired_Optional(t, now) == t.exp = 0 \/ now < t.exp

\* Mutant: the expiry is not looked at.
Unexpired_Ignored(t, now) == t.exp # 0

\* The expiry is there (0 stands for a token without one) and ahead.
Unexpired(t, now) == t.exp # 0 /\ now < t.exp

\* Mutant: the issuer is the host the keys are fetched from.
IssuerPinned_Internal(t) == t.iss = "internal"

\* The parser's WithIssuer: an empty one pins nothing.
IssuerPinned(t) == Issuer # Blank => t.iss = Issuer

\* Mutant: any client of the realm will do.
ForAllowedClient_Any(t) == t.azp # Blank

ForAllowedClient(t) == t.azp \in AllowedAZP

\* RequireAuth hands the request on: its token is signed with the cached key it
\* names, not expired, of this issuer and for a client this API allows.
Authenticated(t, keys, now) ==
    /\ t # NoToken
    /\ SignatureValid(t, keys)
    /\ Unexpired(t, now)
    /\ IssuerPinned(t)
    /\ ForAllowedClient(t)

\* Mutant: any role will do.
HasRoles_Any(t, required) == t.roles # {}

\* Claims.HasRole, for each role that a route requires.
HasRoles(t, required) == required \subseteq t.roles

\* Mutant: a key that is not held is a failure of ours.
StatusOf_UnknownKey(t, keys, now, required) ==
    IF t # NoToken /\ ~Keyfunc(t, keys) THEN 500
    ELSE IF ~Authenticated(t, keys, now) THEN 401
    ELSE IF ~HasRoles(t, required) THEN 403
    ELSE 200

\* What a request of a route that requires some roles is answered with.
StatusOf(t, keys, now, required) ==
    IF ~Authenticated(t, keys, now) THEN 401
    ELSE IF ~HasRoles(t, required) THEN 403
    ELSE 200
=============================================================================
