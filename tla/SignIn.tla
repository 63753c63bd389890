------------------------------- MODULE SignIn --------------------------------
(***************************************************************************)
(* Sign-ins of web and admin (the jwt callback and its syncProfile) against *)
(* public-api: the two bounded attempts of each sign-in, their time-outs,   *)
(* requests that outlive the attempt that sent them, the token check, and   *)
(* an API that stops, starts and learns Keycloak's keys late.               *)
(*                                                                          *)
(* The two halves of public-api come in as what they are shown to           *)
(* implement: ProfileRegistry looks a profile up and decides a sync call,   *)
(* KeyCache moves from one published key document to a later one.           *)
(***************************************************************************)
EXTENDS Naturals, Sequences

CONSTANTS
    SignIns,        \* completed logins at Keycloak, each ending in a jwt callback
    ClientOf,       \* the Keycloak client of the app each sign-in is made in
    Clients,        \* the clients of web and admin
    Realm,          \* the issuer of the realm's tokens
    Documents,      \* key documents Keycloak may publish: non-empty sets of kids
    TokenClaims,    \* the claims of the users who sign in
    EmptyName,      \* the empty preferred_username
    NoProfile, NoClaims, NoToken,
    SyncAttempts,   \* SYNC_ATTEMPTS
    MaxPublished    \* bound: how many documents Keycloak publishes in all

ASSUME ClientOfAssumption == ClientOf \in [SignIns -> Clients]

ASSUME SyncAttemptsAssumption == SyncAttempts \in Nat \ {0}

Attempts == SignIns \X (1 .. SyncAttempts)

\* An access token a login produces.
TokenType == [alg : {"RS256"}, kid : UNION Documents, signer : UNION Documents,
              iss : {Realm}, exp : {1}, azp : Clients, claims : TokenClaims]

ASSUME NoTokenAssumption == NoToken \notin TokenType

VARIABLES
    app,         \* where each sign-in's jwt callback stands
    token,       \* the access token Keycloak issued to each sign-in
    wire,        \* what has become of each attempt's request
    status,      \* the status each attempt was answered with; 0 while it is not
    signing,     \* the key Keycloak signs with
    published, keys, asOf,             \* KeyCache's
    profiles, phase, claims, result    \* ProfileRegistry's

appVars      == <<app, token, wire, status>>
keyVars      == <<published, keys, asOf>>
registryVars == <<profiles, phase, claims, result>>
vars         == <<appVars, signing, keyVars, registryVars>>

\* A jwt callback: its place, the attempt it is at, and what it logged.
App(at, attempt, outcome) == [at |-> at, attempt |-> attempt, outcome |-> outcome]

-----------------------------------------------------------------------------
(* The halves of public-api.                                                *)

NoRefusal(c) == "none"     \* subjects are Keycloak's own UUIDs

Unusable(c) == IF c.username = EmptyName THEN "ErrEmptyUsername" ELSE "none"

FreshProfile(q, c) == [id |-> q, keycloakId |-> c.sub, username |-> c.username]

NoEdits(p) == {}

ASSUME NoProfileAssumption ==
    \A q \in Attempts, c \in TokenClaims : FreshProfile(q, c) # NoProfile

Registry == INSTANCE ProfileRegistry
              WITH Requests <- Attempts, Claims <- TokenClaims,
                   Refused <- NoRefusal, Invalid <- Unusable,
                   Fresh <- FreshProfile, Edits <- NoEdits

KidsOf(doc) == doc

SomeKid(doc) == doc # {}

Cache == INSTANCE KeyCache WITH KeysOf <- KidsOf, Usable <- SomeKid

Auth == INSTANCE RequireAuth WITH Issuer <- Realm, AllowedAZP <- Clients, Blank <- EmptyName

\* The access token Keycloak issues: signed with its current key for the app's
\* client. It outlives the few seconds of a sign-in: its expiry stays ahead.
Mint(s, c) == [alg |-> "RS256", kid |-> signing, signer |-> signing, iss |-> Realm,
               exp |-> 1, azp |-> ClientOf[s], claims |-> c]

Passes(t) == Auth!Authenticated(t, keys, 0)

\* The status Handle answers a result with: of its own, of EnsureProfile.
StatusOf(err) ==
    CASE err = "none"                                     -> 200
      [] err \in {"ErrNotUUID", "ErrEmptyKeycloakID", "ErrEmptyUsername"} -> 400
      [] err = "ErrUsernameTaken"                         -> 409
      [] err = "internal"                                 -> 500

Init == /\ app = [s \in SignIns |-> App("away", 0, "none")]
        /\ token = [s \in SignIns |-> NoToken]
        /\ wire = [q \in Attempts |-> "none"]
        /\ status = [q \in Attempts |-> 0]
        /\ Cache!Init
        /\ signing \in published[1]
        /\ Registry!Init

-----------------------------------------------------------------------------
(* The jwt callback and syncProfile.                                        *)

Move(s, at, attempt, outcome) == app' = [app EXCEPT ![s] = App(at, attempt, outcome)]

Current(s) == <<s, app[s].attempt>>

\* fetch: the request of attempt n is on its way.
Post(s, n) == /\ Move(s, "posting", n, "none")
              /\ wire' = [wire EXCEPT ![<<s, n>>] = "sent"]
              /\ UNCHANGED status

\* The user is back from Keycloak, and the callback starts to sync.
JwtCallback(s, c) == /\ app[s].at = "away"
                     /\ token' = [token EXCEPT ![s] = Mint(s, c)]
                     /\ Post(s, 1)
                     /\ UNCHANGED <<signing, keyVars, registryVars>>

\* Mutant: one attempt too many.
AttemptFailed_OneMore(s) ==
    IF app[s].attempt <= SyncAttempts THEN Move(s, "pausing", app[s].attempt, "none")
                                      ELSE Move(s, "signed_in", app[s].attempt, "gave_up")

\* An attempt that brought no verdict: pause before the next one, or give up.
AttemptFailed(s) ==
    IF app[s].attempt < SyncAttempts THEN Move(s, "pausing", app[s].attempt, "none")
                                     ELSE Move(s, "signed_in", app[s].attempt, "gave_up")

\* Mutant: the status is not looked at.
HearAnswer_AnyStatus(s) ==
    /\ app[s].at = "posting"
    /\ status[Current(s)] # 0
    /\ Move(s, "signed_in", app[s].attempt, "synced")
    /\ UNCHANGED <<token, wire, status, signing, keyVars, registryVars>>

\* A status below 500 is a verdict and ends the loop.
HearAnswer(s) ==
    /\ app[s].at = "posting"
    /\ status[Current(s)] # 0
    /\ \/ status[Current(s)] = 200 /\ Move(s, "signed_in", app[s].attempt, "synced")
       \/ status[Current(s)] \in {400, 401, 409}
            /\ Move(s, "signed_in", app[s].attempt, "rejected")
       \/ status[Current(s)] = 500 /\ AttemptFailed(s)
    /\ UNCHANGED <<token, wire, status, signing, keyVars, registryVars>>

\* A request that has no connection yet.
Unconnected(q) == wire[q] = "sent" /\ ~Cache!Serving

\* fetch throws: nobody listens, or whoever had the request is gone.
ConnectionFails(s) ==
    /\ app[s].at = "posting"
    /\ Unconnected(Current(s)) \/ wire[Current(s)] = "gone"
    /\ wire' = [wire EXCEPT ![Current(s)] = "gone"]
    /\ AttemptFailed(s)
    /\ UNCHANGED <<token, status, signing, keyVars, registryVars>>

\* Mutant: fetch without the signal.
Timeout_Never(s) == FALSE

\* AbortSignal.timeout: the callback stops waiting, and no longer tries to connect.
\* A request the API has goes on, read or unread: the handler does not watch the
\* connection.
Timeout(s) ==
    /\ app[s].at = "posting"
    /\ wire' = IF Unconnected(Current(s)) THEN [wire EXCEPT ![Current(s)] = "gone"] ELSE wire
    /\ AttemptFailed(s)
    /\ UNCHANGED <<token, status, signing, keyVars, registryVars>>

Retry(s) ==
    /\ app[s].at = "pausing"
    /\ Post(s, app[s].attempt + 1)
    /\ UNCHANGED <<token, signing, keyVars, registryVars>>

AppStep(s) == HearAnswer(s) \/ ConnectionFails(s) \/ Timeout(s) \/ Retry(s)

-----------------------------------------------------------------------------
(* public-api.                                                              *)

\* A request reaches the middleware: it is answered 401 or handed on.
Arrive(q) ==
    /\ wire[q] = "sent"
    /\ Cache!Serving
    /\ \/ /\ Passes(token[q[1]])
          /\ Registry!Call(q, token[q[1]].claims)
          /\ wire' = [wire EXCEPT ![q] = "handling"]
          /\ UNCHANGED status
       \/ /\ ~Passes(token[q[1]])
          /\ wire' = [wire EXCEPT ![q] = "answered"]
          /\ status' = [status EXCEPT ![q] = 401]
          /\ UNCHANGED registryVars
    /\ UNCHANGED <<app, token, signing, keyVars>>

Decide(q) == /\ Registry!EnsureProfile(q)
             /\ UNCHANGED <<appVars, signing, keyVars>>

Answer(q) == /\ Registry!Answer(q)
             /\ wire' = [wire EXCEPT ![q] = "answered"]
             /\ status' = [status EXCEPT ![q] = StatusOf(result[q].err)]
             /\ UNCHANGED <<app, token, signing, keyVars>>

StartApi == Cache!Start /\ UNCHANGED <<appVars, signing, registryVars>>

LearnKeys == Cache!Refresh /\ UNCHANGED <<appVars, signing, registryVars>>

\* The process stops, and with it its handlers and its connections: what it had
\* not read is gone, too.
StopApi == /\ Cache!Stop
           /\ Registry!Outage
           /\ wire' = [q \in Attempts |->
                          IF wire[q] \in {"sent", "handling"} THEN "gone" ELSE wire[q]]
           /\ UNCHANGED <<app, token, status, signing>>

-----------------------------------------------------------------------------
(* Keycloak, and the table's other writers.                                 *)

\* New keys, with or without the old ones, and what is signed with from now on.
Rotate(doc) == /\ Len(published) < MaxPublished
               /\ doc # published[Len(published)]
               /\ Cache!Publish(doc)
               /\ signing' \in doc
               /\ UNCHANGED <<appVars, registryVars>>

RemoveProfile == Registry!Elsewhere /\ UNCHANGED <<appVars, signing, keyVars>>

Next == \/ \E s \in SignIns : \/ \E c \in TokenClaims : JwtCallback(s, c)
                              \/ AppStep(s)
        \/ \E q \in Attempts : Arrive(q) \/ Decide(q) \/ Answer(q)
        \/ StartApi \/ LearnKeys \/ StopApi
        \/ \E d \in Documents : Rotate(d)
        \/ RemoveProfile

Spec == Init /\ [][Next]_vars

\* The apps' event loop runs and their timers fire. Nothing is assumed of
\* public-api, Postgres or Keycloak.
FairSpec == Spec /\ \A s \in SignIns : WF_vars(AppStep(s))

-----------------------------------------------------------------------------
TypeOK ==
    /\ app \in [SignIns -> [at : {"away", "posting", "pausing", "signed_in"},
                            attempt : 0 .. SyncAttempts,
                            outcome : {"none", "synced", "rejected", "gave_up"}]]
    /\ token \in [SignIns -> TokenType \cup {NoToken}]
    /\ wire \in [Attempts -> {"none", "sent", "handling", "answered", "gone"}]
    /\ status \in [Attempts -> {0, 200, 400, 401, 409, 500}]
    /\ signing \in published[Len(published)]
    /\ \A q \in Attempts : claims[q] \in TokenClaims \cup {NoClaims}

\* A sign-in that took its profile for synced was given the profile of the very
\* identity its token names, whatever became of its earlier attempt and of the
\* sign-ins beside it.
SyncedIsOwnProfile ==
    \A s \in SignIns :
        app[s].outcome = "synced" =>
            /\ result[Current(s)].err = "none"
            /\ result[Current(s)].profile # NoProfile
            /\ result[Current(s)].profile.keycloakId = token[s].claims.sub

\* A token Keycloak has just issued to either app is turned away only because
\* public-api does not hold its key: not yet, or no longer.
RejectedOnlyForItsKey ==
    [][\A q \in Attempts : status'[q] = 401 /\ status[q] = 0
         => token[q[1]].kid \notin keys]_vars

\* Every sign-in completes, whatever state public-api is in (the comment on
\* SYNC_TIMEOUT_MS, and "best-effort" on syncProfile).
SignInEnds == \A s \in SignIns : app[s].at # "away" ~> app[s].at = "signed_in"

(* What the source says and the code does not do.                           *)

\* "Retrying cannot change any of them", of a 401 among others.
RejectionIsFinal ==
    \A s \in SignIns :
        app[s].outcome = "rejected" /\ status[Current(s)] = 401
            => ~Passes(token[s])

\* "409 (the username belongs to another account)": not to the account of the very
\* sign-in that is told so.
ConflictIsWithAnother ==
    \A s \in SignIns :
        app[s].outcome = "rejected" /\ status[Current(s)] = 409
            => \A p \in profiles : p.username = token[s].claims.username
                                     => p.keycloakId # token[s].claims.sub

\* "Gave up: this account has no profile row until its next sign-in": at least
\* none that this very sign-in creates.
GaveUpMeansNoProfile ==
    \A s \in SignIns :
        app[s].outcome = "gave_up" => \A p \in profiles : p.id[1] # s
=============================================================================
