-------------------------- MODULE ApiAccessProofs ---------------------------
(***************************************************************************)
(* Proofs about ApiAccess for any API and environment, any users, roles,    *)
(* clients and documents, and any number of logins, rotations and ticks.    *)
(***************************************************************************)
EXTENDS ApiAccess, TLAPS

\* Keycloak has published documents, the last of which holds the key it signs with.
Published == published \in Seq(Documents) /\ Len(published) >= 1

\* main listens only when it is configured.
ListensConfigured == Cache!Serving => Configured

\* A token is signed with the key it names and expires within one lifetime; one with
\* other roles than its user has now was issued before they changed.
Issued == \A t \in tokens :
            /\ t.signer = t.kid
            /\ t.exp # 0
            /\ t.exp <= now + Lifetime
            /\ t.roles # grants[t.user] => t.exp <= changed[t.user] + Lifetime

Inv == /\ TypeOK /\ Published /\ ListensConfigured /\ Issued
       /\ AdmitsOnlyTrustedLogins /\ TurnsAwayOnlyForKeyOrAge /\ RolesLagAtMostALifetime

\* Before any answer, and after every step that gives none.
LEMMA Silent ==
    ASSUME answer = NoAnswer
    PROVE  /\ AdmitsOnlyTrustedLogins /\ TurnsAwayOnlyForKeyOrAge /\ RolesLagAtMostALifetime
           /\ \A T : answer \in [token : T \cup {NoToken}, status : {0, 200, 401, 403}]
BY DEF NoAnswer, Answered, AdmitsOnlyTrustedLogins, TurnsAwayOnlyForKeyOrAge,
       RolesLagAtMostALifetime

\* A usable list holds exactly the clients the API is meant to trust.
LEMMA AllowList ==
    ASSUME api \in Apis, Configured
    PROVE  api.issuer = Realm /\ Realm # Blank /\ Env!Elements(api.azp) = api.trusted
<1>1. api.issuer \in {Realm, Blank} /\ api.issuer # Blank /\ Env!MustEnvList(api.azp)
  BY ApisAssumption DEF Configured, Env!MustEnv
<1>2. \A i \in DOMAIN api.azp : api.azp[i].name \in api.trusted \cup {Blank}
  BY ApisAssumption
<1>3. Env!Elements(api.azp) = {api.azp[i].name : i \in DOMAIN api.azp} \ {Blank}
  BY DEF Env!Elements, Env!TrimSpace
<1>4. \E i \in DOMAIN api.azp : api.azp[i].name # Blank
  BY <1>1, <1>3 DEF Env!MustEnvList
<1>5. /\ Blank \notin api.trusted
      /\ \A c \in api.trusted : \E i \in DOMAIN api.azp : api.azp[i].name = c
  BY <1>4, ApisAssumption
<1>6. Env!Elements(api.azp) = api.trusted
  BY <1>2, <1>3, <1>5
<1> QED BY <1>1, <1>6

\* What gets past RequireAuth was issued by a login for a trusted client.
LEMMA AuthenticatedIsLogin ==
    ASSUME Inv, Cache!Serving, NEW t \in tokens \cup Strays,
           Auth!Authenticated(t, keys, now)
    PROVE  t \in tokens /\ t.azp \in api.trusted /\ now < t.exp
<1>1. api \in Apis /\ Configured
  BY DEF Inv, TypeOK, ListensConfigured
<1>2. t # NoToken /\ t.alg = "RS256" /\ t.signer = t.kid /\ t.exp # 0 /\ now < t.exp
  BY DEF Auth!Authenticated, Auth!SignatureValid, Auth!Unexpired
<1>3. t.iss = Realm /\ t.azp \in api.trusted
  BY <1>1, AllowList DEF Auth!Authenticated, Auth!IssuerPinned, Auth!ForAllowedClient
<1>4. t.azp # Blank
  BY <1>1, <1>3, ApisAssumption
<1>5. t \in tokens
  BY <1>2, <1>3, <1>4, StraysAssumption
<1> QED BY <1>2, <1>3, <1>5

\* And the other way round.
LEMMA LoginIsAuthenticated ==
    ASSUME Inv, Cache!Serving, NEW t \in tokens,
           t.azp \in api.trusted, t.kid \in keys, ~(t.exp <= now)
    PROVE  Auth!Authenticated(t, keys, now)
<1>1. api \in Apis /\ Configured /\ t \in TokenType /\ t.exp # 0 /\ now \in Nat
  BY DEF Inv, TypeOK, ListensConfigured, Issued
<1>2. t # NoToken
  BY <1>1, ConstantsAssumption
<1>3. t.alg = "RS256" /\ t.signer \in Kids /\ t.iss = Realm /\ t.exp \in Nat /\ now < t.exp
  BY <1>1 DEF TokenType
<1>4. Auth!IssuerPinned(t) /\ Auth!ForAllowedClient(t)
  BY <1>1, <1>3, AllowList DEF Auth!IssuerPinned, Auth!ForAllowedClient
<1>5. t.signer = t.kid
  BY DEF Inv, Issued
<1> QED BY <1>1, <1>2, <1>3, <1>4, <1>5 DEF Auth!Authenticated, Auth!SignatureValid,
           Auth!Keyfunc, Auth!Unexpired

-----------------------------------------------------------------------------
\* Keycloak starts with one document and no tokens, and the API starts empty.
LEMMA InitInv == Init => Inv
<1> SUFFICES ASSUME Init PROVE Inv
    OBVIOUS
<1>1. PICK d \in Documents : published = <<d>>
  BY DEF Init, Cache!Init
<1>2. Published /\ signing \in published[Len(published)]
  BY <1>1 DEF Init, Published
<1>3. TypeOK
  BY <1>2, Silent DEF Init, TypeOK
<1>4. ListensConfigured /\ Issued
  BY DEF Init, Cache!Init, Cache!Serving, ListensConfigured, Issued
<1> QED BY <1>2, <1>3, <1>4, Silent DEF Init, Inv

\* A step of the API's process changes nothing at Keycloak.
LEMMA ProcessInv ==
    ASSUME Inv, Configured \/ (Cache!Serving' => Cache!Serving), answer' = NoAnswer,
           UNCHANGED <<api, now, grants, changed, signing, tokens, published>>
    PROVE  Inv'
<1>1. TypeOK' /\ Published' /\ Issued'
  BY Silent DEF Inv, TypeOK, Published, Issued, NoAnswer
<1>2. Configured' <=> Configured
  BY DEF Configured
<1>3. ListensConfigured'
  BY <1>2 DEF Inv, ListensConfigured
<1>4. AdmitsOnlyTrustedLogins' /\ TurnsAwayOnlyForKeyOrAge' /\ RolesLagAtMostALifetime'
  BY DEF NoAnswer, Answered, AdmitsOnlyTrustedLogins, TurnsAwayOnlyForKeyOrAge,
         RolesLagAtMostALifetime
<1> QED BY <1>1, <1>3, <1>4 DEF Inv

\* A step of Keycloak or of the clock changes nothing in the process.
LEMMA OutsideInv ==
    ASSUME Inv, TypeOK', Published', Issued', answer' = NoAnswer, UNCHANGED <<api, keys, asOf>>
    PROVE  Inv'
<1>1. ListensConfigured'
  BY DEF Inv, ListensConfigured, Configured, Cache!Serving
<1>2. AdmitsOnlyTrustedLogins' /\ TurnsAwayOnlyForKeyOrAge' /\ RolesLagAtMostALifetime'
  BY DEF NoAnswer, Answered, AdmitsOnlyTrustedLogins, TurnsAwayOnlyForKeyOrAge,
         RolesLagAtMostALifetime
<1> QED BY <1>1, <1>2 DEF Inv

\* The answer to a request.
LEMMA RequestInv ==
    ASSUME Inv, NEW t \in tokens \cup Strays, Request(t)
    PROVE  Inv'
<1> USE DEF Request, keyVars
<1>1. Cache!Serving /\ answer' = [token |-> t, status |-> Auth!StatusOf(t, keys, now, api.required)]
  OBVIOUS
<1>2. answer'.token = t /\ answer'.status \in {200, 401, 403}
  BY <1>1 DEF Auth!StatusOf
<1>3. TypeOK' /\ Published' /\ ListensConfigured' /\ Issued'
  <2>1. answer' \in [token : tokens \cup Strays \cup {NoToken}, status : {0, 200, 401, 403}]
    BY <1>1, <1>2
  <2>2. TypeOK'
    BY <2>1 DEF Inv, TypeOK
  <2>3. Published' /\ ListensConfigured' /\ Issued'
    BY DEF Inv, Published, ListensConfigured, Cache!Serving, Configured, Issued
  <2> QED BY <2>2, <2>3
<1>4. CASE Auth!Authenticated(t, keys, now)
  <2>1. t \in tokens /\ t.azp \in api.trusted /\ now < t.exp
    BY <1>1, <1>4, AuthenticatedIsLogin
  <2>2. answer'.status # 401 /\ (answer'.status = 200 <=> api.required \subseteq t.roles)
    BY <1>1, <1>4 DEF Auth!StatusOf, Auth!HasRoles
  <2>3. AdmitsOnlyTrustedLogins' /\ TurnsAwayOnlyForKeyOrAge'
    BY <1>2, <2>1, <2>2 DEF AdmitsOnlyTrustedLogins, TurnsAwayOnlyForKeyOrAge, Answered
  <2>4. t.roles # grants[t.user] => now < changed[t.user] + Lifetime
    <3>1. t.exp \in Nat /\ t.user \in Users /\ now \in Nat /\ changed[t.user] \in Nat
      BY <2>1 DEF Inv, TypeOK, TokenType
    <3>2. t.roles # grants[t.user] => t.exp <= changed[t.user] + Lifetime
      BY <2>1 DEF Inv, Issued
    <3> QED BY <2>1, <3>1, <3>2, ConstantsAssumption
  <2>5. RolesLagAtMostALifetime'
    BY <1>2, <2>2, <2>4 DEF RolesLagAtMostALifetime, Answered
  <2> QED BY <1>3, <2>3, <2>5 DEF Inv
<1>5. CASE ~Auth!Authenticated(t, keys, now)
  <2>1. answer'.status = 401
    BY <1>1, <1>5 DEF Auth!StatusOf
  <2>2. t \in tokens /\ t.azp \in api.trusted => t.kid \notin keys \/ t.exp <= now
    BY <1>1, <1>5, LoginIsAuthenticated
  <2>3. AdmitsOnlyTrustedLogins' /\ TurnsAwayOnlyForKeyOrAge' /\ RolesLagAtMostALifetime'
    BY <1>2, <2>1, <2>2 DEF AdmitsOnlyTrustedLogins, TurnsAwayOnlyForKeyOrAge,
       RolesLagAtMostALifetime, Answered
  <2> QED BY <1>3, <2>3 DEF Inv
<1> QED BY <1>4, <1>5

\* A new token is signed with the key Keycloak signs with, lasts one lifetime and
\* carries the roles its user has.
LEMMA LoginInv ==
    ASSUME Inv, NEW u \in Users, NEW c \in Clients, Login(u, c)
    PROVE  Inv'
<1> DEFINE new == [alg |-> "RS256", kid |-> signing, signer |-> signing, iss |-> Realm,
                   exp |-> now + Lifetime, azp |-> c, user |-> u, roles |-> grants[u]]
<1>1. tokens' = tokens \cup {new} /\ answer' = NoAnswer
      /\ UNCHANGED <<api, now, grants, changed, signing, published, keys, asOf>>
  BY DEF Login, keyVars
<1>2. now \in Nat /\ Lifetime \in Nat \ {0} /\ now + Lifetime \in Nat /\ now + Lifetime # 0
  BY ConstantsAssumption DEF Inv, TypeOK
<1>3. signing \in Kids
  <2>1. published[Len(published)] \in Documents
    BY DEF Inv, Published
  <2> QED BY <2>1 DEF Inv, TypeOK, Kids
<1>4. grants[u] \in SUBSET Roles
  BY DEF Inv, TypeOK
<1>5. new \in TokenType
  BY <1>2, <1>3, <1>4 DEF TokenType
<1>6. TypeOK'
  <2>1. answer' \in [token : tokens' \cup Strays \cup {NoToken}, status : {0, 200, 401, 403}]
    BY <1>1 DEF NoAnswer
  <2>2. tokens' \subseteq TokenType
    BY <1>1, <1>5 DEF Inv, TypeOK
  <2> QED BY <1>1, <2>1, <2>2 DEF Inv, TypeOK
<1>7. Issued'
  <2>1. new.signer = new.kid /\ new.exp # 0 /\ new.exp <= now + Lifetime
        /\ new.roles = grants[new.user]
    BY <1>2
  <2> HIDE DEF new
  <2> QED BY <1>1, <2>1 DEF Inv, Issued
<1>8. Published'
  BY <1>1 DEF Inv, Published
<1> QED BY <1>1, <1>6, <1>7, <1>8, OutsideInv

\* A change of roles makes old tokens of its user lag, from now on.
LEMMA ChangeRolesInv ==
    ASSUME Inv, NEW u \in Users, NEW held \in SUBSET Roles, ChangeRoles(u, held)
    PROVE  Inv'
<1>1. answer' = NoAnswer /\ UNCHANGED <<api, now, signing, tokens, published, keys, asOf>>
  BY DEF ChangeRoles, keyVars
<1>2. /\ grants' \in [Users -> SUBSET Roles] /\ changed' \in [Users -> Nat]
      /\ changed'[u] = now
      /\ \A v \in Users \ {u} : grants'[v] = grants[v] /\ changed'[v] = changed[v]
  BY DEF ChangeRoles, Inv, TypeOK
<1>3. TypeOK' /\ Published'
  BY <1>1, <1>2 DEF Inv, TypeOK, Published, NoAnswer
<1>4. Issued'
  <2> SUFFICES ASSUME NEW t \in tokens
               PROVE  /\ t.signer = t.kid /\ t.exp # 0 /\ t.exp <= now + Lifetime
                      /\ t.roles # grants'[t.user] => t.exp <= changed'[t.user] + Lifetime
    BY <1>1 DEF Issued
  <2>1. t.user \in Users
    BY DEF Inv, TypeOK, TokenType
  <2> QED BY <1>2, <2>1 DEF Inv, Issued
<1> QED BY <1>1, <1>3, <1>4, OutsideInv

\* A rotation publishes one more document and signs with a key it holds.
LEMMA RotateInv ==
    ASSUME Inv, NEW doc \in Documents, Rotate(doc)
    PROVE  Inv'
<1>1. /\ answer' = NoAnswer /\ published' = Append(published, doc) /\ signing' \in doc
      /\ UNCHANGED <<api, now, grants, changed, tokens, keys, asOf>>
  BY DEF Rotate, Cache!Publish
<1>2. /\ published' \in Seq(Documents) /\ Len(published') = Len(published) + 1
      /\ published'[Len(published')] = doc /\ Len(published) \in Nat
  BY <1>1 DEF Inv, Published
<1>3. TypeOK' /\ Published'
  BY <1>1, <1>2 DEF Inv, TypeOK, Published, NoAnswer
<1>4. Issued'
  BY <1>1 DEF Inv, Issued
<1> QED BY <1>1, <1>3, <1>4, OutsideInv

\* Time moves on: tokens only get older.
LEMMA TickInv == ASSUME Inv, Tick PROVE Inv'
<1>1. answer' = NoAnswer /\ now' = now + 1
      /\ UNCHANGED <<api, grants, changed, signing, tokens, published, keys, asOf>>
  BY DEF Tick, keyVars
<1>2. TypeOK' /\ Published'
  BY <1>1 DEF Inv, TypeOK, Published, NoAnswer
<1>3. Issued'
  <2> SUFFICES ASSUME NEW t \in tokens PROVE t.exp <= now' + Lifetime
    BY <1>1 DEF Inv, Issued
  <2>1. t.exp \in Nat /\ now \in Nat /\ Lifetime \in Nat
    BY ConstantsAssumption DEF Inv, TypeOK, TokenType
  <2> QED BY <1>1, <2>1 DEF Inv, Issued
<1> QED BY <1>1, <1>2, <1>3, OutsideInv

\* Every step keeps the invariant.
LEMMA NextInv == Inv /\ [Next]_vars => Inv'
<1> SUFFICES ASSUME Inv, [Next]_vars PROVE Inv'
    OBVIOUS
<1>1. CASE Start
  BY <1>1, ProcessInv DEF Start, Cache!Start, Cache!Hold
<1>2. CASE LearnKeys
  BY <1>2, ProcessInv DEF LearnKeys, Cache!Refresh, Cache!Hold
<1>3. CASE Stop
  BY <1>3, ProcessInv DEF Stop, Cache!Stop
<1>4. ASSUME NEW t \in tokens \cup Strays, Request(t) PROVE Inv'
  BY <1>4, RequestInv
<1>5. ASSUME NEW u \in Users, NEW c \in Clients, Login(u, c) PROVE Inv'
  BY <1>5, LoginInv
<1>6. ASSUME NEW u \in Users, NEW held \in SUBSET Roles, ChangeRoles(u, held) PROVE Inv'
  BY <1>6, ChangeRolesInv
<1>7. ASSUME NEW d \in Documents, Rotate(d) PROVE Inv'
  BY <1>7, RotateInv
<1>8. CASE Tick
  BY <1>8, TickInv
<1>9. CASE UNCHANGED vars
  BY <1>9 DEF vars, keyVars, Inv, TypeOK, Published, ListensConfigured, Cache!Serving,
     Configured, Issued, AdmitsOnlyTrustedLogins, TurnsAwayOnlyForKeyOrAge,
     RolesLagAtMostALifetime, Answered
<1> QED BY <1>1, <1>2, <1>3, <1>4, <1>5, <1>6, <1>7, <1>8, <1>9 DEF Next

-----------------------------------------------------------------------------
\* So it holds in every reachable state.
LEMMA AlwaysInv == Spec => []Inv
<1> QED BY InitInv, NextInv, PTL DEF Spec

\* Every reachable state is well typed.
THEOREM TypeCorrect == Spec => []TypeOK
<1>1. Inv => TypeOK
  BY DEF Inv
<1> QED BY <1>1, AlwaysInv, PTL

\* Whatever environment main accepted, whoever gets past RequireAuth logged in
\* through a client this API is meant to trust.
THEOREM OnlyTrustedLogins == Spec => []AdmitsOnlyTrustedLogins
<1>1. Inv => AdmitsOnlyTrustedLogins
  BY DEF Inv
<1> QED BY <1>1, AlwaysInv, PTL

\* And whoever did is only turned away for an expired token or a key not held.
THEOREM TurnedAwayForKeyOrAge == Spec => []TurnsAwayOnlyForKeyOrAge
<1>1. Inv => TurnsAwayOnlyForKeyOrAge
  BY DEF Inv
<1> QED BY <1>1, AlwaysInv, PTL

\* RequireRole decides by roles that lag Keycloak's by at most one token lifetime.
THEOREM RolesLag == Spec => []RolesLagAtMostALifetime
<1>1. Inv => RolesLagAtMostALifetime
  BY DEF Inv
<1> QED BY <1>1, AlwaysInv, PTL

-----------------------------------------------------------------------------
\* An API lets nothing else happen to its key cache than what KeyCache describes,
\* which is what JWKSCache is proved to implement.
THEOREM CacheKept == Spec => Cache!Spec
<1>1. Init => Cache!Init
  BY DEF Init
<1>2. [Next]_vars => [Cache!Next]_(Cache!vars)
  <2> SUFFICES ASSUME Next PROVE Cache!Next \/ UNCHANGED keyVars
    BY DEF vars, keyVars, Cache!vars
  <2>1. CASE Start \/ LearnKeys \/ Stop \/ \E d \in Documents : Rotate(d)
    BY <2>1 DEF Start, LearnKeys, Stop, Rotate, Cache!Next
  <2>2. CASE UNCHANGED keyVars
    BY <2>2
  <2> QED BY <2>1, <2>2 DEF Next, Request, Login, ChangeRoles, Tick
<1> QED BY <1>1, <1>2, PTL DEF Spec, Cache!Spec

=============================================================================
