------------------------------ MODULE Sessions -------------------------------
(***************************************************************************)
(* One browser, the apps web and admin on one host, and so one cookie jar:  *)
(* sign-ins in several tabs, each with its flow cookie, the sessions they   *)
(* end in with the roles copied at that moment, Keycloak's own SSO session, *)
(* sign-outs, and what the admin portal displays and sends                  *)
(* (packages/auth/src/config.ts, apps/admin, apps/web).                     *)
(***************************************************************************)
CONSTANTS
    Users,
    Flows,         \* sign-ins the browser may begin, each in a tab of its own
    Deployments,   \* each app's AUTH_COOKIE_PREFIX and AUTH_SECRET, as one may set them
    PromptLogin,   \* the apps that set AUTH_PROMPT_LOGIN
    Nobody, NoCookie, NoSession

Apps  == {"web", "admin"}
Kinds == {"session", "flow"}

\* One of the two settings keeps the apps apart.
ASSUME DeploymentsAssumption ==
    \A d \in Deployments :
        d.prefix["web"] # d.prefix["admin"] \/ d.secret["web"] # d.secret["admin"]

\* What a session cookie holds. The app and whether credentials were typed are
\* history: properties ask for them, no app does.
Session == [user : Users, isAdmin : BOOLEAN, via : Apps, typed : BOOLEAN]

\* A sealed cookie.
CookieType ==
    [key : {<<d.secret[a], <<d.prefix[a], k>>>> : d \in Deployments, a \in Apps, k \in Kinds},
     content : Flows \cup Session]

ASSUME SentinelsAssumption ==
    NoCookie \notin CookieType /\ NoSession \notin Session /\ Nobody \notin Flows

VARIABLES
    deployed,  \* the prefixes and the secrets
    jar,       \* the browser's cookies, by name
    sso,       \* the user of Keycloak's session in this browser
    admins,    \* the users who have the admin role at Keycloak
    flow,      \* each sign-in: its app, where it stands, who authenticated, and
               \* (history) whether another one crossed it or its cookie expired
    own        \* history: the session each app's last sign-in made

vars == <<deployed, jar, sso, admins, flow, own>>

\* Mutant: no app-specific names.
CookieName_Default(a, k) == <<"authjs", k>>

\* Mutant: only the session cookie is given a name of its own.
CookieName_SessionOnly(a, k) ==
    <<IF k = "session" THEN deployed.prefix[a] ELSE "authjs", k>>

\* Mutant: the flow cookie is given the session cookie's name.
CookieName_OneName(a, k) == <<deployed.prefix[a], "session">>

\* The cookies an app sets: its session, and the verifier of a sign-in that is
\* under way (pkce.code_verifier; state and nonce are alike).
CookieName(a, k) == <<deployed.prefix[a], k>>

\* Mutant: the secret does not enter the key.
SealingKey_NameOnly(a, k) == CookieName(a, k)

\* Auth.js seals a cookie with a key it derives from the secret and the name.
SealingKey(a, k) == <<deployed.secret[a], CookieName(a, k)>>

Names == {CookieName(a, k) : a \in Apps, k \in Kinds}

Cookie(a, k, content) == [key |-> SealingKey(a, k), content |-> content]

\* What an app makes of a cookie: nothing if it is not there or not sealed with
\* the app's own key.
Unsealed(a, k, none) ==
    LET c == jar[CookieName(a, k)]
    IN  IF c # NoCookie /\ c.key = SealingKey(a, k) THEN c.content ELSE none

\* auth(): the session of the request.
SessionOf(a) == Unsealed(a, "session", NoSession)

Flow(a, at, user, typed, disturbed) ==
    [app |-> a, at |-> at, user |-> user, typed |-> typed, disturbed |-> disturbed]

SignIns == [app : Apps, user : Users \cup {Nobody}, typed : BOOLEAN, disturbed : BOOLEAN,
            at : {"idle", "authorizing", "returned", "done", "failed", "refused"}]

\* A sign-in goes on, or ends, as another one or its cookie's age leaves it.
Ended(f, place) == Flow(flow[f].app, place, flow[f].user, flow[f].typed, flow[f].disturbed)

Disturbed(f) == Flow(flow[f].app, flow[f].at, flow[f].user, flow[f].typed, TRUE)

\* The sign-ins of an app that have begun and not ended.
UnderWay(a) == {f \in Flows : flow[f].app = a /\ flow[f].at \in {"authorizing", "returned"}}

Init == /\ deployed \in Deployments
        /\ jar = [n \in Names |-> NoCookie]
        /\ sso = Nobody
        /\ admins \in SUBSET Users
        /\ flow = [f \in Flows |-> Flow("web", "idle", Nobody, FALSE, FALSE)]
        /\ own = [a \in Apps |-> NoSession]

-----------------------------------------------------------------------------
(* A sign-in.                                                               *)

SetCookie(a, k, cookie) == jar' = [jar EXCEPT ![CookieName(a, k)] = cookie]

\* signIn("keycloak"): a flow cookie, and off to Keycloak.
BeginSignIn(f, a) ==
    /\ flow[f].at = "idle"
    /\ SetCookie(a, "flow", Cookie(a, "flow", f))
    /\ flow' = [g \in Flows |->
                   IF g = f THEN Flow(a, "authorizing", Nobody, FALSE, UnderWay(a) # {})
                   ELSE IF g \in UnderWay(a) THEN Disturbed(g)
                   ELSE flow[g]]
    /\ UNCHANGED <<deployed, sso, admins, own>>

\* Mutant: prompt=login is never asked for.
MustType_IfSignedOut(a) == sso = Nobody

\* Keycloak shows its form: it has no session, or prompt=login asks for it.
MustType(a) == sso = Nobody \/ a \in PromptLogin

\* Keycloak authenticates a user, from its form or from its session.
Authenticate(f, u) ==
    LET a == flow[f].app
    IN  /\ flow[f].at = "authorizing"
        /\ MustType(a) \/ u = sso
        /\ sso' = u
        /\ flow' = [flow EXCEPT ![f] = Flow(a, "returned", u, MustType(a), flow[f].disturbed)]
        /\ UNCHANGED <<deployed, jar, admins, own>>

\* The callback holds the verifier of this very sign-in: the code is exchanged,
\* and jwt copies the roles of the new token into the session.
CallbackSucceeds(f) ==
    LET a == flow[f].app
        s == [user |-> flow[f].user, isAdmin |-> flow[f].user \in admins,
              via |-> a, typed |-> flow[f].typed]
    IN  /\ flow[f].at = "returned"
        /\ Unsealed(a, "flow", Nobody) = f
        /\ jar' = [jar EXCEPT ![CookieName(a, "flow")] = NoCookie,
                              ![CookieName(a, "session")] = Cookie(a, "session", s)]
        /\ flow' = [flow EXCEPT ![f] = Ended(f, "done")]
        /\ own' = [own EXCEPT ![a] = s]
        /\ UNCHANGED <<deployed, sso, admins>>

\* It does not: the sign-in fails, with or without its flow cookie cleared.
CallbackFails(f) ==
    LET a == flow[f].app
    IN  /\ flow[f].at = "returned"
        /\ Unsealed(a, "flow", Nobody) # f
        /\ \/ UNCHANGED jar
           \/ SetCookie(a, "flow", NoCookie)
        /\ flow' = [flow EXCEPT ![f] = Ended(f, "failed")]
        /\ UNCHANGED <<deployed, sso, admins, own>>

\* It does, and Keycloak does not exchange the code: it is down, or the code is
\* too old.
ExchangeFails(f) ==
    LET a == flow[f].app
    IN  /\ flow[f].at = "returned"
        /\ Unsealed(a, "flow", Nobody) = f
        /\ \/ UNCHANGED jar
           \/ SetCookie(a, "flow", NoCookie)
        /\ flow' = [flow EXCEPT ![f] = Ended(f, "refused")]
        /\ UNCHANGED <<deployed, sso, admins, own>>

\* The user takes longer than a flow cookie lives.
FlowCookieExpires(a) ==
    LET c == jar[CookieName(a, "flow")]
    IN  /\ c # NoCookie /\ c.content \in Flows
        /\ SetCookie(a, "flow", NoCookie)
        /\ flow' = [flow EXCEPT ![c.content] = Disturbed(c.content)]
        /\ UNCHANGED <<deployed, sso, admins, own>>

\* signOut(), which clears the app's session and leaves Keycloak's; or the
\* session reaches its age.
EndSession(a) ==
    /\ SessionOf(a) # NoSession
    /\ SetCookie(a, "session", NoCookie)
    /\ own' = [own EXCEPT ![a] = NoSession]
    /\ UNCHANGED <<deployed, sso, admins, flow>>

-----------------------------------------------------------------------------
(* Keycloak.                                                                *)

EndSso == sso' = Nobody /\ UNCHANGED <<deployed, jar, admins, flow, own>>

ChangeRole(u) ==
    /\ admins' = IF u \in admins THEN admins \ {u} ELSE admins \cup {u}
    /\ UNCHANGED <<deployed, jar, sso, flow, own>>

Next == \/ \E f \in Flows : \/ \E a \in Apps : BeginSignIn(f, a)
                            \/ \E u \in Users : Authenticate(f, u)
                            \/ CallbackSucceeds(f) \/ CallbackFails(f) \/ ExchangeFails(f)
        \/ \E a \in Apps : EndSession(a) \/ FlowCookieExpires(a)
        \/ EndSso
        \/ \E u \in Users : ChangeRole(u)

Spec == Init /\ [][Next]_vars

-----------------------------------------------------------------------------
(* The admin portal's two gates, each with an auth() of its own.            *)

\* Mutant: any session will do.
Displayed_AnySession ==
    IF SessionOf("admin") = NoSession THEN "sign_in" ELSE "portal"

\* layout.tsx: what is displayed.
Displayed ==
    LET s == SessionOf("admin")
    IN  IF s = NoSession THEN "sign_in"
        ELSE IF ~s.isAdmin THEN "denied"
        ELSE "portal"

\* Mutant: the layout alone decides, and the page is sent to everybody.
Sent_Always == TRUE

\* page.tsx: whether the portal's content is sent.
Sent == SessionOf("admin") # NoSession /\ SessionOf("admin").isAdmin

-----------------------------------------------------------------------------
TypeOK ==
    /\ deployed \in Deployments
    /\ DOMAIN jar = Names
    /\ \A a \in Apps, k \in Kinds :
          LET c == jar[CookieName(a, k)]
          IN  c = NoCookie \/ c.content \in (IF k = "flow" THEN Flows ELSE Session)
    /\ sso \in Users \cup {Nobody}
    /\ admins \subseteq Users
    /\ flow \in [Flows -> SignIns]
    /\ own \in [Apps -> Session \cup {NoSession}]

OwnPrefixes == deployed.prefix["web"] # deployed.prefix["admin"]

\* With prefixes of their own, each app sees the session its own last sign-in made, and no sign-in or
\* sign-out of the other app, in whatever order, replaces or ends it
\* (verify-phase-3, "Independent sessions").
IndependentSessions == OwnPrefixes => \A a \in Apps : SessionOf(a) = own[a]

\* With prefixes or with secrets of their own ("belt and suspenders"), an app never
\* takes the other one's session for its own: whatever it accepts
\* was made by its last sign-in.
NeverTheOthersSession == \A a \in Apps : SessionOf(a) \in {own[a], NoSession}

\* With prefixes of their own, a callback lacks its verifier only if the flow cookie
\* outlived its age or another sign-in of the same app was under way at some time
\* of this one: sign-ins of the two apps do not spoil each other's flow cookies,
\* and an earlier one of the same app that is over leaves nothing behind.
FailsOnlyForItsOwnApp ==
    OwnPrefixes => \A f \in Flows :
        flow[f].at = "failed" => flow[f].disturbed

\* The portal is displayed, and its content sent, only in the session of a
\* sign-in to admin whose user had the role then; and the two gates agree.
PortalOnlyForAdmins ==
    /\ Displayed = "portal" \/ Sent => own["admin"] # NoSession /\ own["admin"].isAdmin
    /\ Sent <=> Displayed = "portal"

\* Whoever is in admin has typed credentials, for admin: neither a session of
\* web nor Keycloak's own, which survives every sign-out, lets anybody in
\* silently. So the denied screen is no dead end.
NobodySilentlyInAdmin ==
    LET s == SessionOf("admin")
    IN  s # NoSession => s.via = "admin" /\ s.typed
=============================================================================
