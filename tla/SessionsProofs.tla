--------------------------- MODULE SessionsProofs ---------------------------
(***************************************************************************)
(* Proofs about Sessions for any users, any number of sign-ins and any      *)
(* deployment in which prefixes or secrets keep the two apps apart.         *)
(***************************************************************************)
EXTENDS Sessions, TLAPS

\* A sign-in that nothing has disturbed finds its own flow cookie, and is the only
\* one of its app that is under way.
Alone(f) == \A g \in Flows \ {f} : g \notin UnderWay(flow[f].app)

FlowCookieKept ==
    OwnPrefixes =>
        \A a \in Apps : \A f \in UnderWay(a) :
            ~flow[f].disturbed => Unsealed(a, "flow", Nobody) = f /\ Alone(f)

\* Whoever is back from Keycloak is somebody, and has typed credentials where
\* they must be.
Returned ==
    \A f \in Flows : flow[f].at = "returned"
        => flow[f].user \in Users /\ (flow[f].app \in PromptLogin => flow[f].typed)

\* A session belongs to the app whose sign-in made it, and that took credentials
\* where they must be typed.
OwnSession ==
    \A a \in Apps : own[a] # NoSession
        => own[a].via = a /\ (a \in PromptLogin => own[a].typed)

Inv == /\ TypeOK /\ IndependentSessions /\ NeverTheOthersSession /\ FailsOnlyForItsOwnApp
       /\ FlowCookieKept /\ Returned /\ OwnSession

-----------------------------------------------------------------------------
(* Cookies.                                                                 *)

\* Kinds never share a name, apps do not with prefixes of their own, and no two
\* cookies share a key in any deployment.
LEMMA CookiesApart ==
    ASSUME deployed \in Deployments, NEW a \in Apps, NEW b \in Apps,
           NEW k \in Kinds, NEW l \in Kinds
    PROVE  /\ CookieName(a, k) \in Names
           /\ CookieName(a, k) = CookieName(b, l) => k = l /\ (OwnPrefixes => a = b)
           /\ SealingKey(a, k) = SealingKey(b, l) => a = b /\ k = l
<1>1. deployed.prefix["web"] # deployed.prefix["admin"]
      \/ deployed.secret["web"] # deployed.secret["admin"]
  BY DeploymentsAssumption
<1> QED BY <1>1 DEF CookieName, SealingKey, Names, OwnPrefixes, Apps

\* A cookie an app sets is no missing cookie.
LEMMA CookieIsThere ==
    ASSUME deployed \in Deployments, NEW a \in Apps, NEW k \in Kinds,
           NEW content \in Flows \cup Session
    PROVE  Cookie(a, k, content) # NoCookie
<1>1. Cookie(a, k, content) \in CookieType
  BY DEF Cookie, CookieType, SealingKey, CookieName
<1> QED BY <1>1, SentinelsAssumption

\* What is unsealed depends on the cookie of that name only.
LEMMA SameCookie ==
    ASSUME NEW a \in Apps, NEW k \in Kinds, NEW none, UNCHANGED deployed,
           jar'[CookieName(a, k)] = jar[CookieName(a, k)]
    PROVE  Unsealed(a, k, none)' = Unsealed(a, k, none)
BY DEF Unsealed, CookieName, SealingKey

\* What TypeOK says of the jar.
JarOK == /\ DOMAIN jar = Names
         /\ \A a \in Apps, k \in Kinds :
               LET c == jar[CookieName(a, k)]
               IN  c = NoCookie \/ c.content \in (IF k = "flow" THEN Flows ELSE Session)

\* Setting a cookie, or clearing it, leaves those of other names alone.
LEMMA SetCookieJar ==
    ASSUME TypeOK, UNCHANGED deployed, NEW a \in Apps, NEW k \in Kinds, NEW c,
           c = NoCookie \/ c.content \in (IF k = "flow" THEN Flows ELSE Session),
           SetCookie(a, k, c)
    PROVE  /\ JarOK'
           /\ jar'[CookieName(a, k)] = c
           /\ \A b \in Apps, l \in Kinds :
                 CookieName(b, l) # CookieName(a, k)
                   => jar'[CookieName(b, l)] = jar[CookieName(b, l)]
<1>1. deployed \in Deployments /\ DOMAIN jar = Names
  BY DEF TypeOK
<1>2. Names' = Names /\ \A b \in Apps, l \in Kinds : CookieName(b, l)' = CookieName(b, l)
  BY DEF Names, CookieName
<1>3. /\ DOMAIN jar' = Names
      /\ jar'[CookieName(a, k)] = c
      /\ \A n \in Names : n # CookieName(a, k) => jar'[n] = jar[n]
  BY <1>1, CookiesApart DEF SetCookie
<1>4. \A b \in Apps, l \in Kinds : CookieName(b, l) # CookieName(a, k)
                   => jar'[CookieName(b, l)] = jar[CookieName(b, l)]
  BY <1>1, <1>3, CookiesApart
<1>5. ASSUME NEW b \in Apps, NEW l \in Kinds
      PROVE  \/ jar'[CookieName(b, l)] = NoCookie
             \/ jar'[CookieName(b, l)].content \in (IF l = "flow" THEN Flows ELSE Session)
  <2>1. CASE CookieName(b, l) = CookieName(a, k)
    BY <1>1, <1>3, <2>1, CookiesApart
  <2>2. CASE CookieName(b, l) # CookieName(a, k)
    BY <1>4, <2>2 DEF TypeOK
  <2> QED BY <2>1, <2>2
<1>6. JarOK'
  BY <1>2, <1>3, <1>5 DEF JarOK
<1> QED BY <1>3, <1>4, <1>6

\* A browser without cookies.
LEMMA InitInv == Init => Inv
<1> SUFFICES ASSUME Init PROVE Inv
    OBVIOUS
<1>1. \A a \in Apps, k \in Kinds : jar[CookieName(a, k)] = NoCookie
  BY CookiesApart DEF Init
<1>2. TypeOK
  <2>1. flow \in [Flows -> SignIns]
    BY DEF Init, Flow, SignIns, Apps
  <2> QED BY <1>1, <2>1 DEF Init, TypeOK
<1>3. \A a \in Apps : SessionOf(a) = NoSession /\ own[a] = NoSession
  BY <1>1 DEF Init, SessionOf, Unsealed, Kinds
<1>4. \A f \in Flows : flow[f].at = "idle"
  BY DEF Init, Flow
<1> QED BY <1>2, <1>3, <1>4 DEF Inv, IndependentSessions, NeverTheOthersSession,
           FailsOnlyForItsOwnApp, FlowCookieKept, UnderWay, Returned, OwnSession

-----------------------------------------------------------------------------
(* A sign-in.                                                               *)

\* Setting or clearing a flow cookie, or no cookie at all, leaves sessions alone.
LEMMA SessionsKept ==
    ASSUME Inv, UNCHANGED <<deployed, own>>,
           \A a \in Apps : jar'[CookieName(a, "session")] = jar[CookieName(a, "session")]
    PROVE  IndependentSessions' /\ NeverTheOthersSession' /\ OwnSession'
<1>1. \A a \in Apps : SessionOf(a)' = SessionOf(a)
  BY SameCookie DEF SessionOf, Kinds
<1> QED BY <1>1 DEF Inv, IndependentSessions, NeverTheOthersSession, OwnSession, OwnPrefixes

\* A new sign-in displaces the flow cookie its app's name stands for.
LEMMA BeginSignInInv ==
    ASSUME Inv, NEW f \in Flows, NEW a \in Apps, BeginSignIn(f, a)
    PROVE  Inv'
<1> USE DEF Inv
<1>0. /\ deployed \in Deployments /\ "flow" \in Kinds /\ "session" \in Kinds
      /\ UNCHANGED <<deployed, sso, admins, own>>
      /\ Cookie(a, "flow", f).content = f /\ Cookie(a, "flow", f).key = SealingKey(a, "flow")
      /\ flow[f].at = "idle"
  BY DEF TypeOK, Kinds, BeginSignIn, Cookie
<1>1. /\ JarOK'
      /\ jar'[CookieName(a, "flow")] = Cookie(a, "flow", f)
      /\ \A b \in Apps, l \in Kinds : CookieName(b, l) # CookieName(a, "flow")
             => jar'[CookieName(b, l)] = jar[CookieName(b, l)]
  BY <1>0, SetCookieJar DEF BeginSignIn
<1>2. /\ flow'[f] = Flow(a, "authorizing", Nobody, FALSE, UnderWay(a) # {})
      /\ \A g \in Flows \ {f} : flow'[g] = IF g \in UnderWay(a) THEN Disturbed(g) ELSE flow[g]
  BY DEF BeginSignIn, TypeOK
<1>3. /\ flow'[f].at = "authorizing" /\ flow'[f].app = a
      /\ flow'[f].disturbed = (UnderWay(a) # {})
      /\ \A g \in Flows \ {f} :
            /\ flow'[g].at = flow[g].at /\ flow'[g].app = flow[g].app
            /\ flow'[g].user = flow[g].user /\ flow'[g].typed = flow[g].typed
            /\ g \in UnderWay(a) => flow'[g].disturbed
            /\ flow[g].disturbed => flow'[g].disturbed
  <2>1. /\ flow'[f].at = "authorizing" /\ flow'[f].app = a
        /\ flow'[f].disturbed = (UnderWay(a) # {})
    BY <1>2 DEF Flow
  <2>2. ASSUME NEW g \in Flows \ {f}
        PROVE  /\ flow'[g].at = flow[g].at /\ flow'[g].app = flow[g].app
               /\ flow'[g].user = flow[g].user /\ flow'[g].typed = flow[g].typed
               /\ g \in UnderWay(a) => flow'[g].disturbed
               /\ flow[g].disturbed => flow'[g].disturbed
    <3>1. CASE g \in UnderWay(a)
      <4>1. flow'[g] = Disturbed(g)
        BY <1>2, <3>1
      <4> QED BY <4>1 DEF Disturbed, Flow
    <3>2. CASE g \notin UnderWay(a)
      BY <1>2, <3>2
    <3> QED BY <3>1, <3>2
  <2> QED BY <2>1, <2>2
<1>4. TypeOK'
  <2>1. Flow(a, "authorizing", Nobody, FALSE, UnderWay(a) # {}) \in SignIns
    BY DEF Flow, SignIns
  <2>2. \A g \in Flows : Disturbed(g) \in SignIns
    BY DEF Flow, Disturbed, SignIns, TypeOK
  <2>3. flow' \in [Flows -> SignIns]
    BY <2>1, <2>2 DEF BeginSignIn, TypeOK
  <2> QED BY <1>0, <1>1, <2>3 DEF TypeOK, JarOK
<1>5. IndependentSessions' /\ NeverTheOthersSession' /\ OwnSession'
  BY <1>0, <1>1, SessionsKept, CookiesApart
<1>6. FailsOnlyForItsOwnApp'
  BY <1>0, <1>3 DEF FailsOnlyForItsOwnApp, OwnPrefixes
<1>7. FlowCookieKept'
  <2> SUFFICES ASSUME OwnPrefixes, NEW b \in Apps, NEW g \in UnderWay(b)',
                      ~flow'[g].disturbed
               PROVE  Unsealed(b, "flow", Nobody)' = g /\ Alone(g)'
    BY <1>0 DEF FlowCookieKept, OwnPrefixes
  <2>1. g \in Flows /\ flow'[g].app = b /\ flow'[g].at \in {"authorizing", "returned"}
    BY DEF UnderWay
  <2>2. CASE g = f
    <3>1. Unsealed(a, "flow", Nobody)' = f
      BY <1>0, <1>1, CookieIsThere DEF Unsealed, CookieName, SealingKey
    <3>2. UnderWay(a) = {}
      BY <1>3, <2>2
    <3>3. Alone(f)'
      BY <1>3, <3>2 DEF Alone, UnderWay
    <3> QED BY <1>3, <2>1, <2>2, <3>1, <3>3
  <2>3. CASE g # f
    <3>1. g \in UnderWay(b) /\ b # a
      BY <1>3, <2>1, <2>3 DEF UnderWay
    <3>2. CookieName(b, "flow") # CookieName(a, "flow")
      BY <1>0, <3>1, CookiesApart
    <3>3. Unsealed(b, "flow", Nobody)' = Unsealed(b, "flow", Nobody)
      BY <1>0, <1>1, <3>2, SameCookie
    <3>4. ~flow[g].disturbed
      BY <1>3, <2>1, <2>3
    <3>5. Unsealed(b, "flow", Nobody) = g /\ Alone(g)
      BY <3>1, <3>4 DEF FlowCookieKept
    <3>6. Alone(g)'
      BY <1>3, <2>1, <2>3, <3>1, <3>5 DEF Alone, UnderWay
    <3> QED BY <3>3, <3>5, <3>6
  <2> QED BY <2>2, <2>3
<1>8. Returned'
  BY <1>3 DEF Returned
<1> QED BY <1>4, <1>5, <1>6, <1>7, <1>8

\* Keycloak answers a sign-in as somebody, typed in or not.
LEMMA AuthenticateInv ==
    ASSUME Inv, NEW f \in Flows, NEW u \in Users, Authenticate(f, u)
    PROVE  Inv'
<1> USE DEF Inv
<1> DEFINE a == flow[f].app
<1>0. /\ UNCHANGED <<deployed, jar, admins, own>> /\ sso' = u /\ a \in Apps
      /\ flow[f].at = "authorizing"
  BY DEF Authenticate, TypeOK, SignIns
<1>1. /\ flow'[f] = Flow(a, "returned", u, MustType(a), flow[f].disturbed)
      /\ \A g \in Flows \ {f} : flow'[g] = flow[g]
  BY DEF Authenticate, TypeOK
<1>2. MustType(a) \in BOOLEAN
  BY DEF MustType
<1>3. /\ flow'[f].at = "returned" /\ flow'[f].app = a /\ flow'[f].user = u
      /\ flow'[f].typed = MustType(a) /\ flow'[f].disturbed = flow[f].disturbed
  BY <1>1 DEF Flow
<1>4. TypeOK'
  <2>1. Flow(a, "returned", u, MustType(a), flow[f].disturbed) \in SignIns
    BY <1>0, <1>2 DEF Flow, SignIns, TypeOK
  <2>2. flow' \in [Flows -> SignIns]
    BY <2>1 DEF Authenticate, TypeOK
  <2> QED BY <1>0, <2>2 DEF TypeOK, Names, CookieName
<1>5. IndependentSessions' /\ NeverTheOthersSession' /\ OwnSession'
  BY <1>0, SessionsKept
<1>6. FailsOnlyForItsOwnApp'
  BY <1>0, <1>1, <1>3 DEF FailsOnlyForItsOwnApp, OwnPrefixes
<1>7. \A g \in Flows : flow'[g].app = flow[g].app /\ flow'[g].disturbed = flow[g].disturbed
  BY <1>1, <1>3
<1>8. FlowCookieKept'
  <2>1. \A b \in Apps : Unsealed(b, "flow", Nobody)' = Unsealed(b, "flow", Nobody)
    BY <1>0 DEF Unsealed, CookieName, SealingKey
  <2>2. \A b \in Apps : UnderWay(b)' = UnderWay(b)
    BY <1>0, <1>1, <1>3 DEF UnderWay
  <2>3. \A g \in Flows : Alone(g)' <=> Alone(g)
    BY <1>7, <2>2 DEF Alone, UnderWay, TypeOK, SignIns
  <2> QED BY <1>0, <1>7, <2>1, <2>2, <2>3 DEF FlowCookieKept, OwnPrefixes, UnderWay
<1>9. Returned'
  BY <1>1, <1>3 DEF Returned, MustType
<1> QED BY <1>4, <1>5, <1>6, <1>8, <1>9

\* A sign-in ends, and touches no flow cookie but its own app's.
LEMMA EndFlowInv ==
    ASSUME Inv, UNCHANGED deployed, NEW f \in Flows, NEW place \in {"done", "failed", "refused"},
           flow[f].at = "returned",
           flow' = [flow EXCEPT ![f] = Ended(f, place)],
           OwnPrefixes => \A b \in Apps \ {flow[f].app} :
               jar'[CookieName(b, "flow")] = jar[CookieName(b, "flow")],
           OwnPrefixes /\ place = "failed" => flow[f].disturbed
    PROVE  /\ flow' \in [Flows -> SignIns]
           /\ FailsOnlyForItsOwnApp' /\ FlowCookieKept' /\ Returned'
<1> USE DEF Inv
<1> DEFINE a == flow[f].app
<1>1. /\ flow'[f] = Ended(f, place)
      /\ \A g \in Flows \ {f} : flow'[g] = flow[g]
  BY DEF TypeOK
<1>2. flow'[f].at = place /\ flow'[f].disturbed = flow[f].disturbed
  BY <1>1 DEF Ended, Flow
<1>3. flow' \in [Flows -> SignIns]
  <2>1. Ended(f, place) \in SignIns
    BY DEF Ended, Flow, TypeOK, SignIns
  <2> QED BY <2>1 DEF TypeOK
<1>4. FailsOnlyForItsOwnApp'
  BY <1>1, <1>2 DEF FailsOnlyForItsOwnApp, OwnPrefixes
<1>5. FlowCookieKept'
  <2> SUFFICES ASSUME OwnPrefixes, NEW b \in Apps, NEW g \in UnderWay(b)',
                      ~flow'[g].disturbed
               PROVE  Unsealed(b, "flow", Nobody)' = g /\ Alone(g)'
    BY DEF FlowCookieKept, OwnPrefixes
  <2>1. g \in Flows /\ g # f /\ flow'[g] = flow[g] /\ g \in UnderWay(b) /\ flow[g].app = b
    BY <1>1, <1>2 DEF UnderWay
  <2>2. Unsealed(b, "flow", Nobody) = g /\ Alone(g)
    BY <2>1 DEF FlowCookieKept
  <2>3. b # a
    BY <2>1, <2>2 DEF Alone, UnderWay
  <2>4. Unsealed(b, "flow", Nobody)' = Unsealed(b, "flow", Nobody)
    BY <2>3, SameCookie DEF Kinds
  <2>5. Alone(g)'
    BY <1>1, <1>2, <2>1, <2>2 DEF Alone, UnderWay
  <2> QED BY <2>2, <2>4, <2>5
<1>6. Returned'
  BY <1>1, <1>2 DEF Returned
<1> QED BY <1>3, <1>4, <1>5, <1>6

\* A callback that fails has lost its flow cookie, so it was disturbed; one that is
\* refused has not.
LEMMA CallbackFailsInv ==
    ASSUME Inv, NEW f \in Flows, CallbackFails(f) \/ ExchangeFails(f)
    PROVE  Inv'
<1> USE DEF Inv
<1> DEFINE a == flow[f].app
<1>0. /\ deployed \in Deployments /\ "flow" \in Kinds /\ "session" \in Kinds /\ a \in Apps
      /\ UNCHANGED <<deployed, sso, admins, own>> /\ flow[f].at = "returned"
      /\ UNCHANGED jar \/ SetCookie(a, "flow", NoCookie)
  BY DEF TypeOK, SignIns, Kinds, CallbackFails, ExchangeFails
<1>1. PICK place \in {"failed", "refused"} :
          /\ flow' = [flow EXCEPT ![f] = Ended(f, place)]
          /\ place = "failed" => Unsealed(a, "flow", Nobody) # f
  BY DEF CallbackFails, ExchangeFails
<1>2. /\ JarOK'
      /\ \A b \in Apps, l \in Kinds : CookieName(b, l) # CookieName(a, "flow")
             => jar'[CookieName(b, l)] = jar[CookieName(b, l)]
  <2>1. CASE UNCHANGED jar
    BY <1>0, <2>1 DEF TypeOK, JarOK, Names, CookieName
  <2>2. CASE SetCookie(a, "flow", NoCookie)
    BY <1>0, <2>2, SetCookieJar
  <2> QED BY <1>0, <2>1, <2>2
<1>3. OwnPrefixes /\ place = "failed" => flow[f].disturbed
  BY <1>0, <1>1 DEF FlowCookieKept, UnderWay, TypeOK, SignIns
<1>4. OwnPrefixes => \A b \in Apps \ {a} : jar'[CookieName(b, "flow")] = jar[CookieName(b, "flow")]
  BY <1>0, <1>2, CookiesApart
<1>5. /\ flow' \in [Flows -> SignIns]
      /\ FailsOnlyForItsOwnApp' /\ FlowCookieKept' /\ Returned'
  BY <1>0, <1>1, <1>3, <1>4, EndFlowInv
<1>6. TypeOK'
  BY <1>0, <1>2, <1>5 DEF TypeOK, JarOK
<1>7. IndependentSessions' /\ NeverTheOthersSession' /\ OwnSession'
  BY <1>0, <1>2, SessionsKept, CookiesApart
<1> QED BY <1>5, <1>6, <1>7

\* Only the sign-in whose cookie expired goes without, and that is noted.
LEMMA FlowCookieExpiresInv ==
    ASSUME Inv, NEW a \in Apps, FlowCookieExpires(a)
    PROVE  Inv'
<1> USE DEF Inv
<1> DEFINE h == jar[CookieName(a, "flow")].content
<1>0. /\ deployed \in Deployments /\ "flow" \in Kinds /\ "session" \in Kinds /\ h \in Flows
      /\ UNCHANGED <<deployed, sso, admins, own>>
      /\ SetCookie(a, "flow", NoCookie)
      /\ flow' = [flow EXCEPT ![h] = Disturbed(h)]
  BY DEF TypeOK, Kinds, FlowCookieExpires
<1>1. /\ JarOK'
      /\ \A b \in Apps, l \in Kinds : CookieName(b, l) # CookieName(a, "flow")
             => jar'[CookieName(b, l)] = jar[CookieName(b, l)]
  BY <1>0, SetCookieJar
<1>2. /\ flow'[h] = Disturbed(h)
      /\ \A g \in Flows \ {h} : flow'[g] = flow[g]
  BY <1>0 DEF TypeOK
<1>3. /\ flow'[h].disturbed
      /\ \A g \in Flows : /\ flow'[g].at = flow[g].at /\ flow'[g].app = flow[g].app
                          /\ flow'[g].user = flow[g].user /\ flow'[g].typed = flow[g].typed
                          /\ flow[g].disturbed => flow'[g].disturbed
  BY <1>2 DEF Disturbed, Flow
<1>4. TypeOK'
  <2>1. Disturbed(h) \in SignIns
    BY <1>0 DEF Disturbed, Flow, TypeOK, SignIns
  <2> QED BY <1>0, <1>1, <2>1 DEF TypeOK, JarOK
<1>5. IndependentSessions' /\ NeverTheOthersSession' /\ OwnSession'
  BY <1>0, <1>1, SessionsKept, CookiesApart
<1>6. FailsOnlyForItsOwnApp' /\ Returned'
  BY <1>0, <1>3 DEF FailsOnlyForItsOwnApp, Returned, OwnPrefixes
<1>7. FlowCookieKept'
  <2> SUFFICES ASSUME OwnPrefixes, NEW b \in Apps, NEW g \in UnderWay(b)',
                      ~flow'[g].disturbed
               PROVE  Unsealed(b, "flow", Nobody)' = g /\ Alone(g)'
    BY <1>0 DEF FlowCookieKept, OwnPrefixes
  <2>1. g \in UnderWay(b) /\ ~flow[g].disturbed /\ g # h /\ g \in Flows
    BY <1>3 DEF UnderWay
  <2>2. Unsealed(b, "flow", Nobody) = g /\ Alone(g)
    BY <2>1 DEF FlowCookieKept
  <2>3. b # a
    <3>1. SUFFICES ASSUME b = a PROVE FALSE
      OBVIOUS
    <3>2. jar[CookieName(a, "flow")] # NoCookie
      BY DEF FlowCookieExpires
    <3> QED BY <2>1, <2>2, <3>1, <3>2, SentinelsAssumption DEF Unsealed
  <2>4. Unsealed(b, "flow", Nobody)' = Unsealed(b, "flow", Nobody)
    BY <1>0, <1>1, <2>3, SameCookie, CookiesApart
  <2>5. Alone(g)'
    BY <1>3, <2>2 DEF Alone, UnderWay
  <2> QED BY <2>2, <2>4, <2>5
<1> QED BY <1>4, <1>5, <1>6, <1>7

\* The session of an app is replaced, or cleared, together with its history: the
\* other app cannot read it, and keeps its own where it has a name of its own.
LEMMA SessionSetInv ==
    ASSUME Inv, UNCHANGED deployed, NEW a \in Apps, NEW s \in Session \cup {NoSession},
           s # NoSession => s.via = a /\ (a \in PromptLogin => s.typed),
           own' = [own EXCEPT ![a] = s],
           jar'[CookieName(a, "session")]
               = IF s = NoSession THEN NoCookie ELSE Cookie(a, "session", s),
           \A b \in Apps : CookieName(b, "session") # CookieName(a, "session")
               => jar'[CookieName(b, "session")] = jar[CookieName(b, "session")]
    PROVE  /\ own' \in [Apps -> Session \cup {NoSession}]
           /\ IndependentSessions' /\ NeverTheOthersSession' /\ OwnSession'
<1> USE DEF Inv
<1>0. deployed \in Deployments /\ "session" \in Kinds /\ own \in [Apps -> Session \cup {NoSession}]
  BY DEF TypeOK, Kinds
<1>1. own'[a] = s /\ \A b \in Apps \ {a} : own'[b] = own[b]
  BY <1>0
<1>2. SessionOf(a)' = s
  <2>1. CASE s = NoSession
    BY <2>1 DEF SessionOf, Unsealed, CookieName
  <2>2. CASE s # NoSession
    <3>1. Cookie(a, "session", s) # NoCookie
      BY <1>0, <2>2, CookieIsThere
    <3>2. /\ Cookie(a, "session", s).key = SealingKey(a, "session")
          /\ Cookie(a, "session", s).content = s
      BY DEF Cookie
    <3> QED BY <2>2, <3>1, <3>2 DEF SessionOf, Unsealed, CookieName, SealingKey
  <2> QED BY <2>1, <2>2
<1>3. ASSUME NEW b \in Apps \ {a}
      PROVE  /\ OwnPrefixes => SessionOf(b)' = SessionOf(b)
             /\ SessionOf(b)' \in {SessionOf(b), NoSession}
  <2>1. CASE CookieName(b, "session") # CookieName(a, "session")
    BY <1>0, <2>1, SameCookie DEF SessionOf
  <2>2. CASE CookieName(b, "session") = CookieName(a, "session")
    <3>1. SealingKey(b, "session") # SealingKey(a, "session") /\ ~OwnPrefixes
      BY <1>0, <2>2, CookiesApart
    <3>2. SealingKey(b, "session")' = SealingKey(b, "session")
          /\ CookieName(b, "session")' = CookieName(b, "session")
      BY DEF SealingKey, CookieName
    <3>3. Cookie(a, "session", s).key = SealingKey(a, "session")
      BY DEF Cookie
    <3>4. \/ jar'[CookieName(b, "session")] = NoCookie
          \/ jar'[CookieName(b, "session")].key # SealingKey(b, "session")
      BY <2>2, <3>1, <3>3
    <3>5. SessionOf(b)' = NoSession
      BY <3>2, <3>4 DEF SessionOf, Unsealed
    <3> QED BY <3>1, <3>5
  <2> QED BY <2>1, <2>2
<1>4. IndependentSessions'
  BY <1>1, <1>2, <1>3 DEF IndependentSessions, OwnPrefixes
<1>5. NeverTheOthersSession'
  BY <1>1, <1>2, <1>3 DEF NeverTheOthersSession
<1>6. OwnSession'
  BY <1>1 DEF OwnSession
<1> QED BY <1>0, <1>4, <1>5, <1>6

\* A callback that finds its own flow cookie opens a session.
LEMMA CallbackSucceedsInv ==
    ASSUME Inv, NEW f \in Flows, CallbackSucceeds(f)
    PROVE  Inv'
<1> USE DEF Inv
<1> DEFINE a == flow[f].app
           s == [user |-> flow[f].user, isAdmin |-> flow[f].user \in admins,
                 via |-> a, typed |-> flow[f].typed]
<1>0. /\ deployed \in Deployments /\ "flow" \in Kinds /\ "session" \in Kinds /\ a \in Apps
      /\ UNCHANGED <<deployed, sso, admins>> /\ flow[f].at = "returned"
      /\ flow' = [flow EXCEPT ![f] = Ended(f, "done")]
      /\ own' = [own EXCEPT ![a] = s]
      /\ DOMAIN jar = Names
  BY DEF TypeOK, SignIns, Kinds, CallbackSucceeds
<1>1. s \in Session /\ s # NoSession /\ s.via = a /\ (a \in PromptLogin => s.typed)
  <2>1. flow[f].user \in Users /\ (a \in PromptLogin => flow[f].typed)
    BY <1>0 DEF Returned
  <2>2. flow[f].typed \in BOOLEAN
    BY DEF TypeOK, SignIns
  <2>3. s \in Session
    BY <1>0, <2>1, <2>2 DEF Session
  <2> QED BY <2>1, <2>3, SentinelsAssumption
<1>2. /\ CookieName(a, "flow") # CookieName(a, "session")
      /\ CookieName(a, "flow") \in Names /\ CookieName(a, "session") \in Names
  BY <1>0, CookiesApart
<1>3. /\ DOMAIN jar' = Names
      /\ jar'[CookieName(a, "session")] = Cookie(a, "session", s)
      /\ jar'[CookieName(a, "flow")] = NoCookie
      /\ \A n \in Names \ {CookieName(a, "flow"), CookieName(a, "session")} : jar'[n] = jar[n]
  BY <1>0, <1>2 DEF CallbackSucceeds
<1>4. JarOK'
  <2>1. ASSUME NEW b \in Apps, NEW k \in Kinds
        PROVE  \/ jar'[CookieName(b, k)] = NoCookie
               \/ jar'[CookieName(b, k)].content \in (IF k = "flow" THEN Flows ELSE Session)
    <3>1. CASE CookieName(b, k) = CookieName(a, "flow")
      BY <1>3, <3>1
    <3>2. CASE CookieName(b, k) = CookieName(a, "session")
      <4>1. k = "session"
        BY <1>0, <3>2, CookiesApart
      <4> QED BY <1>1, <1>3, <3>2, <4>1 DEF Cookie
    <3>3. CASE CookieName(b, k) \notin {CookieName(a, "flow"), CookieName(a, "session")}
      <4>1. CookieName(b, k) \in Names
        BY <1>0, CookiesApart
      <4> QED BY <1>3, <3>3, <4>1 DEF TypeOK
    <3> QED BY <3>1, <3>2, <3>3
  <2>2. Names' = Names /\ \A b \in Apps, k \in Kinds : CookieName(b, k)' = CookieName(b, k)
    BY <1>0 DEF Names, CookieName
  <2> QED BY <1>3, <2>1, <2>2 DEF JarOK
<1>5. OwnPrefixes => \A b \in Apps \ {a} : jar'[CookieName(b, "flow")] = jar[CookieName(b, "flow")]
  BY <1>0, <1>3, CookiesApart
<1>6. /\ flow' \in [Flows -> SignIns]
      /\ FailsOnlyForItsOwnApp' /\ FlowCookieKept' /\ Returned'
  BY <1>0, <1>5, EndFlowInv
<1>7. \A b \in Apps : CookieName(b, "session") # CookieName(a, "session")
               => jar'[CookieName(b, "session")] = jar[CookieName(b, "session")]
  BY <1>0, <1>3, CookiesApart
<1>8. /\ own' \in [Apps -> Session \cup {NoSession}]
      /\ IndependentSessions' /\ NeverTheOthersSession' /\ OwnSession'
  BY <1>0, <1>1, <1>3, <1>7, SessionSetInv
<1>9. TypeOK'
  BY <1>0, <1>4, <1>6, <1>8 DEF TypeOK, JarOK
<1> QED BY <1>6, <1>8, <1>9

-----------------------------------------------------------------------------
(* What ends a session, and Keycloak.                                       *)

\* Steps that leave the sign-ins and their cookies alone.
LEMMA FlowsKept ==
    ASSUME Inv, UNCHANGED <<deployed, flow>>,
           \A a \in Apps : jar'[CookieName(a, "flow")] = jar[CookieName(a, "flow")]
    PROVE  FailsOnlyForItsOwnApp' /\ FlowCookieKept' /\ Returned'
<1>1. \A a \in Apps : Unsealed(a, "flow", Nobody)' = Unsealed(a, "flow", Nobody)
  BY SameCookie DEF Kinds
<1>2. \A a \in Apps : UnderWay(a)' = UnderWay(a)
  BY DEF UnderWay
<1>3. \A f \in Flows : Alone(f) => Alone(f)'
  BY DEF Alone, UnderWay
<1>4. \A a \in Apps : UnderWay(a) \subseteq Flows
  BY DEF UnderWay
<1>5. FlowCookieKept'
  BY <1>1, <1>2, <1>3, <1>4 DEF Inv, FlowCookieKept, OwnPrefixes
<1>6. FailsOnlyForItsOwnApp' /\ Returned'
  BY DEF Inv, FailsOnlyForItsOwnApp, Returned, OwnPrefixes
<1> QED BY <1>5, <1>6

\* A sign-out takes the session cookie its name stands for.
LEMMA EndSessionInv ==
    ASSUME Inv, NEW a \in Apps, EndSession(a)
    PROVE  Inv'
<1> USE DEF Inv
<1>0. /\ deployed \in Deployments /\ "flow" \in Kinds /\ "session" \in Kinds
      /\ UNCHANGED <<deployed, sso, admins, flow>>
      /\ own' = [own EXCEPT ![a] = NoSession]
  BY DEF TypeOK, Kinds, EndSession
<1>1. /\ JarOK'
      /\ jar'[CookieName(a, "session")] = NoCookie
      /\ \A b \in Apps, l \in Kinds : CookieName(b, l) # CookieName(a, "session")
             => jar'[CookieName(b, l)] = jar[CookieName(b, l)]
  BY <1>0, SetCookieJar DEF EndSession
<1>2. /\ own' \in [Apps -> Session \cup {NoSession}]
      /\ IndependentSessions' /\ NeverTheOthersSession' /\ OwnSession'
  BY <1>0, <1>1, SessionSetInv
<1>3. FailsOnlyForItsOwnApp' /\ FlowCookieKept' /\ Returned'
  BY <1>0, <1>1, FlowsKept, CookiesApart
<1>4. TypeOK'
  BY <1>0, <1>1, <1>2 DEF TypeOK, JarOK
<1> QED BY <1>2, <1>3, <1>4

\* Keycloak touches nothing of an app's.
LEMMA KeycloakInv ==
    ASSUME Inv, EndSso \/ \E u \in Users : ChangeRole(u)
    PROVE  Inv'
<1>1. UNCHANGED <<deployed, jar, flow, own>>
  BY DEF EndSso, ChangeRole
<1>2. sso' \in Users \cup {Nobody} /\ admins' \subseteq Users
  BY DEF EndSso, ChangeRole, Inv, TypeOK
<1>3. TypeOK'
  BY <1>1, <1>2 DEF Inv, TypeOK, Names, CookieName
<1>4. FailsOnlyForItsOwnApp' /\ FlowCookieKept' /\ Returned'
  BY <1>1, FlowsKept
<1>5. IndependentSessions' /\ NeverTheOthersSession' /\ OwnSession'
  BY <1>1, SessionsKept
<1> QED BY <1>3, <1>4, <1>5 DEF Inv

\* A step of nobody.
LEMMA StutterInv ==
    ASSUME Inv, UNCHANGED vars
    PROVE  Inv'
<1>1. UNCHANGED <<deployed, jar, sso, admins, flow, own>>
  BY DEF vars
<1>2. FailsOnlyForItsOwnApp' /\ FlowCookieKept' /\ Returned'
  BY <1>1, FlowsKept
<1>3. IndependentSessions' /\ NeverTheOthersSession' /\ OwnSession'
  BY <1>1, SessionsKept
<1>4. TypeOK'
  BY <1>1 DEF Inv, TypeOK, Names, CookieName
<1> QED BY <1>2, <1>3, <1>4 DEF Inv

\* Every step keeps the invariant.
LEMMA NextInv == Inv /\ [Next]_vars => Inv'
<1> SUFFICES ASSUME Inv, [Next]_vars PROVE Inv'
    OBVIOUS
<1>1. CASE UNCHANGED vars
  BY <1>1, StutterInv
<1>2. ASSUME NEW f \in Flows, NEW a \in Apps, BeginSignIn(f, a) PROVE Inv'
  BY <1>2, BeginSignInInv
<1>3. ASSUME NEW f \in Flows, NEW u \in Users, Authenticate(f, u) PROVE Inv'
  BY <1>3, AuthenticateInv
<1>4. ASSUME NEW f \in Flows, CallbackSucceeds(f) \/ CallbackFails(f) \/ ExchangeFails(f) PROVE Inv'
  BY <1>4, CallbackSucceedsInv, CallbackFailsInv
<1>5. ASSUME NEW a \in Apps, EndSession(a) \/ FlowCookieExpires(a) PROVE Inv'
  BY <1>5, EndSessionInv, FlowCookieExpiresInv
<1> QED BY <1>1, <1>2, <1>3, <1>4, <1>5, KeycloakInv DEF Next

-----------------------------------------------------------------------------
\* So it holds in every reachable state.
LEMMA AlwaysInv == Spec => []Inv
<1> QED BY InitInv, NextInv, PTL DEF Spec

\* Every reachable state of the browser and its apps is well typed.
THEOREM TypeCorrect == Spec => []TypeOK
<1>1. Inv => TypeOK
  BY DEF Inv
<1> QED BY <1>1, AlwaysInv, PTL

\* With prefixes of their own, an app's session is the one its last sign-in made,
\* whatever is done in the other.
THEOREM SessionsAreIndependent == Spec => []IndependentSessions
<1>1. Inv => IndependentSessions
  BY DEF Inv
<1> QED BY <1>1, AlwaysInv, PTL

\* With prefixes or secrets of their own, an app never takes the other's session.
THEOREM SessionsAreNeverMixed == Spec => []NeverTheOthersSession
<1>1. Inv => NeverTheOthersSession
  BY DEF Inv
<1> QED BY <1>1, AlwaysInv, PTL

\* With prefixes of their own, a sign-in only misses its flow cookie for its age or
\* for one of the same app that was under way together with it.
THEOREM FlowsAreIndependent == Spec => []FailsOnlyForItsOwnApp
<1>1. Inv => FailsOnlyForItsOwnApp
  BY DEF Inv
<1> QED BY <1>1, AlwaysInv, PTL

\* The portal is for those who had the role at their sign-in to admin, and the
\* two gates agree.
THEOREM GateIsSound == Spec => []PortalOnlyForAdmins
<1>1. Inv => PortalOnlyForAdmins
  BY DEF Inv, TypeOK, NeverTheOthersSession, PortalOnlyForAdmins, Displayed, Sent, Apps, Session
<1> QED BY <1>1, AlwaysInv, PTL

\* Where admin sets AUTH_PROMPT_LOGIN, nobody is let into it silently.
THEOREM CredentialsAreTyped ==
    ASSUME "admin" \in PromptLogin
    PROVE  Spec => []NobodySilentlyInAdmin
<1>1. Inv => NobodySilentlyInAdmin
  BY DEF Inv, NeverTheOthersSession, OwnSession, NobodySilentlyInAdmin, Apps
<1> QED BY <1>1, AlwaysInv, PTL
=============================================================================
