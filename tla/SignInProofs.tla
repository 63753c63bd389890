---------------------------- MODULE SignInProofs ----------------------------
(***************************************************************************)
(* Proofs about SignIn for any number of sign-ins, attempts, clients, key   *)
(* documents and users.                                                     *)
(***************************************************************************)
EXTENDS SignIn, TLAPS

\* Keycloak has published documents.
Published == published \in Seq(Documents) /\ Len(published) >= 1

\* What the registry keeps of the attempts' calls.
RegistryOK ==
    /\ phase \in [Attempts -> {"new", "open", "creating", "decided", "answered", "lost"}]
    /\ claims \in [Attempts -> TokenClaims \cup {NoClaims}]
    /\ DOMAIN result = Attempts
    /\ \A q \in Attempts :
          result[q].err \in {"none", "ErrEmptyUsername", "ErrUsernameTaken", "internal"}
    /\ NoProfile \notin profiles

\* A callback that has begun has its token, and is at one of its attempts.
Begun ==
    \A s \in SignIns : app[s].at # "away"
        => /\ token[s] \in TokenType /\ token[s].signer = token[s].kid
           /\ app[s].attempt \in 1 .. SyncAttempts
           /\ app[s].at = "pausing" => app[s].attempt < SyncAttempts

\* An attempt is posted once and in its turn: what has not been read by the API
\* has no answer and no call.
InTurn ==
    \A q \in Attempts :
        /\ wire[q] # "none" => app[q[1]].at # "away" /\ q[2] <= app[q[1]].attempt
        /\ wire[q] \in {"none", "sent"} => status[q] = 0 /\ phase[q] = "new"

\* A call is made with the claims of its sign-in's token.
CalledForToken ==
    \A q \in Attempts : phase[q] # "new"
        => wire[q] # "none" /\ claims[q] = token[q[1]].claims

\* A profile handed out is one of the caller's identity.
HandedOut ==
    \A q \in Attempts : phase[q] \in {"decided", "answered"} /\ result[q].err = "none"
        => result[q].profile # NoProfile /\ result[q].profile.keycloakId = claims[q].sub

\* A 200 was given for such a result, and a callback says so only of a 200.
Heard ==
    /\ \A q \in Attempts : status[q] = 200 => phase[q] = "answered" /\ result[q].err = "none"
    /\ \A s \in SignIns : app[s].outcome = "synced"
          => app[s].at = "signed_in" /\ status[Current(s)] = 200

Inv == /\ TypeOK /\ Published /\ RegistryOK /\ Begun /\ InTurn /\ CalledForToken
       /\ HandedOut /\ Heard

-----------------------------------------------------------------------------
\* An attempt is a sign-in and a number.
LEMMA AttemptsArePairs ==
    \A q \in Attempts : /\ q[1] \in SignIns /\ q[2] \in 1 .. SyncAttempts
                        /\ q = <<q[1], q[2]>>
BY DEF Attempts

\* The current attempt of a sign-in is one of its attempts.
LEMMA SignInsHaveAttempts ==
    \A s \in SignIns, n \in 1 .. SyncAttempts :
        <<s, n>> \in Attempts /\ <<s, n>>[1] = s /\ <<s, n>>[2] = n
BY DEF Attempts

\* Nobody has signed in yet.
LEMMA InitInv == Init => Inv
<1> SUFFICES ASSUME Init PROVE Inv
    OBVIOUS
<1> USE DEF Init, Cache!Init, Registry!Init, App
<1>1. Published /\ signing \in published[Len(published)]
  BY DEF Published
<1>2. TypeOK
  BY <1>1, SyncAttemptsAssumption DEF TypeOK
<1>3. RegistryOK
  BY DEF RegistryOK, Registry!Err
<1>4. Begun /\ InTurn /\ CalledForToken /\ HandedOut /\ Heard
  BY AttemptsArePairs DEF Begun, InTurn, CalledForToken, HandedOut, Heard
<1> QED BY <1>1, <1>2, <1>3, <1>4 DEF Inv

-----------------------------------------------------------------------------
(* The callbacks.                                                           *)

\* A callback's attempt comes to an end: with an answer or without.
LEMMA SettleInv ==
    ASSUME Inv, NEW s \in SignIns, app[s].at = "posting",
           NEW at \in {"pausing", "signed_in"},
           NEW outcome \in {"none", "synced", "rejected", "gave_up"},
           Move(s, at, app[s].attempt, outcome),
           outcome = "synced" => at = "signed_in" /\ status[Current(s)] = 200,
           at = "pausing" => app[s].attempt < SyncAttempts,
           wire' = wire \/ wire' = [wire EXCEPT ![Current(s)] = "gone"],
           UNCHANGED <<token, status, signing, keyVars, registryVars>>
    PROVE  Inv'
<1> USE DEF Inv, keyVars, registryVars
<1>1. /\ app \in [SignIns -> [at : {"away", "posting", "pausing", "signed_in"},
                              attempt : 0 .. SyncAttempts,
                              outcome : {"none", "synced", "rejected", "gave_up"}]]
      /\ app[s].attempt \in 1 .. SyncAttempts /\ Current(s) \in Attempts
      /\ Current(s) = <<s, app[s].attempt>>
  BY SignInsHaveAttempts DEF TypeOK, Begun, Current
<1>2. /\ app'[s] = App(at, app[s].attempt, outcome)
      /\ \A r \in SignIns \ {s} : app'[r] = app[r]
  BY <1>1 DEF Move
<1>3. /\ app'[s].at = at /\ app'[s].attempt = app[s].attempt /\ app'[s].outcome = outcome
  BY <1>2 DEF App
<1>4. \A q \in Attempts : \/ wire'[q] = wire[q]
                          \/ q = Current(s) /\ wire'[q] = "gone"
  <2>1. wire \in [Attempts -> {"none", "sent", "handling", "answered", "gone"}]
    BY DEF TypeOK
  <2>2. CASE wire' = wire
    BY <2>2
  <2>3. CASE wire' = [wire EXCEPT ![Current(s)] = "gone"]
    BY <2>1, <2>3
  <2> QED BY <2>2, <2>3
<1>5. TypeOK'
  <2>1. App(at, app[s].attempt, outcome) \in
            [at : {"away", "posting", "pausing", "signed_in"}, attempt : 0 .. SyncAttempts,
             outcome : {"none", "synced", "rejected", "gave_up"}]
    BY <1>1 DEF App
  <2>2. app' \in [SignIns -> [at : {"away", "posting", "pausing", "signed_in"},
                              attempt : 0 .. SyncAttempts,
                              outcome : {"none", "synced", "rejected", "gave_up"}]]
    BY <1>1, <2>1 DEF Move
  <2>3. wire' \in [Attempts -> {"none", "sent", "handling", "answered", "gone"}]
    BY DEF TypeOK
  <2> QED BY <2>2, <2>3 DEF TypeOK
<1>6. Begun'
  BY <1>1, <1>2, <1>3 DEF Begun
<1>7. InTurn' /\ CalledForToken'
  <2>1. ASSUME NEW q \in Attempts
        PROVE  /\ wire'[q] # "none" => app'[q[1]].at # "away" /\ q[2] <= app'[q[1]].attempt
               /\ wire'[q] \in {"none", "sent"} => status[q] = 0 /\ phase[q] = "new"
               /\ phase[q] # "new" => wire'[q] # "none"
    <3>1. CASE wire'[q] = wire[q]
      BY <1>2, <1>3, <3>1, AttemptsArePairs DEF InTurn, CalledForToken
    <3>2. CASE q = Current(s) /\ wire'[q] = "gone"
      BY <1>1, <1>3, <3>2
    <3> QED BY <1>4, <3>1, <3>2
  <2> QED BY <2>1 DEF InTurn, CalledForToken
<1>8. Heard'
  <2>1. \A r \in SignIns : r # s => Current(r)' = Current(r)
    BY <1>2 DEF Current
  <2>2. Current(s)' = Current(s)
    BY <1>3 DEF Current
  <2> QED BY <1>2, <1>3, <2>1, <2>2 DEF Heard
<1>9. Published' /\ RegistryOK' /\ HandedOut'
  BY DEF Published, RegistryOK, HandedOut
<1> QED BY <1>5, <1>6, <1>7, <1>8, <1>9

\* An attempt that was not posted yet is.
LEMMA PostInv ==
    ASSUME Inv, NEW s \in SignIns, NEW n \in 1 .. SyncAttempts, Post(s, n),
           token' \in [SignIns -> TokenType \cup {NoToken}],
           token'[s] \in TokenType /\ token'[s].signer = token'[s].kid,
           \A r \in SignIns \ {s} : token'[r] = token[r],
           wire[<<s, n>>] = "none",
           \A m \in 1 .. SyncAttempts :
               wire[<<s, m>>] # "none" => m <= n /\ token'[s] = token[s],
           UNCHANGED <<signing, keyVars, registryVars>>
    PROVE  Inv'
<1> USE DEF Inv, keyVars, registryVars
<1>1. /\ app \in [SignIns -> [at : {"away", "posting", "pausing", "signed_in"},
                              attempt : 0 .. SyncAttempts,
                              outcome : {"none", "synced", "rejected", "gave_up"}]]
      /\ wire \in [Attempts -> {"none", "sent", "handling", "answered", "gone"}]
      /\ <<s, n>> \in Attempts
  BY SignInsHaveAttempts DEF TypeOK
<1>2. /\ app'[s] = App("posting", n, "none")
      /\ \A r \in SignIns \ {s} : app'[r] = app[r]
      /\ wire'[<<s, n>>] = "sent"
      /\ \A q \in Attempts \ {<<s, n>>} : wire'[q] = wire[q]
      /\ UNCHANGED status
  BY <1>1 DEF Post, Move
<1>3. /\ app'[s].at = "posting" /\ app'[s].attempt = n /\ app'[s].outcome = "none"
  BY <1>2 DEF App
<1>4. TypeOK'
  <2>1. App("posting", n, "none") \in
            [at : {"away", "posting", "pausing", "signed_in"}, attempt : 0 .. SyncAttempts,
             outcome : {"none", "synced", "rejected", "gave_up"}]
    BY SyncAttemptsAssumption DEF App
  <2>2. app' \in [SignIns -> [at : {"away", "posting", "pausing", "signed_in"},
                              attempt : 0 .. SyncAttempts,
                              outcome : {"none", "synced", "rejected", "gave_up"}]]
    BY <1>1, <2>1 DEF Post, Move
  <2>3. wire' \in [Attempts -> {"none", "sent", "handling", "answered", "gone"}]
    BY <1>1 DEF Post
  <2> QED BY <1>2, <2>2, <2>3 DEF TypeOK
<1>5. Begun'
  BY <1>2, <1>3 DEF Begun
<1>6. \A q \in Attempts : wire[q] # "none" =>
          /\ q # <<s, n>> /\ token'[q[1]] = token[q[1]]
          /\ q[1] = s => q[2] <= n
  BY AttemptsArePairs
<1>7. InTurn'
  <2>1. ASSUME NEW q \in Attempts
        PROVE  /\ wire'[q] # "none" => app'[q[1]].at # "away" /\ q[2] <= app'[q[1]].attempt
               /\ wire'[q] \in {"none", "sent"} => status[q] = 0 /\ phase[q] = "new"
    <3>1. CASE q = <<s, n>>
      BY <1>1, <1>2, <1>3, <3>1 DEF InTurn
    <3>2. CASE q # <<s, n>>
      BY <1>2, <1>3, <1>6, <3>2, AttemptsArePairs DEF InTurn
    <3> QED BY <3>1, <3>2
  <2> QED BY <1>2, <2>1 DEF InTurn
<1>8. CalledForToken'
  BY <1>2, <1>6 DEF CalledForToken
<1>9. Heard'
  <2>1. \A r \in SignIns : r # s => Current(r)' = Current(r)
    BY <1>2 DEF Current
  <2> QED BY <1>2, <1>3, <2>1 DEF Heard
<1>10. Published' /\ RegistryOK' /\ HandedOut'
  BY DEF Published, RegistryOK, HandedOut
<1> QED BY <1>4, <1>5, <1>7, <1>8, <1>9, <1>10

\* A new token is signed with the key it names.
LEMMA MintType ==
    ASSUME Inv, NEW s \in SignIns, NEW c \in TokenClaims
    PROVE  Mint(s, c) \in TokenType /\ Mint(s, c).signer = Mint(s, c).kid
                                    /\ Mint(s, c).claims = c
<1>1. published[Len(published)] \in Documents
  BY DEF Inv, Published
<1>2. signing \in UNION Documents
  BY <1>1 DEF Inv, TypeOK
<1> QED BY <1>2, ClientOfAssumption DEF Mint, TokenType

\* A sign-in gets its token and sends its first attempt.
LEMMA JwtCallbackInv ==
    ASSUME Inv, NEW s \in SignIns, NEW c \in TokenClaims, JwtCallback(s, c)
    PROVE  Inv'
<1>1. /\ token \in [SignIns -> TokenType \cup {NoToken}]
      /\ token' = [token EXCEPT ![s] = Mint(s, c)]
      /\ Mint(s, c) \in TokenType /\ Mint(s, c).signer = Mint(s, c).kid
  BY MintType DEF JwtCallback, Inv, TypeOK
<1>2. /\ token' \in [SignIns -> TokenType \cup {NoToken}]
      /\ token'[s] \in TokenType /\ token'[s].signer = token'[s].kid
      /\ \A r \in SignIns \ {s} : token'[r] = token[r]
  BY <1>1
<1>3. \A m \in 1 .. SyncAttempts : wire[<<s, m>>] = "none"
  BY SignInsHaveAttempts DEF JwtCallback, Inv, InTurn
<1>4. 1 \in 1 .. SyncAttempts
  BY SyncAttemptsAssumption
<1> QED BY <1>2, <1>3, <1>4, PostInv DEF JwtCallback

\* The next attempt is sent only after the last one brought no verdict.
LEMMA RetryInv ==
    ASSUME Inv, NEW s \in SignIns, Retry(s)
    PROVE  Inv'
<1> DEFINE n == app[s].attempt + 1
<1>1. app[s].at = "pausing" /\ app[s].attempt \in 1 .. SyncAttempts
      /\ app[s].attempt < SyncAttempts
  BY DEF Retry, Inv, Begun
<1>2. n \in 1 .. SyncAttempts
  BY <1>1, SyncAttemptsAssumption
<1>3. \A m \in 1 .. SyncAttempts : wire[<<s, m>>] # "none" => m <= app[s].attempt
  BY SignInsHaveAttempts DEF Inv, InTurn
<1>4. /\ wire[<<s, n>>] = "none"
      /\ \A m \in 1 .. SyncAttempts : wire[<<s, m>>] # "none" => m <= n
  BY <1>1, <1>2, <1>3, SyncAttemptsAssumption
<1>5. /\ token' \in [SignIns -> TokenType \cup {NoToken}]
      /\ token[s] \in TokenType /\ token[s].signer = token[s].kid /\ token' = token
  BY <1>1 DEF Retry, Inv, TypeOK, Begun
<1> QED BY <1>2, <1>4, <1>5, PostInv DEF Retry

\* Whatever a callback hears, or stops waiting for.
LEMMA AppStepInv ==
    ASSUME Inv, NEW s \in SignIns, AppStep(s)
    PROVE  Inv'
<1>1. ASSUME HearAnswer(s) \/ ConnectionFails(s) \/ Timeout(s), AttemptFailed(s) PROVE Inv'
  <2>1. /\ app[s].at = "posting" /\ app[s].attempt \in 1 .. SyncAttempts
        /\ wire' = wire \/ wire' = [wire EXCEPT ![Current(s)] = "gone"]
        /\ UNCHANGED <<token, status, signing, keyVars, registryVars>>
    BY <1>1 DEF HearAnswer, ConnectionFails, Timeout, Inv, Begun
  <2>2. CASE app[s].attempt < SyncAttempts
    <3>1. Move(s, "pausing", app[s].attempt, "none")
      BY <1>1, <2>2 DEF AttemptFailed
    <3> QED BY <2>1, <2>2, <3>1, SettleInv
  <2>3. CASE ~(app[s].attempt < SyncAttempts)
    <3>1. Move(s, "signed_in", app[s].attempt, "gave_up")
      BY <1>1, <2>3 DEF AttemptFailed
    <3> QED BY <2>1, <3>1, SettleInv
  <2> QED BY <2>2, <2>3
<1>2. ASSUME HearAnswer(s), ~AttemptFailed(s) PROVE Inv'
  <2>1. /\ app[s].at = "posting"
        /\ wire' = wire
        /\ UNCHANGED <<token, status, signing, keyVars, registryVars>>
    BY <1>2 DEF HearAnswer
  <2>2. \/ status[Current(s)] = 200 /\ Move(s, "signed_in", app[s].attempt, "synced")
        \/ Move(s, "signed_in", app[s].attempt, "rejected")
    BY <1>2 DEF HearAnswer
  <2> QED BY <2>1, <2>2, SettleInv
<1> QED BY <1>1, <1>2, RetryInv DEF AppStep, ConnectionFails, Timeout

-----------------------------------------------------------------------------
(* public-api.                                                              *)

\* The statuses, one by one.
LEMMA Statuses ==
    /\ StatusOf("none") = 200 /\ StatusOf("ErrEmptyUsername") = 400
    /\ StatusOf("ErrUsernameTaken") = 409 /\ StatusOf("internal") = 500
BY DEF StatusOf

\* The state is typed in all that an API step changes.
LEMMA ApiTypes ==
    ASSUME Inv
    PROVE  /\ wire \in [Attempts -> {"none", "sent", "handling", "answered", "gone"}]
           /\ status \in [Attempts -> {0, 200, 400, 401, 409, 500}]
           /\ phase \in [Attempts -> {"new", "open", "creating", "decided", "answered", "lost"}]
           /\ claims \in [Attempts -> TokenClaims \cup {NoClaims}]
           /\ DOMAIN result = Attempts
BY DEF Inv, TypeOK, RegistryOK

\* A request is handed on to the handler.
LEMMA CallInv ==
    ASSUME Inv, NEW q \in Attempts, Arrive(q), wire'[q] = "handling"
    PROVE  Inv'
<1> USE ApiTypes DEF Inv
<1>1. /\ wire[q] = "sent"
      /\ Registry!Call(q, token[q[1]].claims)
      /\ wire' = [wire EXCEPT ![q] = "handling"]
      /\ UNCHANGED <<app, token, status, signing, keyVars>>
  BY DEF Arrive
<1>2. /\ phase[q] = "new" /\ phase' = [phase EXCEPT ![q] = "open"]
      /\ claims' = [claims EXCEPT ![q] = token[q[1]].claims]
      /\ UNCHANGED <<profiles, result>>
  BY <1>1 DEF Registry!Call, NoRefusal, Registry!Enter
<1>3. token[q[1]].claims \in TokenClaims
  BY <1>1, AttemptsArePairs DEF InTurn, Begun, TokenType
<1>4. TypeOK'
  BY <1>1, <1>2, <1>3 DEF TypeOK, keyVars
<1>5. RegistryOK'
  BY <1>2, <1>3 DEF RegistryOK
<1>6. InTurn' /\ CalledForToken'
  BY <1>1, <1>2 DEF InTurn, CalledForToken
<1>7. HandedOut' /\ Heard'
  BY <1>1, <1>2 DEF HandedOut, Heard, Current
<1>8. Published' /\ Begun'
  BY <1>1, <1>2 DEF Published, Begun, keyVars
<1> QED BY <1>4, <1>5, <1>6, <1>7, <1>8

\* Or it is turned away.
LEMMA TurnAwayInv ==
    ASSUME Inv, NEW q \in Attempts, Arrive(q), wire'[q] # "handling"
    PROVE  Inv'
<1> USE ApiTypes DEF Inv
<1>1. /\ wire[q] = "sent"
      /\ wire' = [wire EXCEPT ![q] = "answered"]
      /\ status' = [status EXCEPT ![q] = 401]
      /\ UNCHANGED <<app, token, signing, keyVars, registryVars>>
  BY DEF Arrive
<1>2. TypeOK'
  BY <1>1 DEF TypeOK, keyVars, registryVars
<1>3. InTurn' /\ CalledForToken'
  BY <1>1 DEF InTurn, CalledForToken, registryVars
<1>4. status[q] = 0
  BY <1>1 DEF InTurn
<1>5. Heard'
  <2>1. \A s \in SignIns : app[s].outcome = "synced" => Current(s) \in Attempts
    BY SignInsHaveAttempts DEF Heard, Begun, Current
  <2> QED BY <1>1, <1>4, <2>1 DEF Heard, Current, registryVars
<1>6. Published' /\ RegistryOK' /\ Begun' /\ HandedOut'
  BY <1>1 DEF Published, RegistryOK, Begun, HandedOut,
              keyVars, registryVars
<1> QED BY <1>2, <1>3, <1>5, <1>6

\* What the registry decides: a profile of the caller's own identity, there
\* already or new, or a refusal; and no profile but that new one is added.
LEMMA Decision ==
    ASSUME Inv, NEW q \in Attempts, Registry!EnsureProfile(q), ~Registry!Miss(q)
    PROVE  /\ phase[q] \in {"open", "creating"}
           /\ phase' = [phase EXCEPT ![q] = "decided"]
           /\ UNCHANGED claims
           /\ \/ UNCHANGED profiles
              \/ \E p : profiles' = profiles \cup {p} /\ p # NoProfile
           /\ \E res :
                 /\ result' = [result EXCEPT ![q] = res]
                 /\ res.err \in {"none", "ErrEmptyUsername", "ErrUsernameTaken", "internal"}
                 /\ res.err = "none" => /\ res.profile # NoProfile
                                        /\ res.profile.keycloakId = claims[q].sub
<1> DEFINE p == FreshProfile(q, claims[q])
           Fits(res) ==
               /\ res.err \in {"none", "ErrEmptyUsername", "ErrUsernameTaken", "internal"}
               /\ res.err = "none" => /\ res.profile # NoProfile
                                      /\ res.profile.keycloakId = claims[q].sub
<1>1. phase[q] \in {"open", "creating"} /\ UNCHANGED claims
  BY DEF Registry!EnsureProfile
<1>2. claims[q] \in TokenClaims
  <2>1. wire[q] # "none" /\ claims[q] = token[q[1]].claims
    BY <1>1 DEF Inv, CalledForToken
  <2> QED BY <2>1, AttemptsArePairs DEF Inv, InTurn, Begun, TokenType
<1>3. p # NoProfile /\ p.keycloakId = claims[q].sub
  BY <1>2, NoProfileAssumption DEF FreshProfile
<1>4. \A o : o # NoProfile /\ o.keycloakId = claims[q].sub => Fits(Registry!Ok(o))
  BY DEF Registry!Ok
<1>5. \A e \in {"ErrEmptyUsername", "ErrUsernameTaken", "internal"} : Fits(Registry!Err(e))
  BY DEF Registry!Err
<1>6. /\ \E res : Registry!Decide(q, res) /\ Fits(res)
      /\ \/ UNCHANGED profiles
         \/ \E o : profiles' = profiles \cup {o} /\ o # NoProfile
  <2> HIDE DEF p, Fits
  <2>1. CASE Registry!Return(q)
    <3>1. PICK o \in profiles : /\ o.keycloakId = claims[q].sub
                               /\ Registry!Decide(q, Registry!Ok(o))
      BY <2>1 DEF Registry!Return, Registry!Mine
    <3>2. o # NoProfile
      BY DEF Inv, RegistryOK
    <3> QED BY <1>4, <2>1, <3>1, <3>2 DEF Registry!Return
  <2>2. CASE Registry!Create(q)
    <3>1. Registry!Decide(q, Registry!Ok(p)) /\ profiles' = profiles \cup {p}
      BY <2>2 DEF Registry!Create, p
    <3> QED BY <1>3, <1>4, <3>1
  <2>3. CASE Registry!Reject(q)
    <3>1. \E e \in {"ErrEmptyUsername", "ErrUsernameTaken"} :
             Registry!Decide(q, Registry!Err(e))
      BY <2>3 DEF Registry!Reject, Unusable
    <3> QED BY <1>5, <2>3, <3>1 DEF Registry!Reject
  <2>4. CASE Registry!Fail(q)
    <3>1. /\ Registry!Decide(q, Registry!Err("internal"))
          /\ UNCHANGED profiles \/ profiles' = profiles \cup {p}
      BY <2>4 DEF Registry!Fail, p
    <3> QED BY <1>3, <1>5, <3>1
  <2> QED BY <2>1, <2>2, <2>3, <2>4 DEF Registry!EnsureProfile
<1> QED BY <1>1, <1>6 DEF Registry!Decide, Registry!Enter

\* A call that found no profile goes on to create one.
LEMMA MissInv ==
    ASSUME Inv, NEW q \in Attempts, Decide(q), Registry!Miss(q)
    PROVE  Inv'
<1> USE ApiTypes DEF Inv
<1>1. /\ phase[q] = "open" /\ phase' = [phase EXCEPT ![q] = "creating"]
      /\ UNCHANGED <<app, token, wire, status, signing, keyVars, profiles, claims, result>>
  BY DEF Decide, Registry!EnsureProfile, Registry!Miss, Registry!Enter, appVars
<1>2. TypeOK' /\ Published' /\ Begun'
  BY <1>1 DEF TypeOK, Published, Begun, keyVars
<1>3. RegistryOK'
  BY <1>1 DEF RegistryOK
<1>4. InTurn' /\ CalledForToken' /\ HandedOut'
  BY <1>1 DEF InTurn, CalledForToken, HandedOut
<1>5. Heard'
  BY <1>1 DEF Heard, Current
<1> QED BY <1>2, <1>3, <1>4, <1>5

\* The registry decides a call, for the identity of its token.
LEMMA DecideInv ==
    ASSUME Inv, NEW q \in Attempts, Decide(q), ~Registry!Miss(q)
    PROVE  Inv'
<1> USE ApiTypes DEF Inv
<1>1. /\ UNCHANGED <<app, token, wire, status, signing, keyVars>>
      /\ Registry!EnsureProfile(q)
  BY DEF Decide, appVars
<1>2. /\ phase[q] \in {"open", "creating"}
      /\ phase' = [phase EXCEPT ![q] = "decided"]
      /\ UNCHANGED claims
      /\ \/ UNCHANGED profiles
         \/ \E p : profiles' = profiles \cup {p} /\ p # NoProfile
  BY <1>1, Decision
<1>3. PICK res :
          /\ result' = [result EXCEPT ![q] = res]
          /\ res.err \in {"none", "ErrEmptyUsername", "ErrUsernameTaken", "internal"}
          /\ res.err = "none" => /\ res.profile # NoProfile
                                 /\ res.profile.keycloakId = claims[q].sub
  BY <1>1, Decision
<1>4. /\ result'[q] = res /\ phase'[q] = "decided"
      /\ \A r \in Attempts \ {q} : result'[r] = result[r] /\ phase'[r] = phase[r]
  BY <1>2, <1>3
<1>5. TypeOK'
  BY <1>1, <1>2 DEF TypeOK, keyVars
<1>6. RegistryOK'
  <2>1. NoProfile \notin profiles'
    BY <1>2 DEF RegistryOK
  <2>2. DOMAIN result' = Attempts
    BY <1>3
  <2>3. phase' \in [Attempts -> {"new", "open", "creating", "decided", "answered", "lost"}]
    BY <1>2
  <2> QED BY <1>2, <1>3, <1>4, <2>1, <2>2, <2>3 DEF RegistryOK
<1>7. InTurn' /\ CalledForToken'
  BY <1>1, <1>2, <1>4 DEF InTurn, CalledForToken
<1>8. HandedOut'
  BY <1>2, <1>3, <1>4 DEF HandedOut
<1>9. Heard'
  BY <1>1, <1>2, <1>4 DEF Heard, Current
<1>10. Published' /\ Begun'
  BY <1>1 DEF Published, Begun, keyVars
<1> QED BY <1>5, <1>6, <1>7, <1>8, <1>9, <1>10

\* The answer leaves the API with the decision that was taken.
LEMMA AnswerInv ==
    ASSUME Inv, NEW q \in Attempts, Answer(q)
    PROVE  Inv'
<1> USE ApiTypes DEF Inv
<1>1. /\ phase[q] = "decided" /\ phase' = [phase EXCEPT ![q] = "answered"]
      /\ wire' = [wire EXCEPT ![q] = "answered"]
      /\ status' = [status EXCEPT ![q] = StatusOf(result[q].err)]
      /\ UNCHANGED <<app, token, signing, keyVars, profiles, claims, result>>
  BY DEF Answer, Registry!Answer, Registry!Enter
<1>2. result[q].err \in {"none", "ErrEmptyUsername", "ErrUsernameTaken", "internal"}
  BY DEF RegistryOK
<1>3. /\ StatusOf(result[q].err) \in {200, 400, 409, 500}
      /\ StatusOf(result[q].err) = 200 => result[q].err = "none"
  BY <1>2, Statuses
<1>4. TypeOK'
  BY <1>1, <1>3 DEF TypeOK, keyVars
<1>5. RegistryOK'
  BY <1>1 DEF RegistryOK
<1>6. InTurn' /\ CalledForToken'
  BY <1>1 DEF InTurn, CalledForToken
<1>7. HandedOut'
  BY <1>1 DEF HandedOut
<1>8. Heard'
  <2>1. \A r \in Attempts : status[r] = 200 => r # q
    BY <1>1 DEF Heard
  <2>2. \A s \in SignIns : app[s].outcome = "synced" => Current(s) \in Attempts
    BY SignInsHaveAttempts DEF Heard, Begun, Current
  <2> QED BY <1>1, <1>3, <2>1, <2>2 DEF Heard, Current
<1>9. Published' /\ Begun'
  BY <1>1 DEF Published, Begun, keyVars
<1> QED BY <1>4, <1>5, <1>6, <1>7, <1>8, <1>9

\* A process that stops loses its handlers, not its decisions.
LEMMA StopApiInv ==
    ASSUME Inv, StopApi
    PROVE  Inv'
<1> USE ApiTypes DEF Inv
<1>1. /\ \A q \in Attempts : /\ wire'[q] = IF wire[q] \in {"sent", "handling"}
                                              THEN "gone" ELSE wire[q]
                             /\ phase'[q] = IF phase[q] \in {"open", "creating", "decided"}
                                               THEN "lost" ELSE phase[q]
      /\ UNCHANGED <<app, token, status, signing, published, profiles, claims, result>>
  BY DEF StopApi, Registry!Outage, Cache!Stop
<1>2. TypeOK'
  <2>1. wire' \in [Attempts -> {"none", "sent", "handling", "answered", "gone"}]
    BY DEF StopApi
  <2> QED BY <1>1, <2>1 DEF TypeOK
<1>3. RegistryOK'
  <2>1. phase' \in [Attempts -> {"new", "open", "creating", "decided", "answered", "lost"}]
    BY DEF StopApi, Registry!Outage
  <2> QED BY <1>1, <2>1 DEF RegistryOK
<1>4. InTurn' /\ CalledForToken' /\ HandedOut'
  BY <1>1 DEF InTurn, CalledForToken, HandedOut
<1>5. Heard'
  BY <1>1 DEF Heard, Current
<1>6. Published' /\ Begun'
  BY <1>1 DEF Published, Begun
<1> QED BY <1>2, <1>3, <1>4, <1>5, <1>6

-----------------------------------------------------------------------------
(* Keys, and the table's other writers.                                     *)

\* The API's keys say nothing about sign-ins, and a rotation publishes one more
\* document.
LEMMA KeysInv ==
    ASSUME Inv, StartApi \/ LearnKeys \/ \E d \in Documents : Rotate(d)
    PROVE  Inv'
<1> USE DEF Inv
<1>1. UNCHANGED <<appVars, registryVars>>
  BY DEF StartApi, LearnKeys, Rotate
<1>2. Published' /\ signing' \in published'[Len(published')]
  <2>1. CASE StartApi \/ LearnKeys
    BY <2>1 DEF StartApi, LearnKeys, Cache!Start, Cache!Refresh, Cache!Hold, TypeOK, Published
  <2>2. ASSUME NEW d \in Documents, Rotate(d)
        PROVE  Published' /\ signing' \in published'[Len(published')]
    BY <2>2 DEF Rotate, Cache!Publish, Published
  <2> QED BY <2>1, <2>2
<1>3. TypeOK'
  BY <1>1, <1>2 DEF TypeOK, appVars, registryVars
<1>4. RegistryOK' /\ Begun' /\ InTurn' /\ CalledForToken' /\ HandedOut'
  BY <1>1 DEF RegistryOK, Begun, InTurn, CalledForToken, HandedOut,
              appVars, registryVars
<1>5. Heard'
  BY <1>1 DEF Heard, Current, appVars, registryVars
<1> QED BY <1>2, <1>3, <1>4, <1>5

\* A profile removed elsewhere puts no other in its place.
LEMMA RemoveProfileInv ==
    ASSUME Inv, RemoveProfile
    PROVE  Inv'
<1> USE DEF Inv
<1>1. /\ profiles' \subseteq profiles
      /\ UNCHANGED <<app, token, wire, status, signing, published, phase, claims, result>>
  BY DEF RemoveProfile, Registry!Elsewhere, NoEdits, appVars, keyVars
<1>2. TypeOK' /\ Published' /\ RegistryOK'
  BY <1>1 DEF TypeOK, Published, RegistryOK
<1>3. Begun' /\ InTurn' /\ CalledForToken' /\ HandedOut' /\ Heard'
  BY <1>1 DEF Begun, InTurn, CalledForToken, HandedOut, Heard, Current
<1> QED BY <1>2, <1>3

\* Every step keeps the invariant.
LEMMA NextInv == Inv /\ [Next]_vars => Inv'
<1> SUFFICES ASSUME Inv, [Next]_vars PROVE Inv'
    OBVIOUS
<1>1. CASE UNCHANGED vars
  BY <1>1 DEF vars, appVars, keyVars, registryVars, Inv, TypeOK, Published, RegistryOK, Begun,
              InTurn, CalledForToken, HandedOut, Heard, Current
<1>2. ASSUME NEW s \in SignIns, NEW c \in TokenClaims, JwtCallback(s, c) PROVE Inv'
  BY <1>2, JwtCallbackInv
<1>3. ASSUME NEW s \in SignIns, AppStep(s) PROVE Inv'
  BY <1>3, AppStepInv
<1>4. ASSUME NEW q \in Attempts, Arrive(q) PROVE Inv'
  BY <1>4, CallInv, TurnAwayInv
<1>5. ASSUME NEW q \in Attempts, Decide(q) \/ Answer(q) PROVE Inv'
  BY <1>5, MissInv, DecideInv, AnswerInv
<1> QED BY <1>1, <1>2, <1>3, <1>4, <1>5, StopApiInv, KeysInv, RemoveProfileInv DEF Next

\* So it holds in every reachable state.
LEMMA AlwaysInv == Spec => []Inv
<1> QED BY InitInv, NextInv, PTL DEF Spec

\* Every reachable state of any number of sign-ins is well typed.
THEOREM TypeCorrect == Spec => []TypeOK
<1>1. Inv => TypeOK
  BY DEF Inv
<1> QED BY <1>1, AlwaysInv, PTL

\* A sign-in that logs "synced" was given the profile of its token's identity.
THEOREM SyncedOwnProfile == Spec => []SyncedIsOwnProfile
<1>1. Inv => SyncedIsOwnProfile
  <2> SUFFICES ASSUME Inv, NEW s \in SignIns, app[s].outcome = "synced"
               PROVE  /\ result[Current(s)].err = "none"
                      /\ result[Current(s)].profile # NoProfile
                      /\ result[Current(s)].profile.keycloakId = token[s].claims.sub
    BY DEF SyncedIsOwnProfile
  <2>1. app[s].at = "signed_in" /\ status[Current(s)] = 200
    BY DEF Inv, Heard
  <2>2. Current(s) \in Attempts /\ Current(s)[1] = s
    BY <2>1, SignInsHaveAttempts DEF Inv, Begun, Current
  <2>3. phase[Current(s)] = "answered" /\ result[Current(s)].err = "none"
    BY <2>1, <2>2 DEF Inv, Heard
  <2>4. claims[Current(s)] = token[s].claims
    BY <2>2, <2>3 DEF Inv, CalledForToken
  <2> QED BY <2>2, <2>3, <2>4 DEF Inv, HandedOut
<1> QED BY <1>1, AlwaysInv, PTL

-----------------------------------------------------------------------------
(* Action properties.                                                       *)

\* A token just issued passes every check but the one for its key.
LEMMA FreshTokenPasses ==
    ASSUME Inv, NEW s \in SignIns, app[s].at # "away", token[s].kid \in keys
    PROVE  Passes(token[s])
<1>1. token[s] \in TokenType /\ token[s].signer = token[s].kid
  BY DEF Inv, Begun
<1>2. token[s] # NoToken
  BY <1>1, NoTokenAssumption
<1> QED BY <1>1, <1>2 DEF TokenType, Passes, Auth!Authenticated, Auth!SignatureValid,
           Auth!Keyfunc, Auth!Unexpired, Auth!IssuerPinned, Auth!ForAllowedClient

\* A fresh token is only turned away for a key the API does not hold.
THEOREM TurnedAwayForTheKey == Spec => RejectedOnlyForItsKey
<1> DEFINE A == \A q \in Attempts : status'[q] = 401 /\ status[q] = 0
                    => token[q[1]].kid \notin keys
<1>1. Inv /\ [Next]_vars => [A]_vars
  <2> SUFFICES ASSUME Inv, Next, NEW q \in Attempts, status'[q] = 401, status[q] = 0
               PROVE  token[q[1]].kid \notin keys
    OBVIOUS
  <2> USE ApiTypes
  <2>1. CASE Arrive(q)
    <3>1. ~Passes(token[q[1]]) /\ wire[q] = "sent"
      BY <2>1 DEF Arrive
    <3>2. app[q[1]].at # "away" /\ q[1] \in SignIns
      BY <3>1, AttemptsArePairs DEF Inv, InTurn
    <3> QED BY <3>1, <3>2, FreshTokenPasses
  <2>2. ASSUME NEW r \in Attempts \ {q}, Arrive(r) PROVE FALSE
    BY <2>2 DEF Arrive
  <2>3. ASSUME NEW r \in Attempts, Answer(r) PROVE FALSE
    <3>1. StatusOf(result[r].err) # 401
      BY Statuses DEF Inv, RegistryOK
    <3> QED BY <2>3, <3>1 DEF Answer
  <2>4. CASE UNCHANGED status
    BY <2>4
  <2>5. ASSUME NEW s \in SignIns, (\E c \in TokenClaims : JwtCallback(s, c)) \/ AppStep(s)
        PROVE  UNCHANGED status
    BY <2>5 DEF JwtCallback, Post, AppStep, HearAnswer, ConnectionFails, Timeout, Retry
  <2>6. ASSUME NEW r \in Attempts, Decide(r)
        PROVE  UNCHANGED status
    BY <2>6 DEF Decide, appVars
  <2>7. ASSUME StartApi \/ LearnKeys \/ StopApi \/ RemoveProfile \/ \E d \in Documents : Rotate(d)
        PROVE  UNCHANGED status
    BY <2>7 DEF StartApi, LearnKeys, StopApi, Rotate, RemoveProfile, appVars
  <2> QED BY <2>1, <2>2, <2>3, <2>4, <2>5, <2>6, <2>7 DEF Next
<1> QED BY <1>1, AlwaysInv, PTL DEF Spec, RejectedOnlyForItsKey

-----------------------------------------------------------------------------
(* Composition.                                                             *)

\* Sign-ins use the two halves of public-api as they are promised to be used: the
\* registry and the key cache, seen apart, do what their specifications say.
THEOREM PartsKept == Spec => Registry!Spec /\ Cache!Spec
<1>1. Init => Registry!Init /\ Cache!Init
  BY DEF Init
<1>2. Inv /\ [Next]_vars => [Registry!Next]_(Registry!vars)
  <2> SUFFICES ASSUME Inv, Next PROVE Registry!Next \/ UNCHANGED registryVars
    BY DEF vars, registryVars, Registry!vars
  <2>1. ASSUME NEW q \in Attempts, Arrive(q) PROVE Registry!Next \/ UNCHANGED registryVars
    <3>1. CASE UNCHANGED registryVars
      BY <3>1
    <3>2. CASE Registry!Call(q, token[q[1]].claims)
      <4>1. wire[q] = "sent"
        BY <2>1 DEF Arrive
      <4>2. token[q[1]].claims \in TokenClaims
        BY <4>1, AttemptsArePairs DEF Inv, InTurn, Begun, TokenType
      <4> QED BY <3>2, <4>2 DEF Registry!Next
    <3> QED BY <2>1, <3>1, <3>2 DEF Arrive
  <2>2. ASSUME NEW q \in Attempts, Decide(q) \/ Answer(q) PROVE Registry!Next
    BY <2>2 DEF Decide, Answer, Registry!Next
  <2>3. CASE StopApi \/ RemoveProfile
    BY <2>3 DEF StopApi, RemoveProfile, Registry!Next
  <2>4. CASE UNCHANGED registryVars
    BY <2>4
  <2> QED BY <2>1, <2>2, <2>3, <2>4 DEF Next, JwtCallback, AppStep, HearAnswer,
             ConnectionFails, Timeout, Retry, StartApi, LearnKeys, Rotate
<1>3. [Next]_vars => [Cache!Next]_(Cache!vars)
  <2> SUFFICES ASSUME Next PROVE Cache!Next \/ UNCHANGED keyVars
    BY DEF vars, keyVars, Cache!vars
  <2>1. CASE StartApi \/ LearnKeys \/ StopApi \/ \E d \in Documents : Rotate(d)
    BY <2>1 DEF StartApi, LearnKeys, StopApi, Rotate, Cache!Next
  <2>2. CASE UNCHANGED keyVars
    BY <2>2
  <2> QED BY <2>1, <2>2 DEF Next, JwtCallback, AppStep, HearAnswer, ConnectionFails, Timeout,
             Retry, Arrive, Decide, Answer, RemoveProfile
<1> QED BY <1>1, <1>2, <1>3, AlwaysInv, PTL DEF Spec, Registry!Spec, Cache!Spec
=============================================================================
