------------------------- MODULE IdentitySyncProofs -------------------------
(***************************************************************************)
(* Proofs about IdentitySync for any set of requests, identities and names. *)
(* Inv is the inductive invariant; the properties the runs check follow.    *)
(***************************************************************************)
EXTENDS IdentitySync, TLAPS

Done == {"respond", "answered", "dropped"}

\* A handler past its arrival holds the claims of a token, and one that waits
\* on a statement those of a UUID.
Arrived ==
    \A r \in Requests :
        /\ pc[r] # "idle" => claims[r] \in TokenClaims
        /\ pc[r] \in Waiting => claims[r].sub # NotAUUID

\* A handler past NewUserProfile holds claims a profile can be made of.
Validated ==
    \A r \in Requests : pc[r] \in {"insert", "write", "reselect"}
        => claims[r].sub \in Identities /\ claims[r].username \in Usernames

\* A row, stored or returned, comes from the request whose id it bears, which
\* is past its INSERT and acted for the identity the row names.
MadeBy(p) == pc[p.id] \in Done /\ p.keycloakId = claims[p.id].sub

Origins ==
    /\ \A p \in profiles : MadeBy(p)
    /\ \A r \in Requests : ReturnedOk(r) => /\ result[r].profile \in UserProfile
                                            /\ MadeBy(result[r].profile)

Inv == /\ TypeOK /\ Arrived /\ Validated /\ Origins
       /\ UniqueKeys /\ ValidRows /\ OkIsOwnProfile

-----------------------------------------------------------------------------
(* The invariant holds initially and each kind of step preserves it.        *)

\* An empty table and no request: nothing to break.
LEMMA InitInv == Init => Inv
<1> SUFFICES ASSUME Init PROVE Inv
    OBVIOUS
<1>1. TypeOK
  BY DEF Init, TypeOK, Places, Result, Errors, Pending, Err
<1>2. Arrived /\ Validated /\ Origins /\ OkIsOwnProfile
  BY DEF Init, Arrived, Validated, Origins, OkIsOwnProfile, ReturnedOk,
         Returned, Waiting
<1>3. UniqueKeys /\ ValidRows
  BY DEF Init, UniqueKeys, ValidRows
<1> QED BY <1>1, <1>2, <1>3 DEF Inv

\* The row a validated request inserts is a row of its own identity.
LEMMA FreshRowType ==
    ASSUME Inv, NEW r \in Requests, pc[r] = "write"
    PROVE  /\ FreshRow(r) \in UserProfile
           /\ FreshRow(r).id = r
           /\ FreshRow(r).keycloakId = claims[r].sub
           /\ FreshRow(r).username = claims[r].username
<1>1. claims[r] \in [sub : Subjects, username : Names, picture : Pictures]
  BY TokenClaimsAssumption DEF Inv, Arrived
<1> QED BY <1>1, SentinelsAssumption DEF FreshRow, FreshFrom, UserProfile

\* A handler moves on to its next statement.
LEMMA GotoInv ==
    ASSUME Inv, NEW r \in Requests, NEW place \in Waiting,
           pc[r] \in Waiting, Goto(r, place),
           place # "find",
           claims[r].sub \in Identities, claims[r].username \in Usernames,
           UNCHANGED <<profiles, claims, result>>
    PROVE  Inv'
<1> USE DEF Goto, Waiting
<1>0. pc \in [Requests -> Places] /\ profiles \subseteq UserProfile
  BY DEF Inv, TypeOK
<1>1. TypeOK'
  BY <1>0 DEF Inv, TypeOK, Places, InFlight
<1>2. Arrived' /\ Validated'
  BY <1>0 DEF Inv, Arrived, Validated
<1>3. Origins'
  BY <1>0 DEF Inv, Origins, MadeBy, Done, ReturnedOk, Returned, UserProfile
<1>4. UniqueKeys' /\ ValidRows' /\ OkIsOwnProfile'
  BY <1>0 DEF Inv, UniqueKeys, ValidRows, OkIsOwnProfile, ReturnedOk, Returned
<1> QED BY <1>1, <1>2, <1>3, <1>4 DEF Inv

\* A handler returns without touching the table: an error, or a row of its
\* own identity.
LEMMA ReturnInv ==
    ASSUME Inv, NEW r \in Requests, NEW res \in Result,
           pc[r] \in Waiting, Return(r, res),
           res.err = "none" => res.profile \in RowsOf(claims[r].sub),
           UNCHANGED <<profiles, claims>>
    PROVE  Inv'
<1> USE DEF Goto, Return, Waiting
<1>0. /\ pc \in [Requests -> Places] /\ result \in [Requests -> Result]
      /\ profiles \subseteq UserProfile
  BY DEF Inv, TypeOK
<1>1. TypeOK'
  BY <1>0 DEF Inv, TypeOK, Places, InFlight
<1>2. Arrived' /\ Validated'
  BY <1>0 DEF Inv, Arrived, Validated
<1>3. Origins'
  BY <1>0 DEF Inv, Origins, MadeBy, Done, ReturnedOk, Returned, UserProfile, RowsOf
<1>4. UniqueKeys' /\ ValidRows' /\ OkIsOwnProfile'
  BY <1>0 DEF Inv, UniqueKeys, ValidRows, OkIsOwnProfile, ReturnedOk, Returned, RowsOf
<1> QED BY <1>1, <1>2, <1>3, <1>4 DEF Inv

\* The INSERT stores its row: it answers with it, or the reply is lost.
LEMMA StoreInv ==
    ASSUME Inv, NEW r \in Requests, NEW res \in {Ok(FreshRow(r)), Err("internal")},
           pc[r] = "write", Return(r, res),
           RowsOf(claims[r].sub) = {}, ~UsernameInUse(claims[r].username),
           profiles' = profiles \cup {FreshRow(r)}, UNCHANGED claims
    PROVE  Inv'
<1> USE DEF Goto, Return, Waiting
<1>0. /\ pc \in [Requests -> Places] /\ result \in [Requests -> Result]
      /\ profiles \subseteq UserProfile
  BY DEF Inv, TypeOK
<1>a. /\ FreshRow(r) \in UserProfile
      /\ FreshRow(r).id = r
      /\ FreshRow(r).keycloakId = claims[r].sub
      /\ FreshRow(r).username = claims[r].username
  BY FreshRowType
<1>b. res \in Result
  BY <1>a DEF Ok, Err, Result, Errors
<1>1. TypeOK'
  BY <1>0, <1>a, <1>b DEF Inv, TypeOK, Places, InFlight
<1>2. Arrived' /\ Validated'
  BY <1>0 DEF Inv, Arrived, Validated
<1>3. Origins'
  <2>1. ASSUME NEW p \in profiles PROVE MadeBy(p)'
    BY <1>0 DEF Inv, Origins, MadeBy, Done, UserProfile
  <2>2. MadeBy(FreshRow(r))'
    <3> DEFINE f == FreshRow(r)
    <3>1. f' = f
      BY DEF FreshRow
    <3>2. pc'[r] = "respond" /\ claims' = claims
      BY <1>0
    <3> QED BY <1>a, <3>1, <3>2 DEF MadeBy, Done
  <2>3. ASSUME NEW s \in Requests, ReturnedOk(s)'
        PROVE  (/\ result[s].profile \in UserProfile
                /\ MadeBy(result[s].profile))'
    <3>1. CASE s = r
      <4>1. result'[s] = res /\ res.err = "none"
        BY <1>0, <2>3, <3>1 DEF ReturnedOk
      <4>2. result'[s].profile = FreshRow(r)
        BY <4>1 DEF Ok, Err
      <4>3. FreshRow(r)' = FreshRow(r)
        BY DEF FreshRow
      <4> QED BY <1>a, <2>2, <4>2, <4>3 DEF MadeBy
    <3>2. CASE s # r
      BY <1>0, <2>3, <3>2 DEF Inv, Origins, MadeBy, Done, ReturnedOk, Returned, UserProfile
    <3> QED BY <3>1, <3>2
  <2> QED BY <2>1, <2>2, <2>3 DEF Origins, MadeBy, FreshRow
<1>4. UniqueKeys' /\ ValidRows'
  BY <1>0, <1>a DEF Inv, UniqueKeys, ValidRows, Validated, RowsOf, UsernameInUse
<1>5. OkIsOwnProfile'
  BY <1>0, <1>a DEF Inv, OkIsOwnProfile, ReturnedOk, Returned, Ok, Err
<1> QED BY <1>1, <1>2, <1>3, <1>4, <1>5 DEF Inv

\* A request arrives with claims of a token.
LEMMA ReceiveInv ==
    ASSUME Inv, NEW r \in Requests, NEW c \in TokenClaims, Receive(r, c)
    PROVE  Inv'
<1> USE DEF Receive, Goto, Return, Waiting
<1>0. /\ pc \in [Requests -> Places] /\ result \in [Requests -> Result]
      /\ claims \in [Requests -> TokenClaims \cup {NoClaims}]
      /\ profiles \subseteq UserProfile
  BY DEF Inv, TypeOK
<1>1. TypeOK'
  BY <1>0 DEF TypeOK, Places, InFlight, Result, Errors, Err
<1>2. Arrived' /\ Validated'
  BY <1>0 DEF Inv, Arrived, Validated
<1>3. Origins'
  BY <1>0 DEF Inv, Origins, MadeBy, Done, ReturnedOk, Returned, UserProfile, Err
<1>4. UniqueKeys' /\ ValidRows' /\ OkIsOwnProfile'
  BY <1>0 DEF Inv, UniqueKeys, ValidRows, OkIsOwnProfile, ReturnedOk, Returned, Err
<1> QED BY <1>1, <1>2, <1>3, <1>4 DEF Inv

\* A handler that has decided responds.
LEMMA RespondInv ==
    ASSUME Inv, NEW r \in Requests, Respond(r)
    PROVE  Inv'
<1> USE DEF Respond, Goto, Waiting
<1>0. pc \in [Requests -> Places] /\ profiles \subseteq UserProfile
  BY DEF Inv, TypeOK
<1>1. TypeOK'
  BY <1>0 DEF Inv, TypeOK, Places
<1>2. Arrived' /\ Validated'
  BY <1>0 DEF Inv, Arrived, Validated
<1>3. Origins'
  BY <1>0 DEF Inv, Origins, MadeBy, Done, ReturnedOk, Returned, UserProfile
<1>4. UniqueKeys' /\ ValidRows' /\ OkIsOwnProfile'
  BY <1>0 DEF Inv, UniqueKeys, ValidRows, OkIsOwnProfile, ReturnedOk, Returned
<1> QED BY <1>1, <1>2, <1>3, <1>4 DEF Inv

\* A process that dies takes handlers with it and leaves rows alone.
LEMMA CrashInv == Inv /\ Crash => Inv'
<1> SUFFICES ASSUME Inv, Crash PROVE Inv'
    OBVIOUS
<1> USE DEF Crash, InFlight, Waiting
<1>0. pc \in [Requests -> Places] /\ profiles \subseteq UserProfile
  BY DEF Inv, TypeOK
<1>1. TypeOK'
  BY <1>0 DEF Inv, TypeOK, Places
<1>2. Arrived' /\ Validated'
  BY <1>0 DEF Inv, Arrived, Validated
<1>3. Origins'
  BY <1>0 DEF Inv, Origins, MadeBy, Done, ReturnedOk, Returned, UserProfile
<1>4. UniqueKeys' /\ ValidRows' /\ OkIsOwnProfile'
  BY <1>0 DEF Inv, UniqueKeys, ValidRows, OkIsOwnProfile, ReturnedOk, Returned
<1> QED BY <1>1, <1>2, <1>3, <1>4 DEF Inv

\* Edits and deletions leave every row's id, identity and username alone.
LEMMA CustomizeInv ==
    ASSUME Inv, NEW p \in profiles, NEW b \in Bios, NEW a \in Pictures,
           CustomizeProfile(p, b, a)
    PROVE  Inv'
<1> DEFINE q == Edited(p, b, a)
<1>0. profiles' = (profiles \ {p}) \cup {q} /\ UNCHANGED <<pc, claims, result>>
  BY DEF CustomizeProfile
<1>1. p \in UserProfile
  BY DEF Inv, TypeOK
<1>2. /\ q \in UserProfile
      /\ q.id = p.id /\ q.keycloakId = p.keycloakId /\ q.username = p.username
  BY <1>1 DEF Edited, UserProfile
<1> HIDE DEF q
<1>3. TypeOK' /\ Arrived' /\ Validated' /\ OkIsOwnProfile'
  BY <1>0, <1>2 DEF Inv, TypeOK, Arrived, Validated, OkIsOwnProfile,
                    ReturnedOk, Returned
<1>4. Origins'
  BY <1>0, <1>2 DEF Inv, Origins, MadeBy, ReturnedOk, Returned
<1>5. UniqueKeys' /\ ValidRows'
  BY <1>0, <1>2 DEF Inv, UniqueKeys, ValidRows
<1> QED BY <1>3, <1>4, <1>5 DEF Inv

\* A row that is removed takes nothing else with it.
LEMMA DeleteInv ==
    ASSUME Inv, NEW p \in profiles, DeleteProfile(p)
    PROVE  Inv'
BY DEF Inv, DeleteProfile, TypeOK, Arrived, Validated, OkIsOwnProfile, ReturnedOk,
       Returned, Origins, MadeBy, UniqueKeys, ValidRows

\* Every step of a handler is a move to its next statement, a return, a store
\* or the response.
LEMMA HandlerInv ==
    ASSUME Inv, NEW r \in Requests, HandlerStep(r)
    PROVE  Inv'
<1>0. /\ Err("internal") \in Result /\ Err("ErrUsernameTaken") \in Result
      /\ Err("internal").err = "internal"
      /\ Err("ErrUsernameTaken").err = "ErrUsernameTaken"
  BY DEF Err, Result, Errors
<1>a. \A p \in profiles : Ok(p) \in Result /\ Ok(p).profile = p
  BY DEF Inv, TypeOK, Ok, Result, Errors
<1>1. CASE FindHit(r)
  BY <1>1, <1>a, ReturnInv DEF FindHit, RowsOf, Waiting
<1>2. CASE FindMiss(r)
  <2> DEFINE e == ValidationError(claims[r])
  <2>1. /\ pc[r] = "find" /\ UNCHANGED <<profiles, claims>>
        /\ claims[r] \in TokenClaims /\ claims[r].sub # NotAUUID
    BY <1>2 DEF FindMiss, Inv, Arrived, Waiting
  <2>2. CASE e # "none"
    <3>1. Err(e) \in Result /\ Err(e).err # "none"
      BY <2>2 DEF Err, Result, Errors, ValidationError
    <3>2. Return(r, Err(e))
      BY <1>2, <2>2 DEF FindMiss
    <3> QED BY <2>1, <3>1, <3>2, ReturnInv DEF Waiting
  <2>3. CASE e = "none"
    <3>1. claims[r].sub \in Identities /\ claims[r].username \in Usernames
      BY <2>1, <2>3, TokenClaimsAssumption DEF ValidationError, Subjects, Names
    <3>2. Goto(r, "insert") /\ UNCHANGED result
      BY <1>2, <2>3 DEF FindMiss
    <3> QED BY <2>1, <3>1, <3>2, GotoInv DEF Waiting
  <2> QED BY <2>2, <2>3
<1>b. pc[r] \in {"insert", "write", "reselect"}
        => claims[r].sub \in Identities /\ claims[r].username \in Usernames
  BY DEF Inv, Validated
<1>3. CASE ProbeArbiter(r)
  <2>1. /\ pc[r] = "insert" /\ UNCHANGED <<profiles, claims, result>>
        /\ Goto(r, "reselect") \/ Goto(r, "write")
    BY <1>3 DEF ProbeArbiter
  <2> QED BY <1>b, <2>1, GotoInv DEF Waiting
<1>4. CASE WriteIndexes(r)
  <2>1. pc[r] = "write" /\ UNCHANGED claims
    BY <1>4 DEF WriteIndexes
  <2>2. CASE Return(r, Err("ErrUsernameTaken")) /\ UNCHANGED profiles
    BY <1>0, <2>1, <2>2, ReturnInv DEF Waiting
  <2>3. CASE Goto(r, "insert") /\ UNCHANGED <<profiles, result>>
    BY <1>b, <2>1, <2>3, GotoInv DEF Waiting
  <2>4. CASE /\ ~UsernameInUse(claims[r].username)
             /\ RowsOf(claims[r].sub) = {}
             /\ Store(r)
    BY <2>1, <2>4, StoreInv DEF Store
  <2> QED BY <1>4, <2>2, <2>3, <2>4 DEF WriteIndexes
<1>5. CASE InsertReplyLost(r)
  BY <1>5, StoreInv DEF InsertReplyLost
<1>6. CASE Reselect(r)
  <2>1. pc[r] \in Waiting /\ UNCHANGED <<profiles, claims>>
    BY <1>6 DEF Reselect, Waiting
  <2>2. CASE \E p \in RowsOf(claims[r].sub) : Return(r, Ok(p))
    BY <1>a, <2>1, <2>2, ReturnInv DEF RowsOf
  <2>3. CASE Return(r, Err("internal"))
    BY <1>0, <2>1, <2>3, ReturnInv
  <2> QED BY <1>6, <2>2, <2>3 DEF Reselect
<1>7. CASE StatementFails(r)
  BY <1>0, <1>7, ReturnInv DEF StatementFails
<1>8. CASE Respond(r)
  BY <1>8, RespondInv
<1> QED BY <1>1, <1>2, <1>3, <1>4, <1>5, <1>6, <1>7, <1>8 DEF HandlerStep

\* Every step keeps the invariant.
LEMMA NextInv == Inv /\ [Next]_vars => Inv'
<1> SUFFICES ASSUME Inv, [Next]_vars PROVE Inv'
    OBVIOUS
<1>1. ASSUME NEW r \in Requests, NEW c \in TokenClaims, Receive(r, c) PROVE Inv'
  BY <1>1, ReceiveInv
<1>2. ASSUME NEW r \in Requests, HandlerStep(r) PROVE Inv'
  BY <1>2, HandlerInv
<1>3. CASE Environment
  BY <1>3, CrashInv, CustomizeInv, DeleteInv DEF Environment
<1>4. CASE UNCHANGED vars
  BY <1>4 DEF vars, Inv, TypeOK, Arrived, Validated, Origins, MadeBy, UniqueKeys,
              ValidRows, OkIsOwnProfile, ReturnedOk, Returned
<1> QED BY <1>1, <1>2, <1>3, <1>4 DEF Next

-----------------------------------------------------------------------------
(* The theorems.                                                            *)

\* So it holds in every reachable state.
THEOREM Invariance == Spec => []Inv
<1> QED BY InitInv, NextInv, PTL DEF Spec

\* Every reachable state has the types the code declares.
THEOREM TypeCorrect == Spec => []TypeOK
<1>1. Inv => TypeOK
  BY DEF Inv
<1> QED BY <1>1, Invariance, PTL

\* However many first logins race, no two rows share an identity or a username,
\* and only rows NewUserProfile accepts are stored.
THEOREM TableIsSound == Spec => [](UniqueKeys /\ ValidRows)
<1>1. Inv => UniqueKeys /\ ValidRows
  BY DEF Inv
<1> QED BY <1>1, Invariance, PTL

\* Whatever INSERTs and rivals do, the table only holds rows that NewUserProfile
\* accepts.
THEOREM OnlyValidRows == Spec => []ValidRows
<1>1. Inv => ValidRows
  BY DEF Inv
<1> QED BY <1>1, Invariance, PTL

\* A caller answered with 200 is given its own identity's profile.
THEOREM AnswersAreOwn == Spec => []OkIsOwnProfile
<1>1. Inv => OkIsOwnProfile
  BY DEF Inv
<1> QED BY <1>1, Invariance, PTL

\* All the 200s of one identity name one row as long as it lives: two returned
\* rows that both survive were made for that identity, so they are the same.
THEOREM OneProfileEach == Spec => []OneProfilePerIdentity
<1>1. Inv => OneProfilePerIdentity
  <2> SUFFICES ASSUME Inv, NEW r \in Requests, NEW s \in Requests,
                      ReturnedOk(r), ReturnedOk(s), claims[r].sub = claims[s].sub,
                      NEW x \in profiles, x.id = result[r].profile.id,
                      NEW y \in profiles, y.id = result[s].profile.id
               PROVE  x.id = y.id
    BY DEF OneProfilePerIdentity
  <2>1. /\ x.keycloakId = claims[result[r].profile.id].sub
        /\ y.keycloakId = claims[result[s].profile.id].sub
    BY DEF Inv, Origins, MadeBy
  <2>2. /\ result[r].profile.keycloakId = claims[result[r].profile.id].sub
        /\ result[s].profile.keycloakId = claims[result[s].profile.id].sub
    BY DEF Inv, Origins, MadeBy
  <2>3. /\ result[r].profile.keycloakId = claims[r].sub
        /\ result[s].profile.keycloakId = claims[s].sub
    BY DEF Inv, OkIsOwnProfile
  <2>4. x = y
    BY <2>1, <2>2, <2>3 DEF Inv, UniqueKeys
  <2> QED BY <2>4
<1> QED BY <1>1, Invariance, PTL

-----------------------------------------------------------------------------
(* Action properties.                                                       *)

\* Only an arrival or its own step moves a handler from where it stands, short
\* of a crash.
LEMMA OwnStep ==
    ASSUME Inv, [Next]_vars, NEW r \in Requests,
           pc'[r] # pc[r], pc'[r] # "dropped"
    PROVE  \/ \E c \in TokenClaims : Receive(r, c)
           \/ HandlerStep(r)
<1> USE DEF Goto, Return
<1>0. pc \in [Requests -> Places]
  BY DEF Inv, TypeOK
<1>1. ASSUME NEW s \in Requests, NEW c \in TokenClaims, Receive(s, c), s # r
      PROVE  pc'[r] = pc[r]
  BY <1>0, <1>1 DEF Receive
<1>2. ASSUME NEW s \in Requests, HandlerStep(s), s # r
      PROVE  pc'[r] = pc[r]
  BY <1>0, <1>2 DEF HandlerStep, FindHit, FindMiss, ProbeArbiter,
                    WriteIndexes, Store, InsertReplyLost, Reselect, StatementFails, Respond
<1>3. ASSUME Environment PROVE pc'[r] \in {pc[r], "dropped"}
  BY <1>0, <1>3 DEF Environment, Crash, DeleteProfile, CustomizeProfile
<1>4. pc' # pc
  OBVIOUS
<1> QED BY <1>1, <1>2, <1>3, <1>4 DEF Next, vars

\* Sync only ever creates, and only for an identity that has no profile.
THEOREM OnlyCreates == Spec => SyncOnlyCreates
<1> DEFINE A == \A r \in Requests :
                    pc[r] \in Waiting /\ pc'[r] \in Waiting \cup {"respond"}
                    /\ pc'[r] # pc[r]
                    => /\ profiles \subseteq profiles'
                       /\ \A p \in profiles' \ profiles :
                             p.keycloakId = claims[r].sub /\ RowsOf(claims[r].sub) = {}
<1>1. Inv /\ [Next]_vars => [A]_vars
  <2> SUFFICES ASSUME Inv, [Next]_vars, NEW r \in Requests,
                      pc[r] \in Waiting, pc'[r] \in Waiting \cup {"respond"},
                      pc'[r] # pc[r]
               PROVE  /\ profiles \subseteq profiles'
                      /\ \A p \in profiles' \ profiles :
                            p.keycloakId = claims[r].sub /\ RowsOf(claims[r].sub) = {}
    OBVIOUS
  <2>1. HandlerStep(r)
    BY OwnStep DEF Receive, Waiting
  <2>2. CASE profiles' = profiles
    BY <2>2
  <2>3. CASE /\ profiles' = profiles \cup {FreshRow(r)}
             /\ RowsOf(claims[r].sub) = {}
    BY <2>3 DEF FreshRow, FreshFrom
  <2> QED BY <2>1, <2>2, <2>3 DEF HandlerStep, FindHit, FindMiss,
             ProbeArbiter, WriteIndexes, Store, InsertReplyLost, Reselect,
             StatementFails, Respond
<1> QED BY <1>1, Invariance, PTL DEF Spec, SyncOnlyCreates

\* A 200 is decided by a step that leaves its row in the table.
THEOREM ReturnsRows == Spec => ReturnsStoredRow
<1>1. Inv /\ [Next]_vars
        => [\A r \in Requests : ~Returned(r) /\ ReturnedOk(r)'
              => result'[r].profile \in profiles']_vars
  <2> SUFFICES ASSUME Inv, [Next]_vars, NEW r \in Requests, ~Returned(r), ReturnedOk(r)'
               PROVE  result'[r].profile \in profiles'
    OBVIOUS
  <2>0. /\ pc \in [Requests -> Places] /\ result \in [Requests -> Result]
        /\ pc'[r] \in {"respond", "answered"} /\ result'[r].err = "none"
        /\ pc'[r] # pc[r]
    BY DEF Inv, TypeOK, ReturnedOk, Returned
  <2>1. ASSUME NEW e, e # "none" PROVE ~Return(r, Err(e))
    BY <2>0, <2>1 DEF Return, Err
  <2>2. ASSUME NEW p, Return(r, Ok(p)) PROVE result'[r].profile = p
    BY <2>0, <2>2 DEF Return, Ok
  <2>3. ASSUME NEW place \in Waiting PROVE ~Goto(r, place)
    BY <2>0 DEF Goto, Waiting
  <2>4. ~(\E c \in TokenClaims : Receive(r, c))
    BY <2>1, <2>3 DEF Receive, Waiting
  <2>5. HandlerStep(r)
    BY <2>0, <2>4, OwnStep
  <2>6. CASE \E p \in RowsOf(claims[r].sub) : Return(r, Ok(p)) /\ UNCHANGED profiles
    BY <2>2, <2>6 DEF RowsOf
  <2>7. CASE Store(r)
    BY <2>2, <2>7 DEF Store
  <2>8. ~Respond(r)
    BY <2>0 DEF Respond, Returned
  <2>9. CASE FindMiss(r)
    BY <2>1, <2>3, <2>9 DEF FindMiss, Waiting
  <2>10. ~ProbeArbiter(r)
    BY <2>3 DEF ProbeArbiter, Waiting
  <2>11. CASE WriteIndexes(r)
    BY <2>1, <2>3, <2>7, <2>11 DEF WriteIndexes, Waiting
  <2>12. ~InsertReplyLost(r) /\ ~StatementFails(r)
    BY <2>1 DEF InsertReplyLost, StatementFails
  <2>13. CASE FindHit(r)
    BY <2>6, <2>13 DEF FindHit
  <2>14. CASE Reselect(r)
    BY <2>1, <2>6, <2>14 DEF Reselect
  <2> QED BY <2>5, <2>8, <2>9, <2>10, <2>11, <2>12, <2>13, <2>14 DEF HandlerStep
<1> QED BY <1>1, Invariance, PTL DEF Spec, ReturnsStoredRow
=============================================================================
