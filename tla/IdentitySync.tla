---------------------------- MODULE IdentitySync ----------------------------
(***************************************************************************)
(* POST /auth/sync of public-api: the handlers of concurrent requests, each *)
(* one SyncHandler.Handle -> SyncService.EnsureProfile ->                   *)
(* PostgresProfileRepository, over the table identity.user_profiles.        *)
(*                                                                          *)
(* A request runs in a goroutine of its own. Between two statements it      *)
(* sends to Postgres any other request may run, so a handler is cut into    *)
(* steps at its statements: the local code after a statement belongs to the *)
(* step of that statement. A statement may fail, the INSERT may commit and  *)
(* its reply be lost, and the process may die with requests in flight.      *)
(*                                                                          *)
(* Every request that reaches the handler has passed RequireAuth (main.go   *)
(* mounts it in front), so it always carries claims.                        *)
(***************************************************************************)
EXTENDS Naturals

CONSTANTS
    Requests,      \* requests to POST /auth/sync, in the order of no clock
    Identities,    \* Keycloak user ids: UUIDs other than the zero UUID
    NilUUID,       \* the zero UUID, which uuid.Parse accepts
    NotAUUID,      \* a subject uuid.Parse rejects
    Usernames,     \* non-empty values of preferred_username
    EmptyName,     \* the empty preferred_username
    Pictures,      \* values of the picture claim
    Bios,          \* values of the bio column
    DefaultBio,    \* the bio of a new profile
    NoProfile,     \* the zero UserProfile
    NoClaims,      \* the claims of a request that has not arrived
    TokenClaims,   \* the claims the validated tokens carry
    Unanswered     \* requests one of whose statements Postgres may never answer

Subjects == Identities \cup {NilUUID, NotAUUID}
Names    == Usernames \cup {EmptyName}

ASSUME SentinelsAssumption ==
    /\ NilUUID \notin Identities
    /\ NotAUUID \notin Identities \cup {NilUUID}
    /\ EmptyName \notin Usernames
    /\ DefaultBio \in Bios

ASSUME TokenClaimsAssumption ==
    TokenClaims \subseteq [sub : Subjects, username : Names, picture : Pictures]

ASSUME UnansweredAssumption == Unanswered \subseteq Requests

\* A row of identity.user_profiles. Its id is drawn by gen_random_uuid() and
\* is never drawn twice: the request that inserts the row stands for it.
UserProfile == [id : Requests, keycloakId : Subjects, username : Names,
                avatarUrl : Pictures, bio : Bios]

ASSUME NoProfileAssumption == NoProfile \notin UserProfile

Errors == {"none", "ErrNotUUID", "ErrEmptyKeycloakID", "ErrEmptyUsername",
           "ErrUsernameTaken", "internal"}

\* What EnsureProfile hands back to the handler: an error, or a profile.
Result == [err : Errors, profile : UserProfile \cup {NoProfile}]

VARIABLES
    profiles,   \* identity.user_profiles: a set of rows
    pc,         \* where each request's handler stands
    claims,     \* the claims of each request that has arrived
    result      \* what each handler has to answer with

vars == <<profiles, pc, claims, result>>

Waiting  == {"find", "insert", "write", "reselect"}   \* on a statement
InFlight == Waiting \cup {"respond"}
Places   == {"idle"} \cup InFlight \cup {"answered", "dropped"}

Ok(p)   == [err |-> "none", profile |-> p]
Err(e)  == [err |-> e, profile |-> NoProfile]
Pending == Err("none")     \* no result yet

-----------------------------------------------------------------------------
(* The repository's statements, as functions of the table.                  *)

\* The rows FindByKeycloakID selects: keycloak_id is UNIQUE, so at most one.
RowsOf(kid) == {p \in profiles : p.keycloakId = kid}

\* Mutant: the column without its UNIQUE.
UsernameInUse_NotUnique(name) == FALSE

UsernameInUse(name) == \E p \in profiles : p.username = name

\* Mutant: the username is not looked at.
ValidationError_AnyName(c) ==
    IF c.sub = NilUUID THEN "ErrEmptyKeycloakID" ELSE "none"

\* NewUserProfile's verdict on the claims of a first login.
ValidationError(c) ==
    IF c.sub = NilUUID THEN "ErrEmptyKeycloakID"
    ELSE IF c.username = EmptyName THEN "ErrEmptyUsername"
    ELSE "none"

\* Mutant: the bio column left NULL.
FreshFrom_NullBio(r, c) == [id |-> r, keycloakId |-> c.sub, username |-> c.username,
                            avatarUrl |-> c.picture, bio |-> NoProfile]

\* The row the INSERT of request r stores.
FreshFrom(r, c) == [id |-> r, keycloakId |-> c.sub, username |-> c.username,
                    avatarUrl |-> c.picture, bio |-> DefaultBio]

FreshRow(r) == FreshFrom(r, claims[r])

-----------------------------------------------------------------------------
(* Steps of the handler.                                                    *)

Goto(r, place) == pc' = [pc EXCEPT ![r] = place]

Return(r, res) == /\ Goto(r, "respond")
                  /\ result' = [result EXCEPT ![r] = res]

Init == /\ profiles = {}
        /\ pc = [r \in Requests |-> "idle"]
        /\ claims = [r \in Requests |-> NoClaims]
        /\ result = [r \in Requests |-> Pending]

\* Handle up to the call of EnsureProfile: the subject must be a UUID.
Receive(r, c) ==
    /\ pc[r] = "idle"
    /\ claims' = [claims EXCEPT ![r] = c]
    /\ IF c.sub = NotAUUID
         THEN Return(r, Err("ErrNotUUID"))
         ELSE Goto(r, "find") /\ UNCHANGED result
    /\ UNCHANGED profiles

\* FindByKeycloakID sees the identity's row: EnsureProfile returns it as it
\* is, before the claims are validated.
FindHit(r) ==
    /\ pc[r] = "find"
    /\ \E p \in RowsOf(claims[r].sub) : Return(r, Ok(p))
    /\ UNCHANGED <<profiles, claims>>

\* FindByKeycloakID sees no row: NewUserProfile validates, Insert follows.
FindMiss(r) ==
    /\ pc[r] = "find"
    /\ RowsOf(claims[r].sub) = {}
    /\ LET e == ValidationError(claims[r])
       IN  IF e # "none" THEN Return(r, Err(e))
                         ELSE Goto(r, "insert") /\ UNCHANGED result
    /\ UNCHANGED <<profiles, claims>>

\* The row is stored and its RETURNING clause answers.
Store(r) ==
    /\ profiles' = profiles \cup {FreshRow(r)}
    /\ Return(r, Ok(FreshRow(r)))

\* Mutant: the loser hands back the profile it meant to insert.
ProbeArbiter_NoReselect(r) ==
    /\ pc[r] = "insert"
    /\ IF RowsOf(claims[r].sub) # {} THEN Return(r, Ok(FreshRow(r)))
                                     ELSE Goto(r, "write") /\ UNCHANGED result
    /\ UNCHANGED <<profiles, claims>>

\* The INSERT, first half: Postgres probes the arbiter index of ON CONFLICT. A
\* row there makes the statement a no-op.
ProbeArbiter(r) ==
    /\ pc[r] = "insert"
    /\ Goto(r, IF RowsOf(claims[r].sub) # {} THEN "reselect" ELSE "write")
    /\ UNCHANGED <<profiles, claims, result>>

\* Mutant: a username conflict is taken for "found".
WriteIndexes_TakenIsFound(r) ==
    /\ pc[r] = "write"
    /\ UNCHANGED claims
    /\ \/ /\ \E p \in profiles : p.username = claims[r].username /\ Return(r, Ok(p))
          /\ UNCHANGED profiles
       \/ ~UsernameInUse(claims[r].username) /\ RowsOf(claims[r].sub) = {} /\ Store(r)

\* Mutant: keycloak_id without its UNIQUE.
WriteIndexes_NoRecheck(r) ==
    /\ pc[r] = "write"
    /\ UNCHANGED claims
    /\ IF UsernameInUse(claims[r].username)
         THEN Return(r, Err("ErrUsernameTaken")) /\ UNCHANGED profiles
         ELSE Store(r)

\* Mutant: DO UPDATE instead of DO NOTHING.
WriteIndexes_Upsert(r) ==
    /\ pc[r] = "write"
    /\ profiles' = (profiles \ RowsOf(claims[r].sub)) \cup {FreshRow(r)}
    /\ Return(r, Ok(FreshRow(r)))
    /\ UNCHANGED claims

\* Second half: enter the row in the indexes. The username index is not the
\* arbiter, so a duplicate there raises 23505 whichever identity holds it; a
\* duplicate in the arbiter alone sends the statement back to its probe.
WriteIndexes(r) ==
    /\ pc[r] = "write"
    /\ \/ /\ UsernameInUse(claims[r].username)
          /\ Return(r, Err("ErrUsernameTaken"))
          /\ UNCHANGED profiles
       \/ /\ ~UsernameInUse(claims[r].username)
          /\ RowsOf(claims[r].sub) # {}
          /\ Goto(r, "insert")
          /\ UNCHANGED <<profiles, result>>
       \/ /\ ~UsernameInUse(claims[r].username)
          /\ RowsOf(claims[r].sub) = {}
          /\ Store(r)
    /\ UNCHANGED claims

\* The INSERT commits and the connection breaks before its reply is read.
InsertReplyLost(r) ==
    /\ pc[r] = "write"
    /\ RowsOf(claims[r].sub) = {}
    /\ ~UsernameInUse(claims[r].username)
    /\ profiles' = profiles \cup {FreshRow(r)}
    /\ Return(r, Err("internal"))
    /\ UNCHANGED claims

\* The INSERT was a no-op: hand back the row it conflicted with, if it is
\* still there.
Reselect(r) ==
    /\ pc[r] = "reselect"
    /\ \/ \E p \in RowsOf(claims[r].sub) : Return(r, Ok(p))
       \/ RowsOf(claims[r].sub) = {} /\ Return(r, Err("internal"))
    /\ UNCHANGED <<profiles, claims>>

\* A statement fails without effect: any error but a username conflict.
StatementFails(r) ==
    /\ pc[r] \in Waiting
    /\ Return(r, Err("internal"))
    /\ UNCHANGED <<profiles, claims>>

\* Handle writes the response. Which status stands for which result is
\* SignIn's StatusOf: here nobody reads it.
Respond(r) ==
    /\ pc[r] = "respond"
    /\ Goto(r, "answered")
    /\ UNCHANGED <<profiles, claims, result>>

HandlerStep(r) ==
    \/ FindHit(r) \/ FindMiss(r)
    \/ ProbeArbiter(r) \/ WriteIndexes(r) \/ InsertReplyLost(r)
    \/ Reselect(r) \/ StatementFails(r)
    \/ Respond(r)

-----------------------------------------------------------------------------
(* The environment.                                                         *)

\* The process dies: every handler in flight is gone, the table stays.
Crash ==
    /\ \E r \in Requests : pc[r] \in InFlight
    /\ pc' = [r \in Requests |-> IF pc[r] \in InFlight THEN "dropped" ELSE pc[r]]
    /\ UNCHANGED <<profiles, claims, result>>

\* The user edits the profile outside of sync (bio, avatar).
Edited(p, bio, picture) == [p EXCEPT !.bio = bio, !.avatarUrl = picture]

CustomizeProfile(p, bio, picture) ==
    /\ p \in profiles
    /\ Edited(p, bio, picture) # p
    /\ profiles' = (profiles \ {p}) \cup {Edited(p, bio, picture)}
    /\ UNCHANGED <<pc, claims, result>>

\* A row is removed outside of sync.
DeleteProfile(p) ==
    /\ p \in profiles
    /\ profiles' = profiles \ {p}
    /\ UNCHANGED <<pc, claims, result>>

Environment ==
    \/ Crash
    \/ \E p \in profiles : \/ DeleteProfile(p)
                           \/ \E b \in Bios, a \in Pictures : CustomizeProfile(p, b, a)

-----------------------------------------------------------------------------
Next == \/ \E r \in Requests : \/ \E c \in TokenClaims : Receive(r, c)
                               \/ HandlerStep(r)
        \/ Environment

Spec == Init /\ [][Next]_vars

\* A goroutine that can run does. Nothing makes Postgres answer a statement (the
\* handler's context has no deadline and pgx sets none), so nothing is assumed of
\* the requests in Unanswered.
FairSpec == Spec /\ \A r \in Requests \ Unanswered : WF_vars(HandlerStep(r))

-----------------------------------------------------------------------------
TypeOK ==
    /\ profiles \subseteq UserProfile
    /\ pc \in [Requests -> Places]
    /\ claims \in [Requests -> TokenClaims \cup {NoClaims}]
    /\ result \in [Requests -> Result]

(* Safety.                                                                  *)

Returned(r) == pc[r] \in {"respond", "answered"}
ReturnedOk(r) == Returned(r) /\ result[r].err = "none"

\* No two rows share an identity or a username, however many first logins
\* race (the two UNIQUE columns of 000001_identity_schema.up.sql, on which the
\* check-then-act of EnsureProfile relies).
UniqueKeys ==
    \A p, q \in profiles :
        (p.keycloakId = q.keycloakId \/ p.username = q.username) => p = q

\* Only rows NewUserProfile would accept are ever stored: no zero identity and
\* no empty username, though the columns admit both.
ValidRows == \A p \in profiles : p.keycloakId \in Identities /\ p.username \in Usernames

\* A 200 carries the profile of the identity the token names, never that of
\* another one (the reason Insert does not treat a username conflict as
\* "found").
OkIsOwnProfile ==
    \A r \in Requests :
        ReturnedOk(r) => result[r].profile.keycloakId = claims[r].sub

\* All 200s an identity ever gets name one row, unless that row was deleted in
\* between: the losing call of a race returns the winner's profile.
OneProfilePerIdentity ==
    \A r, s \in Requests :
        LET p == result[r].profile
            q == result[s].profile
            live == {x.id : x \in profiles}
        IN  /\ ReturnedOk(r) /\ ReturnedOk(s)
            /\ claims[r].sub = claims[s].sub
            /\ {p.id, q.id} \subseteq live
            => p.id = q.id

\* A handler never changes or removes a row, and adds one only for its own
\* identity when that identity has none (sync only ever creates).
SyncOnlyCreates ==
    [][\A r \in Requests : pc[r] \in Waiting /\ pc'[r] \in Waiting \cup {"respond"}
                              /\ pc'[r] # pc[r]
         => /\ profiles \subseteq profiles'
            /\ \A p \in profiles' \ profiles :
                  p.keycloakId = claims[r].sub /\ RowsOf(claims[r].sub) = {}]_vars

\* What a handler returns with a 200 is a row of the table as it stands at that
\* step, never a row that was not stored or one that is already gone.
ReturnsStoredRow ==
    [][\A r \in Requests : ~Returned(r) /\ ReturnedOk(r)'
         => result'[r].profile \in profiles']_vars

(* The abstract specification.                                              *)

PhaseOf(place) == IF place = "idle" THEN "new"
                  ELSE IF place = "find" THEN "open"
                  ELSE IF place \in Waiting THEN "creating"
                  ELSE IF place = "respond" THEN "decided"
                  ELSE IF place = "answered" THEN "answered"
                  ELSE "lost"

RefusedClaims(c) == IF c.sub = NotAUUID THEN "ErrNotUUID" ELSE "none"

EditsOf(p) == {Edited(p, b, a) : b \in Bios, a \in Pictures}

Registry == INSTANCE ProfileRegistry
              WITH Claims  <- TokenClaims,
                   Refused <- RefusedClaims,
                   Invalid <- ValidationError,
                   Fresh   <- FreshFrom,
                   Edits   <- EditsOf,
                   phase   <- [r \in Requests |-> PhaseOf(pc[r])]

\* Check-then-act over two or three statements looks to every caller like one
\* atomic "return my profile, or create it" (the doc comments of SyncService,
\* ProfileRepository and Insert); and a name is only refused to an identity that
\* had no profile at an earlier moment of the same call, so that one which has its
\* profile all along is never told that the name belongs to somebody else.
ImplementsRegistry == Registry!Spec

(* What the source says and the code does not do.                           *)

\* ErrUsernameTaken is for a username another identity holds: an identity that
\* has its profile is never refused with it (ProfileRepository.Insert's
\* contract).
NoFalseConflict ==
    [][\A r \in Requests : ~Returned(r) /\ Returned(r)'
                              /\ result'[r].err = "ErrUsernameTaken"
         => /\ RowsOf(claims[r].sub) = {}
            /\ \E p \in profiles : /\ p.username = claims[r].username
                                   /\ p.keycloakId # claims[r].sub]_vars
=============================================================================
