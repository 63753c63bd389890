------------------------------- MODULE Startup -------------------------------
(***************************************************************************)
(* `docker compose up` of the stack (deploy/docker-compose.yml): postgres   *)
(* and keycloak become healthy, the one-shot migrate applies the schema,    *)
(* then public-api and admin-api read their environment, fetch Keycloak's   *)
(* keys and listen. Any process may die, the operator may run `up` again,   *)
(* repair a dirty schema, and take the stack down with or without its data. *)
(* No service has a restart policy.                                         *)
(***************************************************************************)
CONSTANTS
    MissingVariables    \* which required variable an API may lack; "nothing"

Stores   == {"postgres", "keycloak"}
Apis     == {"public-api", "admin-api"}
Services == Stores \cup {"migrate"} \cup Apis

VARIABLES
    stage,      \* where each service's container stands
    schema,     \* the database's volume: initialised, migration applied, dirty,
                \* table there
    missing,    \* the variable each API lacks
    trouble     \* history: this start met a death, a dirty schema, a `down`, or a
                \* health check that used up its retries or passed too early

vars == <<stage, schema, missing, trouble>>

Stages == [s \in Services |->
             {"off", "waiting"} \cup
             IF s = "postgres" THEN {"starting", "unhealthy", "early", "healthy", "dead"}
             ELSE IF s = "keycloak" THEN {"starting", "unhealthy", "healthy", "dead"}
             ELSE IF s = "migrate" THEN {"connecting", "marked", "applied", "done", "dead"}
             ELSE {"booting", "keyed", "serving", "dead"}]

UnderWay == {"starting", "unhealthy", "connecting", "marked", "applied", "booting", "keyed"}
Running  == UnderWay \cup {"early", "healthy", "serving"}

\* What a volume can hold.
Volumes == [initialised : BOOLEAN, version : {0, 1}, dirty : BOOLEAN, table : BOOLEAN]

\* A volume that a postgres has run on.
Schema(version, dirty, table) ==
    [initialised |-> TRUE, version |-> version, dirty |-> dirty, table |-> table]

EmptyVolume == [initialised |-> FALSE, version |-> 0, dirty |-> FALSE, table |-> FALSE]

-----------------------------------------------------------------------------
(* Compose.                                                                 *)

\* What Compose takes for healthy: pg_isready asks the Unix socket, which a
\* postgres that initialises its volume answers before it accepts TCP ("early").
Healthy(s) == stage[s] \in {"early", "healthy"}

\* Mutant: the APIs wait for keycloak to be started only.
Met_KeycloakStarted(s) ==
    CASE s \in Stores   -> TRUE
      [] s = "migrate"  -> Healthy("postgres")
      [] s \in Apis     -> /\ Healthy("postgres")
                           /\ stage["migrate"] = "done"
                           /\ stage["keycloak"] \in {"starting", "healthy"}

\* The conditions under depends_on.
Met(s) ==
    CASE s \in Stores   -> TRUE
      [] s = "migrate"  -> Healthy("postgres")
      [] s \in Apis     -> /\ Healthy("postgres")
                           /\ stage["migrate"] = "done"
                           /\ Healthy("keycloak")

\* A condition that Compose gives up on.
Hopeless(s) ==
    \E d \in {"postgres"} \cup IF s \in Apis THEN {"migrate", "keycloak"} ELSE {} :
        s \notin Stores /\ stage[d] \in {"dead", "off", "unhealthy"}

Goto(s, place) == stage' = [stage EXCEPT ![s] = place]

Fails(s) == Goto(s, "dead")

Init == /\ stage = [s \in Services |-> "off"]
        /\ schema = EmptyVolume
        /\ missing \in [Apis -> MissingVariables]
        /\ trouble = FALSE

\* `up`, once the previous one has returned: what does not run is created again,
\* migrate too.
Up == /\ \A s \in Services : stage[s] # "waiting"
      /\ stage' = [s \in Services |-> IF stage[s] \in Running THEN stage[s] ELSE "waiting"]
      /\ stage' # stage
      /\ trouble' = (schema.dirty \/ \E s \in Services : stage[s] \in UnderWay)
      /\ UNCHANGED <<schema, missing>>

Entry(s) == IF s \in Stores THEN "starting"
            ELSE IF s = "migrate" THEN "connecting"
            ELSE "booting"

\* The container starts once, when its conditions hold, or never.
Launch(s) == /\ stage[s] = "waiting"
             /\ \/ Met(s) /\ Goto(s, Entry(s))
                \/ Hopeless(s) /\ Goto(s, "off")
             /\ UNCHANGED <<schema, missing, trouble>>

VolumeIsSetUp == schema' = Schema(schema.version, schema.dirty, schema.table)

\* A health check passes: keycloak has imported its realm and serves its keys;
\* postgres answers on its socket, which on a first start may be too early.
BecomeHealthy(s) == /\ s \in Stores
                    /\ stage[s] \in {"starting", "unhealthy"}
                    /\ \/ s = "keycloak" /\ Goto(s, "healthy") /\ UNCHANGED schema
                       \/ s = "postgres" /\ Goto(s, "healthy") /\ VolumeIsSetUp
                       \/ /\ s = "postgres" /\ ~schema.initialised
                          /\ Goto(s, "early")
                          /\ UNCHANGED schema
                    /\ UNCHANGED <<missing, trouble>>

\* A first start of postgres ends: the server that listens replaces the one that
\* set the volume up.
OpenTcp == /\ stage["postgres"] = "early"
           /\ Goto("postgres", "healthy")
           /\ VolumeIsSetUp
           /\ UNCHANGED <<missing, trouble>>

\* A store is slower than the retries of its health check. What depends on it is
\* not started; the checks go on.
RunOutOfRetries(s) == /\ s \in Stores
                      /\ stage[s] = "starting"
                      /\ Goto(s, "unhealthy")
                      /\ trouble' = TRUE
                      /\ UNCHANGED <<schema, missing>>

-----------------------------------------------------------------------------
(* migrate.                                                                 *)

\* migrate is refused by a postgres that Compose called healthy too early.
TooEarly == trouble' = (trouble \/ stage["postgres"] = "early")

\* Mutant: ErrNoChange is a failure like any other.
ReadVersion_NoChangeFails ==
    /\ stage["migrate"] = "connecting"
    /\ IF stage["postgres"] = "healthy" /\ ~schema.dirty /\ schema.version = 0
         THEN Goto("migrate", "marked") /\ schema' = Schema(1, TRUE, schema.table)
         ELSE Fails("migrate") /\ UNCHANGED schema
    /\ TooEarly
    /\ UNCHANGED missing

\* Mutant: a dirty schema passes for an up-to-date one.
ReadVersion_DirtyPasses ==
    /\ stage["migrate"] = "connecting"
    /\ IF stage["postgres"] # "healthy" THEN Fails("migrate") /\ UNCHANGED schema
       ELSE IF schema.version = 1 THEN Goto("migrate", "done") /\ UNCHANGED schema
       ELSE Goto("migrate", "marked") /\ schema' = Schema(1, TRUE, schema.table)
    /\ TooEarly
    /\ UNCHANGED missing

\* m.Up begins: a dirty schema is an error, an applied version is ErrNoChange,
\* which main lets pass; otherwise the version is marked dirty.
ReadVersion ==
    /\ stage["migrate"] = "connecting"
    /\ IF stage["postgres"] # "healthy" \/ schema.dirty
         THEN Fails("migrate") /\ UNCHANGED schema
       ELSE IF schema.version = 1 THEN Goto("migrate", "done") /\ UNCHANGED schema
       ELSE Goto("migrate", "marked") /\ schema' = Schema(1, TRUE, schema.table)
    /\ TooEarly
    /\ UNCHANGED missing

\* The statements of 000001_identity_schema.up.sql, as one transaction. The
\* table must not be there yet.
ApplyUp ==
    /\ stage["migrate"] = "marked"
    /\ IF stage["postgres"] # "healthy" \/ schema.table
         THEN Fails("migrate") /\ UNCHANGED schema
         ELSE Goto("migrate", "applied") /\ schema' = Schema(1, TRUE, TRUE)
    /\ UNCHANGED <<missing, trouble>>

\* Mutant: the version after the applied one is recorded.
ClearMark_NextVersion ==
    /\ stage["migrate"] = "applied"
    /\ Goto("migrate", "done")
    /\ schema' = Schema(2, FALSE, TRUE)
    /\ UNCHANGED <<missing, trouble>>

\* The mark is cleared and the process exits with success.
ClearMark ==
    /\ stage["migrate"] = "applied"
    /\ IF stage["postgres"] # "healthy"
         THEN Fails("migrate") /\ UNCHANGED schema
         ELSE Goto("migrate", "done") /\ schema' = Schema(1, FALSE, TRUE)
    /\ UNCHANGED <<missing, trouble>>

-----------------------------------------------------------------------------
(* main of an API.                                                          *)

\* What is read before the first key fetch. Only public-api has a pool; it
\* connects when a request needs it, not here.
ReadEarly(a) == {"KEYCLOAK_JWKS_URL"} \cup
                IF a = "public-api" THEN {"DATABASE_URL"} ELSE {}

\* The first fetch, on which main exits if it fails.
FetchKeys(a) ==
    /\ stage[a] = "booting"
    /\ IF missing[a] \in ReadEarly(a) \/ stage["keycloak"] # "healthy"
         THEN Fails(a)
         ELSE Goto(a, "keyed")
    /\ UNCHANGED <<schema, missing, trouble>>

\* The issuer and the allowed clients are read, then the port is opened.
Listen(a) ==
    /\ stage[a] = "keyed"
    /\ IF missing[a] \in {"KEYCLOAK_ISSUER", "KEYCLOAK_ALLOWED_AZP"}
         THEN Fails(a)
         ELSE Goto(a, "serving")
    /\ UNCHANGED <<schema, missing, trouble>>

-----------------------------------------------------------------------------
(* Failures and the operator.                                               *)

\* A process dies: killed, out of memory, its port taken, a reply lost.
Die(s) == /\ stage[s] \in Running
          /\ Fails(s)
          /\ trouble' = TRUE
          /\ UNCHANGED <<schema, missing>>

\* `migrate force` with the version that is really there.
Repair == /\ schema.dirty
          /\ stage["migrate"] \notin UnderWay
          /\ schema' = Schema(IF schema.table THEN 1 ELSE 0, FALSE, schema.table)
          /\ UNCHANGED <<stage, missing, trouble>>

\* `down`, with or without `-v`. The containers are gone.
Down == /\ \E s \in Services : stage[s] # "off"
        /\ stage' = [s \in Services |-> "off"]
        /\ schema' \in {schema, EmptyVolume}
        /\ trouble' = TRUE
        /\ UNCHANGED missing

Step(s) == \/ Launch(s) \/ BecomeHealthy(s)
           \/ s = "postgres" /\ OpenTcp
           \/ s = "migrate" /\ (ReadVersion \/ ApplyUp \/ ClearMark)
           \/ s \in Apis /\ (FetchKeys(s) \/ Listen(s))

Next == \/ Up \/ Down \/ Repair
        \/ \E s \in Services : Step(s) \/ RunOutOfRetries(s) \/ Die(s)

Spec == Init /\ [][Next]_vars

\* Compose launches what may be launched, a health check passes in the end (in
\* time or not), a postgres that sets its volume up gets to listen, and processes
\* run.
FairSpec == Spec /\ \A s \in Services : WF_vars(Step(s))

-----------------------------------------------------------------------------
TypeOK == /\ stage \in [Services -> UNION {Stages[s] : s \in Services}]
          /\ \A s \in Services : stage[s] \in Stages[s]
          /\ schema \in Volumes
          /\ missing \in [Apis -> MissingVariables]
          /\ trouble \in BOOLEAN

\* An API that runs, and so one that answers, has its table under it, and no
\* migration is or was left half way (what migrate is a dependency for).
RunsOnItsSchema ==
    \A a \in Apis : stage[a] \in Running => schema.table /\ ~schema.dirty

\* Nothing else in the order of the start makes it fail: a process only gives up
\* for a variable it lacks, a death, a dirty schema or a health check that failed
\* its purpose. Keycloak's closes the race the compose file tells of, `up` can be
\* repeated, and what a migration that died at any point left behind is fit for a
\* repair. Postgres's, on the first start of a volume, closes no such race.
NoStartupRace ==
    \A s \in Services :
        stage[s] = "dead" => trouble \/ (s \in Apis /\ missing[s] # "nothing")

\* Every API that is asked for, and is configured, comes to serve, unless
\* something dies meanwhile, the schema is dirty, the stack is taken down, a store
\* outlasts its retries or postgres is called healthy before it listens.
ComesUp ==
    \A a \in Apis :
        stage[a] = "waiting" /\ missing[a] = "nothing"
            ~> stage[a] = "serving" \/ trouble
=============================================================================
