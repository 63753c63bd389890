--------------------------- MODULE StartupProofs ----------------------------
(***************************************************************************)
(* Proofs about Startup: what a process finds when it starts, after any     *)
(* number of starts, deaths, repairs and `down`s.                           *)
(***************************************************************************)
EXTENDS Startup, TLAPS

\* What the volume holds: a clean version 1 is the table; the version is marked
\* dirty while a migration is under way, and its table is there once applied.
SchemaSound ==
    /\ ~schema.dirty => (schema.version = 1 <=> schema.table)
    /\ stage["migrate"] = "marked" => schema.dirty /\ ~schema.table
    /\ stage["migrate"] = "applied" => schema.dirty /\ schema.table
    /\ stage["migrate"] = "done" => schema.table /\ ~schema.dirty

\* While nothing has gone wrong, nobody who needs a store lacks it and only a
\* migration under way is dirty.
Untroubled ==
    ~trouble =>
        /\ schema.dirty => stage["migrate"] \in {"marked", "applied"}
        /\ stage["migrate"] = "connecting" => Healthy("postgres")
        /\ stage["migrate"] \in {"marked", "applied"} => stage["postgres"] = "healthy"
        /\ \A a \in Apis : stage[a] = "booting" => stage["keycloak"] = "healthy"

Inv == TypeOK /\ SchemaSound /\ Untroubled /\ RunsOnItsSchema /\ NoStartupRace

-----------------------------------------------------------------------------
(* The kinds of step.                                                       *)

\* What is built with Schema is a volume, and what a volume holds has its type.
LEMMA Volume ==
    /\ EmptyVolume \in Volumes
    /\ \A version \in {0, 1}, dirty, table \in BOOLEAN : Schema(version, dirty, table) \in Volumes
    /\ \A v \in Volumes : v.version \in {0, 1} /\ v.dirty \in BOOLEAN /\ v.table \in BOOLEAN
BY DEF EmptyVolume, Schema, Volumes

\* The services are five, and what a stage is depends on which.
LEMMA Stage ==
    ASSUME TypeOK
    PROVE  /\ stage \in [Services -> UNION {Stages[s] : s \in Services}]
           /\ schema.version \in {0, 1} /\ schema.dirty \in BOOLEAN /\ schema.table \in BOOLEAN
           /\ trouble \in BOOLEAN
           /\ stage["postgres"] \in {"off", "waiting", "starting", "unhealthy", "early",
                                     "healthy", "dead"}
           /\ stage["keycloak"] \in {"off", "waiting", "starting", "unhealthy", "healthy",
                                     "dead"}
           /\ stage["migrate"] \in {"off", "waiting", "connecting", "marked", "applied", "done", "dead"}
           /\ \A a \in Apis : stage[a] \in {"off", "waiting", "booting", "keyed", "serving", "dead"}
<1>1. \A s \in Services : stage[s] \in Stages[s]
  BY DEF TypeOK
<1> QED BY <1>1, Volume DEF TypeOK, Stages, Services, Stores, Apis

\* A service that goes to a stage of its own leaves the others where they are.
LEMMA GotoType ==
    ASSUME TypeOK, NEW s \in Services, NEW place \in Stages[s], Goto(s, place)
    PROVE  /\ stage'[s] = place
           /\ \A r \in Services \ {s} : stage'[r] = stage[r]
           /\ stage' \in [Services -> UNION {Stages[r] : r \in Services}]
           /\ \A r \in Services : stage'[r] \in Stages[r]
BY DEF TypeOK, Goto

\* A stack that was never started.
LEMMA InitInv == Init => Inv
<1> SUFFICES ASSUME Init PROVE Inv
    OBVIOUS
<1>1. \A s \in Services : stage[s] = "off" /\ "off" \in Stages[s]
  BY DEF Init, Stages
<1>2. TypeOK
  BY <1>1, Volume DEF Init, TypeOK
<1>3. SchemaSound /\ Untroubled
  BY <1>1 DEF Init, SchemaSound, Untroubled, EmptyVolume, Schema, Services, Stores, Apis
<1>4. RunsOnItsSchema /\ NoStartupRace
  BY <1>1 DEF Init, RunsOnItsSchema, NoStartupRace, Running, UnderWay, Services
<1> QED BY <1>2, <1>3, <1>4 DEF Inv

\* A step of one service that at most notes a trouble: it gives up only for a
\* variable it lacks, its new stage fits the schema, and what the others rely on
\* stays. What it has to show are the facts about its own new stage.
LEMMA GotoInv ==
    ASSUME Inv, NEW s \in Services, NEW place \in Stages[s], Goto(s, place),
           schema' \in Volumes,
           UNCHANGED missing, trouble => trouble', trouble' \in BOOLEAN,
           SchemaSound', Untroubled',
           s \in Apis /\ place \in Running => schema'.table /\ ~schema'.dirty,
           (\E a \in Apis : stage[a] \in Running)
             => UNCHANGED <<schema.table, schema.dirty>>,
           place = "dead" => trouble' \/ (s \in Apis /\ missing[s] # "nothing")
    PROVE  Inv'
<1> USE GotoType DEF Inv
<1>1. TypeOK'
  BY DEF TypeOK
<1>2. RunsOnItsSchema'
  BY DEF RunsOnItsSchema, Services
<1>3. NoStartupRace'
  BY DEF NoStartupRace
<1> QED BY <1>1, <1>2, <1>3

-----------------------------------------------------------------------------
(* Each action.                                                             *)

\* A service is only launched once what it depends on is there.
LEMMA LaunchInv ==
    ASSUME Inv, NEW s \in Services, Launch(s)
    PROVE  Inv'
<1> USE Stage, GotoType DEF Inv
<1>1. CASE Met(s) /\ Goto(s, Entry(s))
  <2>1. Entry(s) \in Stages[s] /\ Entry(s) \in {"starting", "connecting", "booting"}
    BY DEF Entry, Stages, Services, Stores, Apis
  <2>2. /\ s = "migrate" => Healthy("postgres") /\ Entry(s) = "connecting"
        /\ s \in Apis => /\ stage["migrate"] = "done" /\ stage["keycloak"] = "healthy"
                         /\ Entry(s) = "booting"
        /\ s \in Stores => Entry(s) = "starting"
    BY <1>1 DEF Met, Healthy, Entry, Services, Stores, Apis
  <2>3. SchemaSound' /\ Untroubled'
    BY <1>1, <2>1, <2>2 DEF Launch, SchemaSound, Untroubled, Healthy, Services, Stores, Apis
  <2>4. s \in Apis => schema.table /\ ~schema.dirty
    BY <2>2 DEF SchemaSound
  <2> QED BY <1>1, <2>1, <2>3, <2>4, GotoInv DEF Launch, TypeOK
<1>2. CASE Hopeless(s) /\ Goto(s, "off")
  <2>1. "off" \in Stages[s] /\ "off" \notin Running /\ s \notin Stores
    BY <1>2 DEF Stages, Running, UnderWay, Hopeless, Stores, Apis
  <2>2. SchemaSound' /\ Untroubled'
    BY <1>2, <2>1 DEF Launch, SchemaSound, Untroubled, Healthy, Services, Stores, Apis
  <2> QED BY <1>2, <2>1, <2>2, GotoInv DEF Launch, TypeOK
<1> QED BY <1>1, <1>2 DEF Launch

\* A postgres that has run on a volume leaves what it holds.
LEMMA VolumeSetUp ==
    ASSUME TypeOK, VolumeIsSetUp
    PROVE  schema' \in Volumes /\ UNCHANGED <<schema.version, schema.dirty, schema.table>>
<1>1. schema' \in Volumes
  BY Volume, Stage DEF VolumeIsSetUp
<1> QED BY <1>1 DEF VolumeIsSetUp, Schema

\* A dependency becomes healthy, or is only called so.
LEMMA BecomeHealthyInv ==
    ASSUME Inv, NEW s \in Services, BecomeHealthy(s)
    PROVE  Inv'
<1> USE Stage, GotoType DEF Inv
<1>1. s \in Stores /\ s \notin Apis /\ s # "migrate"
  BY DEF BecomeHealthy, Stores, Apis
<1>2. PICK place \in {"healthy", "early"} : Goto(s, place) /\ (place = "early" => s = "postgres")
  BY DEF BecomeHealthy
<1>3. place \in Stages[s]
  BY <1>1, <1>2 DEF Stages, Stores
<1>4. /\ schema' \in Volumes
      /\ UNCHANGED <<schema.version, schema.dirty, schema.table, missing, trouble>>
  BY VolumeSetUp DEF BecomeHealthy, TypeOK
<1>5. stage'["postgres"] = "healthy" \/ stage'["postgres"] = stage["postgres"] \/ s = "postgres"
  BY <1>1, <1>2, <1>3 DEF Services, Stores
<1>6. SchemaSound'
  BY <1>1, <1>2, <1>3, <1>4 DEF SchemaSound, Services, Stores
<1>7. Untroubled'
  BY <1>1, <1>2, <1>3, <1>4 DEF BecomeHealthy, Untroubled, Healthy, Services, Stores, Apis
<1> QED BY <1>1, <1>2, <1>3, <1>4, <1>6, <1>7, GotoInv DEF TypeOK

\* The postgres of a first start comes to listen.
LEMMA OpenTcpInv ==
    ASSUME Inv, OpenTcp
    PROVE  Inv'
<1> USE Stage, GotoType DEF Inv
<1> DEFINE P == "postgres"
<1>1. P \in Services /\ P \notin Apis /\ "healthy" \in Stages[P] /\ Goto(P, "healthy")
  BY DEF OpenTcp, Services, Stages, Stores, Apis
<1>2. schema' \in Volumes /\ UNCHANGED <<schema.version, schema.dirty, schema.table, missing, trouble>>
  BY VolumeSetUp DEF OpenTcp
<1>3. SchemaSound' /\ Untroubled'
  BY <1>1, <1>2 DEF SchemaSound, Untroubled, Healthy, Services, Stores, Apis
<1> QED BY <1>1, <1>2, <1>3, GotoInv DEF TypeOK

\* A store that is called unhealthy excuses whoever waits for it.
LEMMA RunOutOfRetriesInv ==
    ASSUME Inv, NEW s \in Services, RunOutOfRetries(s)
    PROVE  Inv'
<1> USE Stage, GotoType DEF Inv
<1>1. s \in Stores /\ s \notin Apis /\ "unhealthy" \in Stages[s] /\ Goto(s, "unhealthy")
  BY DEF RunOutOfRetries, Stages, Stores, Apis
<1>2. SchemaSound' /\ Untroubled'
  BY <1>1 DEF RunOutOfRetries, SchemaSound, Untroubled, Services, Stores, Apis
<1> QED BY <1>1, <1>2, GotoInv DEF RunOutOfRetries, TypeOK

\* migrate reads the version: whoever runs on the schema need not fear it.
LEMMA ReadVersionInv ==
    ASSUME Inv, ReadVersion
    PROVE  Inv'
<1> USE Stage, GotoType DEF Inv
<1> DEFINE M == "migrate"
<1>0. /\ M \in Services /\ M \notin Apis /\ {"marked", "done", "dead"} \subseteq Stages[M]
      /\ stage[M] = "connecting"
      /\ UNCHANGED missing /\ trouble' = (trouble \/ stage["postgres"] = "early")
  BY DEF Services, Apis, Stages, Stores, ReadVersion, TooEarly
<1>01. trouble' \in BOOLEAN /\ (trouble => trouble')
  BY <1>0
<1>1. CASE (stage["postgres"] # "healthy" \/ schema.dirty) /\ Fails(M) /\ UNCHANGED schema
  <2>1. trouble'
    BY <1>0, <1>1 DEF Untroubled, Healthy
  <2>2. SchemaSound' /\ Untroubled'
    BY <1>0, <1>1, <2>1 DEF Fails, SchemaSound, Untroubled
  <2> QED BY <1>0, <1>01, <1>1, <2>1, <2>2, GotoInv DEF Fails, TypeOK
<1>2. CASE ~schema.dirty /\ schema.version = 1 /\ Goto(M, "done") /\ UNCHANGED schema
  <2>1. SchemaSound' /\ Untroubled'
    BY <1>0, <1>2 DEF SchemaSound, Untroubled, Services, Stores, Apis
  <2> QED BY <1>0, <1>2, <2>1, GotoInv DEF ReadVersion, TypeOK
<1>3. CASE /\ stage["postgres"] = "healthy" /\ ~schema.dirty /\ schema.version # 1
           /\ Goto(M, "marked") /\ schema' = Schema(1, TRUE, schema.table)
  <2>1. ~schema.table
    BY <1>3 DEF SchemaSound
  <2>2. \A a \in Apis : stage[a] \notin Running
    BY <2>1 DEF RunsOnItsSchema
  <2>3. schema' \in Volumes
    BY <1>3, Volume, Stage
  <2>4. SchemaSound' /\ Untroubled'
    BY <1>0, <1>3, <2>1 DEF ReadVersion, SchemaSound, Untroubled, Services, Stores, Apis, Schema
  <2> QED BY <1>0, <1>3, <2>2, <2>3, <2>4, GotoInv DEF ReadVersion
<1> QED BY <1>1, <1>2, <1>3 DEF ReadVersion

\* The table is there while the mark is still dirty.
LEMMA ApplyUpInv ==
    ASSUME Inv, ApplyUp
    PROVE  Inv'
<1> USE Stage, GotoType DEF Inv
<1> DEFINE M == "migrate"
<1>0. /\ M \in Services /\ M \notin Apis /\ {"applied", "dead"} \subseteq Stages[M]
      /\ stage[M] = "marked"
  BY DEF Services, Apis, Stages, Stores, ApplyUp
<1>1. schema.dirty /\ ~schema.table /\ \A a \in Apis : stage[a] \notin Running
  BY <1>0 DEF SchemaSound, RunsOnItsSchema
<1>2. CASE stage["postgres"] # "healthy" /\ Fails(M) /\ UNCHANGED schema
  <2>1. trouble
    BY <1>0, <1>2 DEF Untroubled
  <2>2. SchemaSound' /\ Untroubled'
    BY <1>0, <1>2, <2>1 DEF ApplyUp, Fails, SchemaSound, Untroubled, Services
  <2> QED BY <1>0, <1>2, <2>1, <2>2, GotoInv DEF Fails, ApplyUp, TypeOK
<1>3. CASE stage["postgres"] = "healthy" /\ Goto(M, "applied") /\ schema' = Schema(1, TRUE, TRUE)
  <2>1. schema' \in Volumes
    BY <1>3, Volume
  <2>2. SchemaSound' /\ Untroubled'
    BY <1>0, <1>3 DEF ApplyUp, SchemaSound, Untroubled, Services, Stores, Apis, Schema
  <2> QED BY <1>0, <1>1, <1>3, <2>1, <2>2, GotoInv DEF ApplyUp
<1> QED BY <1>1, <1>2, <1>3 DEF ApplyUp

\* The one step that lets migrate succeed finds the table there.
LEMMA ClearMarkInv ==
    ASSUME Inv, ClearMark
    PROVE  Inv'
<1> USE Stage, GotoType DEF Inv
<1> DEFINE M == "migrate"
<1>0. /\ M \in Services /\ M \notin Apis /\ {"done", "dead"} \subseteq Stages[M]
      /\ stage[M] = "applied"
  BY DEF Services, Apis, Stages, Stores, ClearMark
<1>1. schema.dirty /\ schema.table /\ \A a \in Apis : stage[a] \notin Running
  BY <1>0 DEF SchemaSound, RunsOnItsSchema
<1>2. CASE stage["postgres"] # "healthy" /\ Fails(M) /\ UNCHANGED schema
  <2>1. trouble
    BY <1>0, <1>2 DEF Untroubled
  <2>2. SchemaSound' /\ Untroubled'
    BY <1>0, <1>2, <2>1 DEF ClearMark, Fails, SchemaSound, Untroubled, Services
  <2> QED BY <1>0, <1>2, <2>1, <2>2, GotoInv DEF Fails, ClearMark, TypeOK
<1>3. CASE stage["postgres"] = "healthy" /\ Goto(M, "done") /\ schema' = Schema(1, FALSE, TRUE)
  <2>1. schema' \in Volumes
    BY <1>3, Volume
  <2>2. SchemaSound' /\ Untroubled'
    BY <1>0, <1>3 DEF ClearMark, SchemaSound, Untroubled, Services, Stores, Apis, Schema
  <2> QED BY <1>0, <1>1, <1>3, <2>1, <2>2, GotoInv DEF ClearMark
<1> QED BY <1>1, <1>2, <1>3 DEF ClearMark

\* The first fetch fails only with Keycloak gone or a variable missing.
LEMMA FetchKeysInv ==
    ASSUME Inv, NEW a \in Apis, FetchKeys(a)
    PROVE  Inv'
<1> USE Stage, GotoType DEF Inv
<1>0. /\ a \in Services /\ a \notin Stores /\ a # "migrate"
      /\ {"keyed", "dead"} \subseteq Stages[a] /\ stage[a] = "booting"
  BY DEF Services, Apis, Stages, Stores, FetchKeys
<1>1. /\ SchemaSound' /\ Untroubled'
      /\ schema.table /\ ~schema.dirty
  <2>1. stage'[a] # "booting" /\ UNCHANGED <<schema, trouble>>
    BY <1>0 DEF FetchKeys, Fails
  <2>2. \A s \in Services \ {a} : stage'[s] = stage[s]
    BY <1>0 DEF FetchKeys, Fails
  <2> QED BY <1>0, <2>1, <2>2 DEF SchemaSound, Untroubled, Healthy, RunsOnItsSchema, Running, UnderWay,
                                  Services, Stores, Apis
<1>2. CASE (missing[a] \in ReadEarly(a) \/ stage["keycloak"] # "healthy") /\ Fails(a)
  <2>1. trouble \/ missing[a] # "nothing"
    BY <1>0, <1>2 DEF Untroubled, ReadEarly
  <2> QED BY <1>0, <1>1, <1>2, <2>1, GotoInv DEF Fails, FetchKeys, TypeOK
<1>3. CASE Goto(a, "keyed")
  BY <1>0, <1>1, <1>3, GotoInv DEF FetchKeys, TypeOK
<1> QED BY <1>2, <1>3 DEF FetchKeys

\* An API that has its keys listens, or misses a variable.
LEMMA ListenInv ==
    ASSUME Inv, NEW a \in Apis, Listen(a)
    PROVE  Inv'
<1> USE Stage, GotoType DEF Inv
<1>0. /\ a \in Services /\ a \notin Stores /\ a # "migrate"
      /\ {"serving", "dead"} \subseteq Stages[a] /\ stage[a] = "keyed"
  BY DEF Services, Apis, Stages, Stores, Listen
<1>1. /\ SchemaSound' /\ Untroubled'
      /\ schema.table /\ ~schema.dirty
  <2>1. stage'[a] # "booting" /\ UNCHANGED <<schema, trouble>>
    BY <1>0 DEF Listen, Fails
  <2>2. \A s \in Services \ {a} : stage'[s] = stage[s]
    BY <1>0 DEF Listen, Fails
  <2> QED BY <1>0, <2>1, <2>2 DEF SchemaSound, Untroubled, Healthy, RunsOnItsSchema, Running, UnderWay,
                                  Services, Stores, Apis
<1>2. CASE missing[a] \in {"KEYCLOAK_ISSUER", "KEYCLOAK_ALLOWED_AZP"} /\ Fails(a)
  BY <1>0, <1>1, <1>2, GotoInv DEF Fails, Listen, TypeOK
<1>3. CASE Goto(a, "serving")
  BY <1>0, <1>1, <1>3, GotoInv DEF Listen, TypeOK
<1> QED BY <1>2, <1>3 DEF Listen

-----------------------------------------------------------------------------
(* Failures and the operator.                                               *)

\* A death is an excuse for every later failure.
LEMMA DieInv ==
    ASSUME Inv, NEW s \in Services, Die(s)
    PROVE  Inv'
<1> USE Stage, GotoType DEF Inv
<1>1. Goto(s, "dead") /\ "dead" \in Stages[s] /\ "dead" \notin Running
  BY DEF Die, Fails, Stages, Running, UnderWay
<1>2. TypeOK'
  BY <1>1 DEF Die, TypeOK
<1>3. SchemaSound' /\ Untroubled' /\ NoStartupRace'
  BY <1>1 DEF Die, SchemaSound, Untroubled, NoStartupRace, Services
<1>4. RunsOnItsSchema'
  BY <1>1 DEF Die, RunsOnItsSchema, Services
<1> QED BY <1>2, <1>3, <1>4

\* `up` finds no migration under way, or takes note of it.
LEMMA UpInv ==
    ASSUME Inv, Up
    PROVE  Inv'
<1> USE DEF Inv
<1>1. \A s \in Services : stage'[s] = IF stage[s] \in Running THEN stage[s] ELSE "waiting"
  BY DEF Up
<1>2. \A s \in Services : "waiting" \in Stages[s]
  BY DEF Stages
<1>3. TypeOK'
  <2>1. \A s \in Services : stage'[s] \in Stages[s]
    BY <1>1, <1>2 DEF TypeOK
  <2>2. stage' \in [Services -> UNION {Stages[s] : s \in Services}]
    BY <2>1 DEF Up
  <2> QED BY <2>1, <2>2 DEF Up, TypeOK
<1>4. "waiting" \notin Running /\ "dead" \notin Running /\ UnderWay \subseteq Running /\ "done" \notin Running
  BY DEF Running, UnderWay
<1>5. SchemaSound'
  BY <1>1, <1>4 DEF Up, SchemaSound, Services
<1>6. Untroubled'
  BY <1>1, <1>4 DEF Up, Untroubled, UnderWay, Services, Stores, Apis
<1>7. RunsOnItsSchema' /\ NoStartupRace'
  BY <1>1, <1>4 DEF Up, RunsOnItsSchema, NoStartupRace, Services
<1> QED BY <1>3, <1>5, <1>6, <1>7

\* Everything is taken down, with or without the volume that holds the schema.
LEMMA DownInv ==
    ASSUME Inv, Down
    PROVE  Inv'
<1> USE DEF Inv
<1>1. \A s \in Services : stage'[s] = "off" /\ "off" \in Stages[s]
  BY DEF Down, Stages
<1>2. TypeOK'
  <2>1. stage' \in [Services -> UNION {Stages[s] : s \in Services}]
    BY <1>1 DEF Down
  <2>2. schema' \in Volumes
    <3>1. EmptyVolume \in Volumes
      BY Volume
    <3>2. schema' = schema \/ schema' = EmptyVolume
      BY DEF Down
    <3> QED BY <3>1, <3>2 DEF TypeOK
  <2> QED BY <1>1, <2>1, <2>2 DEF Down, TypeOK
<1>3. SchemaSound' /\ Untroubled'
  BY <1>1 DEF Down, SchemaSound, Untroubled, EmptyVolume, Schema, Services
<1>4. RunsOnItsSchema' /\ NoStartupRace'
  BY <1>1 DEF Down, RunsOnItsSchema, NoStartupRace, Running, UnderWay, Services
<1> QED BY <1>2, <1>3, <1>4

\* Nobody runs on a schema that needs a repair.
LEMMA RepairInv ==
    ASSUME Inv, Repair
    PROVE  Inv'
<1> USE Stage DEF Inv
<1>1. TypeOK'
  <2>1. schema' \in Volumes
    BY Volume DEF Repair
  <2> QED BY <2>1 DEF Repair, TypeOK
<1>2. SchemaSound' /\ Untroubled'
  BY DEF Repair, SchemaSound, Untroubled, Schema, UnderWay, TypeOK
<1>3. RunsOnItsSchema' /\ NoStartupRace'
  BY DEF Repair, RunsOnItsSchema, NoStartupRace
<1> QED BY <1>1, <1>2, <1>3

\* Every step keeps the invariant.
LEMMA NextInv == Inv /\ [Next]_vars => Inv'
<1> SUFFICES ASSUME Inv, [Next]_vars PROVE Inv'
    OBVIOUS
<1>1. CASE UNCHANGED vars
  BY <1>1 DEF vars, Inv, TypeOK, SchemaSound, Untroubled, Healthy, RunsOnItsSchema, NoStartupRace
<1>2. CASE Up \/ Down \/ Repair
  BY <1>2, UpInv, DownInv, RepairInv
<1>3. ASSUME NEW s \in Services, Step(s) PROVE Inv'
  BY <1>3, LaunchInv, BecomeHealthyInv, ReadVersionInv, ApplyUpInv, ClearMarkInv,
     FetchKeysInv, ListenInv, OpenTcpInv DEF Step
<1>4. ASSUME NEW s \in Services, RunOutOfRetries(s) \/ Die(s) PROVE Inv'
  BY <1>4, DieInv, RunOutOfRetriesInv
<1> QED BY <1>1, <1>2, <1>3, <1>4 DEF Next

-----------------------------------------------------------------------------
\* So it holds in every reachable state.
LEMMA AlwaysInv == Spec => []Inv
<1> QED BY InitInv, NextInv, PTL DEF Spec

\* Every reachable state of a stack is well typed.
THEOREM TypeCorrect == Spec => []TypeOK
<1>1. Inv => TypeOK
  BY DEF Inv
<1> QED BY <1>1, AlwaysInv, PTL

\* An API never runs without its table, or on a migration left half way.
THEOREM OnItsSchema == Spec => []RunsOnItsSchema
<1>1. Inv => RunsOnItsSchema
  BY DEF Inv
<1> QED BY <1>1, AlwaysInv, PTL

\* A process gives up only for a variable it lacks, or in a start that met a death, a
\* dirty schema or a health check that failed its purpose.
THEOREM StartupRaceFree == Spec => []NoStartupRace
<1>1. Inv => NoStartupRace
  BY DEF Inv
<1> QED BY <1>1, AlwaysInv, PTL
=============================================================================
