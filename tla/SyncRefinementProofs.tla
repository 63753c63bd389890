------------------------ MODULE SyncRefinementProofs ------------------------
(***************************************************************************)
(* IdentitySync implements ProfileRegistry: check-then-act over several     *)
(* statements is linearizable.                                              *)
(* A handler that finds no row and has valid claims is about to create; its *)
(* decision is taken at the statement after which it only responds; its     *)
(* other statements change nothing the registry shows.                      *)
(***************************************************************************)
EXTENDS IdentitySyncProofs

phase == [r \in Requests |-> PhaseOf(pc[r])]

\* Where a waiting handler stands for the registry.
LEMMA WaitingPhase ==
    ASSUME NEW place \in Waiting
    PROVE  PhaseOf(place) = IF place = "find" THEN "open" ELSE "creating"
BY DEF PhaseOf, Waiting

\* A handler goes from one statement to another.
LEMMA GotoPhase ==
    ASSUME Inv, NEW r \in Requests, NEW place \in Waiting, pc[r] \in Waiting, Goto(r, place)
    PROVE  /\ phase' = [phase EXCEPT ![r] = PhaseOf(place)]
           /\ PhaseOf(place) = PhaseOf(pc[r]) => phase' = phase
<1>1. pc \in [Requests -> Places]
  BY DEF Inv, TypeOK
<1>2. pc'[r] = place /\ \A s \in Requests \ {r} : pc'[s] = pc[s]
  BY <1>1 DEF Goto
<1> QED BY <1>2 DEF phase

\* A return is a decision.
LEMMA ReturnPhase ==
    ASSUME Inv, NEW r \in Requests, NEW res, pc[r] \in Waiting \cup {"idle"}, Return(r, res)
    PROVE  /\ phase[r] = PhaseOf(pc[r])
           /\ phase' = [phase EXCEPT ![r] = "decided"]
<1>1. pc \in [Requests -> Places]
  BY DEF Inv, TypeOK
<1>2. ASSUME NEW s \in Requests, s # r PROVE PhaseOf(pc'[s]) = PhaseOf(pc[s])
  BY <1>1, <1>2 DEF Return, Goto
<1>3. pc'[r] = "respond"
  BY <1>1 DEF Return, Goto
<1>4. PhaseOf(pc'[r]) = "decided"
  BY <1>3 DEF PhaseOf, Waiting
<1> QED BY <1>2, <1>4 DEF phase

\* Before any request there is no call either.
LEMMA InitRefines == Init => Registry!Init
<1> SUFFICES ASSUME Init PROVE Registry!Init
    OBVIOUS
<1>1. [r \in Requests |-> PhaseOf(pc[r])] = [r \in Requests |-> "new"]
  BY DEF Init, PhaseOf, Waiting
<1> QED BY <1>1 DEF Init, Registry!Init, Registry!Err, Pending, Err

\* A decision that leaves the table alone, as a step of the registry.
LEMMA DecideRefines ==
    ASSUME Inv, NEW r \in Requests, NEW res, pc[r] \in Waiting, Return(r, res),
           UNCHANGED <<profiles, claims>>,
           \/ \E p \in RowsOf(claims[r].sub) : res = Ok(p)
           \/ /\ pc[r] = "find" /\ RowsOf(claims[r].sub) = {}
              /\ ValidationError(claims[r]) # "none"
              /\ res = Err(ValidationError(claims[r]))
           \/ /\ pc[r] # "find" /\ UsernameInUse(claims[r].username)
              /\ res = Err("ErrUsernameTaken")
           \/ res = Err("internal")
    PROVE  Registry!EnsureProfile(r)
<1>1. /\ phase[r] = IF pc[r] = "find" THEN "open" ELSE "creating"
      /\ phase' = [phase EXCEPT ![r] = "decided"]
  BY ReturnPhase, WaitingPhase
<1>2. Registry!Decide(r, res)
  BY <1>1 DEF Registry!Decide, Registry!Enter, phase, Return
<1>3. Registry!Return(r) \/ Registry!Reject(r) \/ Registry!Fail(r)
  BY <1>1, <1>2 DEF Registry!Return, Registry!Reject, Registry!Fail, Registry!Mine,
              Registry!Taken, Registry!Ok, Registry!Err, Ok, Err, RowsOf, UsernameInUse, phase
<1> QED BY <1>1, <1>3 DEF Registry!EnsureProfile, phase

\* Storing the row is the registry's creation, answered or with its reply lost.
LEMMA StoreRefines ==
    ASSUME Inv, NEW r \in Requests, NEW res \in {Ok(FreshRow(r)), Err("internal")},
           pc[r] = "write", Return(r, res),
           RowsOf(claims[r].sub) = {}, ~UsernameInUse(claims[r].username),
           profiles' = profiles \cup {FreshRow(r)}, UNCHANGED claims
    PROVE  Registry!EnsureProfile(r)
<1>1. phase[r] = "creating" /\ phase' = [phase EXCEPT ![r] = "decided"]
  BY ReturnPhase, WaitingPhase DEF Waiting
<1>2. Registry!Decide(r, res)
  BY <1>1 DEF Registry!Decide, Registry!Enter, phase, Return
<1>3. Registry!CanCreate(r)
  BY <1>1 DEF Registry!CanCreate, Registry!Mine, Registry!Taken, RowsOf, UsernameInUse, phase
<1>4. Registry!Create(r) \/ Registry!Fail(r)
  BY <1>2, <1>3 DEF Registry!Create, Registry!Fail, Registry!Ok, Registry!Err, Ok, Err, FreshRow
<1> QED BY <1>1, <1>4 DEF Registry!EnsureProfile, phase

\* No row, and claims a profile can be made of: the call is to create it.
LEMMA MissRefines ==
    ASSUME Inv, NEW r \in Requests, pc[r] = "find", RowsOf(claims[r].sub) = {},
           ValidationError(claims[r]) = "none", Goto(r, "insert"),
           UNCHANGED <<profiles, claims, result>>
    PROVE  Registry!EnsureProfile(r)
<1>1. phase[r] = "open" /\ phase' = [phase EXCEPT ![r] = "creating"]
  <2>1. PhaseOf("find") = "open" /\ PhaseOf("insert") = "creating"
    BY WaitingPhase DEF Waiting
  <2>2. phase' = [phase EXCEPT ![r] = PhaseOf("insert")]
    BY GotoPhase DEF Waiting
  <2> QED BY <2>1, <2>2 DEF phase
<1>2. Registry!Miss(r)
  BY <1>1 DEF Registry!Miss, Registry!Mine, Registry!Enter, RowsOf, phase
<1> QED BY <1>1, <1>2 DEF Registry!EnsureProfile, phase

\* What a handler does is one step of its call, or none.
LEMMA HandlerRefines ==
    ASSUME Inv, NEW r \in Requests, HandlerStep(r)
    PROVE  \/ Registry!EnsureProfile(r) \/ Registry!Answer(r)
           \/ UNCHANGED <<profiles, phase, claims, result>>
<1>1. CASE FindHit(r)
  BY <1>1, DecideRefines DEF FindHit, Waiting
<1>2. CASE FindMiss(r)
  <2>1. CASE ValidationError(claims[r]) # "none"
    BY <1>2, <2>1, DecideRefines DEF FindMiss, Waiting
  <2>2. CASE ValidationError(claims[r]) = "none"
    BY <1>2, <2>2, MissRefines DEF FindMiss
  <2> QED BY <2>1, <2>2
<1>3. CASE ProbeArbiter(r)
  <2>1. PICK place \in {"reselect", "write"} : Goto(r, place)
    BY <1>3 DEF ProbeArbiter
  <2>2. PhaseOf(place) = PhaseOf(pc[r])
    BY <1>3, WaitingPhase DEF ProbeArbiter, Waiting
  <2>3. pc[r] \in Waiting /\ place \in Waiting /\ UNCHANGED <<profiles, claims, result>>
    BY <1>3 DEF ProbeArbiter, Waiting
  <2> QED BY <2>1, <2>2, <2>3, GotoPhase
<1>4. CASE WriteIndexes(r)
  <2>1. pc[r] = "write" /\ UNCHANGED claims
    BY <1>4 DEF WriteIndexes
  <2>2. CASE /\ UsernameInUse(claims[r].username)
             /\ Return(r, Err("ErrUsernameTaken"))
             /\ UNCHANGED profiles
    BY <2>1, <2>2, DecideRefines DEF Waiting
  <2>3. CASE Goto(r, "insert") /\ UNCHANGED <<profiles, result>>
    <3>1. PhaseOf("insert") = PhaseOf(pc[r])
      BY <2>1, WaitingPhase DEF Waiting
    <3> QED BY <2>1, <2>3, <3>1, GotoPhase DEF Waiting
  <2>4. CASE /\ ~UsernameInUse(claims[r].username)
             /\ RowsOf(claims[r].sub) = {}
             /\ Store(r)
    BY <2>1, <2>4, StoreRefines DEF Store
  <2> QED BY <1>4, <2>2, <2>3, <2>4 DEF WriteIndexes
<1>5. CASE InsertReplyLost(r)
  BY <1>5, StoreRefines DEF InsertReplyLost
<1>6. CASE Reselect(r)
  BY <1>6, DecideRefines DEF Reselect, Waiting
<1>7. CASE StatementFails(r)
  BY <1>7, DecideRefines DEF StatementFails
<1>8. CASE Respond(r)
  <2>1. pc \in [Requests -> Places]
    BY DEF Inv, TypeOK
  <2>2. phase[r] = "decided" /\ PhaseOf("answered") = "answered"
    BY <1>8 DEF phase, PhaseOf, Waiting, Respond
  <2>3. phase' = [phase EXCEPT ![r] = "answered"]
    BY <1>8, <2>1, <2>2 DEF Respond, Goto, phase
  <2> QED BY <1>8, <2>2, <2>3 DEF Respond, Registry!Answer, Registry!Enter, phase
<1> QED BY <1>1, <1>2, <1>3, <1>4, <1>5, <1>6, <1>7, <1>8 DEF HandlerStep

\* A request that arrives is a call.
LEMMA ReceiveRefines ==
    ASSUME Inv, NEW r \in Requests, NEW c \in TokenClaims, Receive(r, c)
    PROVE  Registry!Call(r, c)
<1>1. pc \in [Requests -> Places] /\ pc[r] = "idle" /\ phase[r] = "new"
  BY DEF Inv, TypeOK, Receive, phase, PhaseOf, Waiting
<1>2. CASE c.sub = NotAUUID
  <2>1. Return(r, Err("ErrNotUUID")) /\ RefusedClaims(c) = "ErrNotUUID"
    BY <1>2 DEF Receive, RefusedClaims
  <2>2. phase' = [phase EXCEPT ![r] = "decided"]
    BY <1>1, <2>1, ReturnPhase
  <2> QED BY <1>1, <2>1, <2>2 DEF Receive, Return, Registry!Call, Registry!Decide,
             Registry!Enter, Registry!Err, Err, phase
<1>3. CASE c.sub # NotAUUID
  <2>1. Goto(r, "find") /\ UNCHANGED result /\ RefusedClaims(c) = "none"
    BY <1>3 DEF Receive, RefusedClaims
  <2>2. PhaseOf("find") = "open"
    BY DEF PhaseOf, Waiting
  <2>3. phase' = [phase EXCEPT ![r] = "open"]
    BY <1>1, <2>1, <2>2 DEF Goto, phase
  <2> QED BY <1>1, <2>1, <2>3 DEF Receive, Registry!Call, Registry!Enter, phase
<1> QED BY <1>2, <1>3

\* Crashes are outages, and edits and removals are made elsewhere.
LEMMA EnvironmentRefines ==
    ASSUME Inv, Environment
    PROVE  Registry!Outage \/ Registry!Elsewhere
<1>1. CASE Crash
  <2>1. ASSUME NEW r \in Requests
        PROVE  PhaseOf(pc'[r]) = IF PhaseOf(pc[r]) \in {"open", "creating", "decided"}
                                   THEN "lost" ELSE PhaseOf(pc[r])
    BY <1>1 DEF Crash, PhaseOf, InFlight, Waiting, Inv, TypeOK, Places
  <2>2. phase' = [r \in Requests |->
                    IF phase[r] \in {"open", "creating", "decided"} THEN "lost" ELSE phase[r]]
    BY <2>1 DEF phase
  <2> QED BY <1>1, <2>2 DEF Crash, Registry!Outage, phase
<1>2. ASSUME NEW p \in profiles, DeleteProfile(p)
      PROVE  Registry!Elsewhere
  BY <1>2 DEF DeleteProfile, Registry!Elsewhere
<1>3. ASSUME NEW p \in profiles, NEW b \in Bios, NEW a \in Pictures,
             CustomizeProfile(p, b, a)
      PROVE  Registry!Elsewhere
  <2>1. Edited(p, b, a) \in EditsOf(p)
    BY DEF EditsOf
  <2> QED BY <1>3, <2>1 DEF CustomizeProfile, Registry!Elsewhere
<1> QED BY <1>1, <1>2, <1>3 DEF Environment

\* To every caller the check-then-act of EnsureProfile is one atomic "return my
\* profile, or create it", that refuses a name only to an identity which had no
\* profile at an earlier moment of the call.
THEOREM Linearizable == Spec => ImplementsRegistry
<1>1. Inv /\ [Next]_vars => [Registry!Next]_(Registry!vars)
  <2> SUFFICES ASSUME Inv, [Next]_vars
               PROVE  Registry!Next \/ UNCHANGED <<profiles, phase, claims, result>>
    BY DEF Registry!vars, phase
  <2>1. ASSUME NEW r \in Requests, NEW c \in TokenClaims, Receive(r, c)
        PROVE  Registry!Next
    BY <2>1, ReceiveRefines DEF Registry!Next
  <2>2. ASSUME NEW r \in Requests, HandlerStep(r)
        PROVE  Registry!Next \/ UNCHANGED <<profiles, phase, claims, result>>
    BY <2>2, HandlerRefines DEF Registry!Next
  <2>3. ASSUME Environment PROVE Registry!Next
    BY <2>3, EnvironmentRefines DEF Registry!Next
  <2>4. CASE UNCHANGED vars
    BY <2>4 DEF vars, phase
  <2> QED BY <2>1, <2>2, <2>3, <2>4 DEF Next
<1> QED BY <1>1, InitRefines, Invariance, PTL DEF Spec, ImplementsRegistry, Registry!Spec

=============================================================================
