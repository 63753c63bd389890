-------------------------- MODULE PooledSyncProofs --------------------------
(***************************************************************************)
(* Proofs about PooledSync, for a pool of any size: it changes nothing of   *)
(* what the handlers do, so that what is proved of IdentitySync holds       *)
(* behind it, and its connections are used as they should be.               *)
(***************************************************************************)
EXTENDS PooledSync, SyncRefinementProofs, FiniteSetTheorems

\* The pool is never overdrawn.
PoolSuffices == IsFiniteSet(held) /\ Cardinality(held) <= MaxConns

\* No handler waits for a connection while it keeps one: the pool cannot come to
\* a standstill.
NoHoldAndWait ==
    \A r \in Requests : pc[r] \in Waiting /\ ~Holds(r) => \A h \in held : h[1] # r

PoolInv == PooledTypeOK /\ HeldOnlyByItsStatement /\ PoolSuffices

-----------------------------------------------------------------------------
(* The handlers behind the pool.                                            *)

\* The pool holds handlers up; it makes them do nothing else.
LEMMA PooledStepRefines == [PooledNext]_pooledVars => [Next]_vars
<1> SUFFICES ASSUME [PooledNext]_pooledVars PROVE [Next]_vars
    OBVIOUS
<1>1. CASE UNCHANGED pooledVars
  BY <1>1 DEF pooledVars
<1>2. ASSUME NEW r \in Requests, NEW c \in TokenClaims, PooledReceive(r, c) PROVE Next
  BY <1>2 DEF PooledReceive, Next
<1>3. ASSUME NEW r \in Requests, Acquire(r) PROVE UNCHANGED vars
  BY <1>3 DEF Acquire
<1>4. ASSUME NEW r \in Requests, PooledStep(r) PROVE Next
  BY <1>4 DEF PooledStep, Execute, AcquireFails, PooledRespond, HandlerStep, Next
<1>5. CASE PooledEnvironment
  BY <1>5 DEF PooledEnvironment, Environment, Next
<1> QED BY <1>1, <1>2, <1>3, <1>4, <1>5 DEF PooledNext

\* Whatever the size of the pool, the handlers behind it do what IdentitySync says.
THEOREM PoolIsTransparent == PooledSpec => Spec
<1>1. PooledInit => Init
  BY DEF PooledInit
<1> QED BY <1>1, PooledStepRefines, PTL DEF PooledSpec, Spec

\* So what the table and the answers promise holds with a pool of any size.
THEOREM PooledAnswersAreSound ==
    PooledSpec => [](UniqueKeys /\ ValidRows /\ OkIsOwnProfile /\ OneProfilePerIdentity)
BY PoolIsTransparent, TableIsSound, AnswersAreOwn, OneProfileEach, PTL

\* From statements that wait for connections to calls decided in one step: however
\* few connections there are, callers see the registry.
THEOREM PooledLinearizable == PooledSpec => ImplementsRegistry
BY PoolIsTransparent, Linearizable, PTL

-----------------------------------------------------------------------------
(* The connections.                                                         *)

\* The pool starts with nobody in it.
LEMMA PoolInitInv == PooledInit => PoolInv
<1> SUFFICES ASSUME PooledInit PROVE PoolInv
    OBVIOUS
<1>1. TypeOK
  BY InitInv DEF PooledInit, Inv
<1>2. Cardinality(held) = 0 /\ IsFiniteSet(held)
  BY FS_EmptySet DEF PooledInit
<1> QED BY <1>1, <1>2, MaxConnsAssumption DEF PooledInit, PoolInv, PooledTypeOK,
           HeldOnlyByItsStatement, PoolSuffices

\* A handler's step moves nobody else.
LEMMA StepsApart ==
    ASSUME TypeOK, NEW r \in Requests, HandlerStep(r), NEW s \in Requests \ {r}
    PROVE  pc'[s] = pc[s]
<1>1. pc \in [Requests -> Places]
  BY DEF TypeOK
<1> QED BY <1>1 DEF HandlerStep, FindHit, FindMiss, ProbeArbiter,
           WriteIndexes, Store, InsertReplyLost, Reselect, StatementFails, Respond, Goto, Return

\* Handlers that hold nothing may go anywhere.
LEMMA FreeStepInv ==
    ASSUME PoolInv, TypeOK', UNCHANGED held,
           \A h \in held : pc'[h[1]] = pc[h[1]]
    PROVE  PoolInv'
BY DEF PoolInv, PooledTypeOK, HeldOnlyByItsStatement, PoolSuffices, Statement

\* A connection is taken out only while there is one left.
LEMMA AcquireInv ==
    ASSUME PoolInv, NEW r \in Requests, Acquire(r)
    PROVE  PoolInv'
<1>1. /\ UNCHANGED <<profiles, pc, claims, result>>
      /\ held' = held \cup {<<r, Statement(r)>>}
      /\ pc[r] \in Waiting /\ Cardinality(held) < MaxConns /\ <<r, Statement(r)>> \notin held
  BY DEF Acquire, vars, Holds
<1>2. Statement(r) \in Waiting
  BY <1>1 DEF Statement, Waiting
<1>3. PooledTypeOK' /\ HeldOnlyByItsStatement'
  BY <1>1, <1>2 DEF PoolInv, PooledTypeOK, TypeOK, HeldOnlyByItsStatement, Statement
<1>4. PoolSuffices'
  <2>1. IsFiniteSet(held) /\ Cardinality(held) \in Nat
    BY FS_CardinalityType DEF PoolInv, PoolSuffices
  <2>2. IsFiniteSet(held') /\ Cardinality(held') = Cardinality(held) + 1
    BY <1>1, <2>1, FS_AddElement
  <2> QED BY <1>1, <2>1, <2>2, MaxConnsAssumption DEF PoolSuffices
<1> QED BY <1>3, <1>4 DEF PoolInv

\* A statement that goes on keeps its connection, one that ends gives it back.
LEMMA ExecuteInv ==
    ASSUME PoolInv, TypeOK', NEW r \in Requests, Execute(r)
    PROVE  PoolInv'
<1>1. HandlerStep(r)
  BY DEF Execute, HandlerStep
<1>2. \A s \in Requests \ {r} : pc'[s] = pc[s]
  BY <1>1, StepsApart DEF PoolInv, PooledTypeOK
<1>3. \A h \in held : h[1] \in Requests /\ h = <<h[1], h[2]>> /\ h[2] = Statement(h[1])
  BY DEF PoolInv, PooledTypeOK, HeldOnlyByItsStatement
<1>4. CASE Statement(r)' = Statement(r) /\ held' = held
  <2>1. pc[r] \in Waiting
    BY <1>3 DEF Execute, Holds, PoolInv, HeldOnlyByItsStatement
  <2>2. pc'[r] \in Waiting
    BY <1>4, <2>1 DEF Statement, Waiting
  <2>3. HeldOnlyByItsStatement'
    BY <1>2, <1>3, <1>4, <2>2 DEF PoolInv, HeldOnlyByItsStatement, Statement
  <2> QED BY <1>4, <2>3 DEF PoolInv, PooledTypeOK, PoolSuffices
<1>5. CASE held' = held \ {<<r, Statement(r)>>}
  <2>1. \A h \in held' : h[1] # r /\ h \in held
    BY <1>3, <1>5
  <2>2. PooledTypeOK' /\ HeldOnlyByItsStatement'
    BY <1>2, <1>3, <2>1 DEF PoolInv, PooledTypeOK, HeldOnlyByItsStatement, Statement
  <2>3. PoolSuffices'
    <3>1. IsFiniteSet(held) /\ Cardinality(held) <= MaxConns
      BY DEF PoolInv, PoolSuffices
    <3>2. IsFiniteSet(held') /\ Cardinality(held') <= Cardinality(held)
      BY <1>5, <3>1, FS_Subset
    <3>3. Cardinality(held) \in Nat /\ Cardinality(held') \in Nat
      BY <3>1, <3>2, FS_CardinalityType
    <3> QED BY <3>1, <3>2, <3>3, MaxConnsAssumption DEF PoolSuffices
  <2> QED BY <2>2, <2>3 DEF PoolInv
<1> QED BY <1>4, <1>5 DEF Execute, Release

\* Every step keeps the invariant, given that the handlers keep their types.
LEMMA PoolNextInv == PoolInv /\ TypeOK' /\ [PooledNext]_pooledVars => PoolInv'
<1> SUFFICES ASSUME PoolInv, TypeOK', [PooledNext]_pooledVars PROVE PoolInv'
    OBVIOUS
<1>0. \A h \in held : h[1] \in Requests /\ pc[h[1]] \in Waiting /\ h = <<h[1], Statement(h[1])>>
  BY DEF PoolInv, PooledTypeOK, HeldOnlyByItsStatement
<1>1. CASE UNCHANGED pooledVars
  BY <1>1, FreeStepInv DEF pooledVars, vars
<1>2. ASSUME NEW r \in Requests, NEW c \in TokenClaims, PooledReceive(r, c) PROVE PoolInv'
  <2>1. \A s \in Requests \ {r} : pc'[s] = pc[s]
    BY <1>2 DEF PooledReceive, Receive, Goto, Return, PoolInv, PooledTypeOK, TypeOK
  <2>2. pc[r] \notin Waiting
    BY <1>2 DEF PooledReceive, Receive, Waiting
  <2> QED BY <1>0, <1>2, <2>1, <2>2, FreeStepInv DEF PooledReceive
<1>3. ASSUME NEW r \in Requests, Acquire(r) PROVE PoolInv'
  BY <1>3, AcquireInv
<1>4. ASSUME NEW r \in Requests, Execute(r) PROVE PoolInv'
  BY <1>4, ExecuteInv
<1>5. ASSUME NEW r \in Requests, AcquireFails(r) \/ PooledRespond(r) PROVE PoolInv'
  <2>1. HandlerStep(r) /\ UNCHANGED held
    BY <1>5 DEF AcquireFails, PooledRespond, HandlerStep
  <2>2. \A s \in Requests \ {r} : pc'[s] = pc[s]
    BY <2>1, StepsApart DEF PoolInv, PooledTypeOK
  <2>3. ~Holds(r) \/ pc[r] \notin Waiting
    BY <1>5 DEF AcquireFails, PooledRespond, Respond, Waiting
  <2>4. \A h \in held : h[1] # r
    BY <1>0, <2>3 DEF Holds
  <2> QED BY <1>0, <2>1, <2>2, <2>4, FreeStepInv
<1>6. CASE PooledEnvironment
  <2>1. CASE held' = {}
    BY <2>1, FS_EmptySet, MaxConnsAssumption DEF PoolInv, PooledTypeOK,
       HeldOnlyByItsStatement, PoolSuffices
  <2>2. CASE UNCHANGED <<pc, held>>
    BY <2>2, FreeStepInv
  <2> QED BY <1>6, <2>1, <2>2 DEF PooledEnvironment, DeleteProfile, CustomizeProfile
<1> QED BY <1>1, <1>2, <1>3, <1>4, <1>5, <1>6 DEF PooledNext, PooledStep

\* TypeOK comes with the handlers, the rest with the pool.
LEMMA AlwaysPoolInv == PooledSpec => []PoolInv
<1>1. PooledSpec => []TypeOK
  BY PoolIsTransparent, TypeCorrect, PTL
<1> QED BY <1>1, PoolInitInv, PoolNextInv, PTL DEF PooledSpec

\* Every reachable state is well typed, with any pool.
THEOREM PooledTypeCorrect == PooledSpec => []PooledTypeOK
<1>1. PoolInv => PooledTypeOK
  BY DEF PoolInv
<1> QED BY <1>1, AlwaysPoolInv, PTL

\* No connection leaks, however a statement ends.
THEOREM NoConnectionLeaks == PooledSpec => []HeldOnlyByItsStatement
<1>1. PoolInv => HeldOnlyByItsStatement
  BY DEF PoolInv
<1> QED BY <1>1, AlwaysPoolInv, PTL

\* There are never more connections in use than the pool has, and nobody who has
\* one waits for another.
THEOREM PoolIsSafe == PooledSpec => [](PoolSuffices /\ NoHoldAndWait)
<1>1. PoolInv => PoolSuffices /\ NoHoldAndWait
  BY DEF PoolInv, PooledTypeOK, HeldOnlyByItsStatement, NoHoldAndWait, Holds
<1> QED BY <1>1, AlwaysPoolInv, PTL
=============================================================================
