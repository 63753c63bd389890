----------------------------- MODULE PooledSync ------------------------------
(***************************************************************************)
(* IdentitySync with the connection pool its statements go through          *)
(* (pgxpool, opened by public-api's main): each QueryRow waits for a        *)
(* connection, keeps it for that statement only and gives it back when Scan *)
(* has read the row or the error. There are fewer connections than requests.*)
(***************************************************************************)
EXTENDS IdentitySync, FiniteSets

CONSTANT MaxConns    \* the size of the pool

ASSUME MaxConnsAssumption == MaxConns \in Nat \ {0}

VARIABLE held    \* the connections in use: whose they are and for what

pooledVars == <<vars, held>>

\* The statement a request waits on; the INSERT's two halves are one.
Statement(r) == IF pc[r] = "write" THEN "insert" ELSE pc[r]

Holds(r) == <<r, Statement(r)>> \in held

PooledInit == Init /\ held = {}

PooledReceive(r, c) == Receive(r, c) /\ UNCHANGED held

\* Mutant: the handler takes a connection for its response, too.
Acquire_ForResponse(r) ==
    /\ pc[r] \in InFlight
    /\ ~Holds(r)
    /\ Cardinality(held) < MaxConns
    /\ held' = held \cup {<<r, Statement(r)>>}
    /\ UNCHANGED vars

\* QueryRow gets a connection out of the pool.
Acquire(r) ==
    /\ pc[r] \in Waiting
    /\ ~Holds(r)
    /\ Cardinality(held) < MaxConns
    /\ held' = held \cup {<<r, Statement(r)>>}
    /\ UNCHANGED vars

\* Mutant: a statement that fails keeps its connection.
Release_NotOnError(r) ==
    held' = IF Statement(r)' = Statement(r) \/ result'[r].err = "internal"
              THEN held ELSE held \ {<<r, Statement(r)>>}

\* Mutant: the INSERT keeps its connection until the re-select is through, as
\* in a transaction whose re-select goes to the pool.
Release_AfterReselect(r) ==
    held' = IF Statement(r)' = Statement(r) \/ pc'[r] = "reselect"
              THEN held ELSE held \ ({r} \X Waiting)

\* Scan gives the connection back, unless the statement goes on.
Release(r) ==
    held' = IF Statement(r)' = Statement(r) THEN held ELSE held \ {<<r, Statement(r)>>}

\* A step of the statement the request has a connection for.
Execute(r) ==
    /\ Holds(r)
    /\ \/ FindHit(r) \/ FindMiss(r)
       \/ ProbeArbiter(r) \/ WriteIndexes(r) \/ InsertReplyLost(r)
       \/ Reselect(r) \/ StatementFails(r)
    /\ Release(r)

\* No connection can be opened.
AcquireFails(r) == ~Holds(r) /\ StatementFails(r) /\ UNCHANGED held

\* The response needs no connection.
PooledRespond(r) == Respond(r) /\ UNCHANGED held

PooledStep(r) == Execute(r) \/ AcquireFails(r) \/ PooledRespond(r)

\* The pool dies with its process.
PooledEnvironment ==
    \/ Crash /\ held' = {}
    \/ \E p \in profiles : /\ \/ DeleteProfile(p)
                              \/ \E b \in Bios, a \in Pictures : CustomizeProfile(p, b, a)
                           /\ UNCHANGED held

PooledNext ==
    \/ \E r \in Requests : \/ \E c \in TokenClaims : PooledReceive(r, c)
                           \/ Acquire(r) \/ PooledStep(r)
    \/ PooledEnvironment

PooledSpec == PooledInit /\ [][PooledNext]_pooledVars

\* The pool serves its waiters in their order, so nobody waits for ever while
\* connections come back; otherwise as in FairSpec.
PooledFairSpec ==
    /\ PooledSpec
    /\ \A r \in Requests : WF_pooledVars(Acquire(r))
    /\ \A r \in Requests \ Unanswered : WF_pooledVars(Execute(r) \/ PooledRespond(r))

-----------------------------------------------------------------------------
PooledTypeOK == TypeOK /\ held \subseteq Requests \X Waiting

\* A connection in use belongs to a statement that is still running, whatever
\* way the last one ended: none leaks, and no handler waits for a second one
\* while it keeps a first.
HeldOnlyByItsStatement == \A h \in held : pc[h[1]] \in Waiting /\ h[2] = Statement(h[1])

\* Behind a pool the handlers do what IdentitySync says, and each of them whose
\* statements are answered goes on, provided that fewer statements hang than
\* there are connections: what IdentitySync assumes of scheduling is true then.
ImplementsFairSync == FairSpec

\* A statement that is never answered keeps its connection, and its handler, for
\* good; while there are fewer of them than connections, every other request
\* that arrives is still answered, or dies with the process.
OthersEnd ==
    Cardinality(Unanswered) < MaxConns =>
        \A r \in Requests \ Unanswered :
            pc[r] \in InFlight ~> pc[r] \in {"answered", "dropped"}
=============================================================================
