----------------------------- MODULE JWKSCache ------------------------------
(***************************************************************************)
(* The key cache of one API process (authmw.JWKS): the synchronous first   *)
(* Refresh of main.go, whose failure ends the process, and the goroutine of *)
(* StartBackgroundRefresh, against a Keycloak that rotates its keys,        *)
(* restarts, errors or accepts a connection and never answers.             *)
(*                                                                          *)
(* A Refresh is cut where something else can happen: Keycloak takes its     *)
(* snapshot of the key document, the reply travels, the entries are parsed  *)
(* one by one into a map of their own, and one assignment under the lock    *)
(* publishes the map. Keyfunc may read the cache between any two steps.     *)
(***************************************************************************)
EXTENDS Naturals, Sequences

CONSTANTS
    Documents,      \* key documents Keycloak may publish: sets of JWKs
    Kids,           \* key ids
    Calls,          \* activations of Refresh that could exist side by side
    MaxPublished    \* bound: how many documents Keycloak publishes in all

JWK == [kid : Kids, kty : {"RSA", "other"}, wellFormed : BOOLEAN]

ASSUME DocumentsAssumption == Documents \subseteq SUBSET JWK

ASSUME CallsAssumption == Calls # {}

ASSUME MaxPublishedAssumption == MaxPublished \in Nat \ {0}

VARIABLES
    published,   \* the documents Keycloak has published, the current one last
    keycloak,    \* how Keycloak treats a request now
    process,     \* the API process
    keys,        \* JWKS.keys: the ids of the cached public keys
    due,         \* a tick waits in ticker.C
    fetch,       \* where each call of Refresh stands
    asOf         \* history: which published document keys were read from

vars == <<published, keycloak, process, keys, due, fetch, asOf>>

Conditions == {"up", "starting", "down", "hung"}

\* A call of Refresh: the document it was sent, the entries still to parse and
\* the map built from the others.
Stage(at, version, todo, built) ==
    [at |-> at, version |-> version, todo |-> todo, built |-> built]

NoFetch == Stage("idle", 0, {}, {})

NoFetches == [c \in Calls |-> NoFetch]

Send(c) == fetch' = [fetch EXCEPT ![c] = Stage("sent", 0, {}, {})]

RSAKeys(doc) == {k.kid : k \in {x \in doc : x.kty = "RSA"}}

\* A document Refresh accepts: no RSA entry fails to decode, and there is one.
Usable(doc) == /\ RSAKeys(doc) # {}
               /\ \A k \in doc : k.kty = "RSA" => k.wellFormed

Current == Len(published)

Init == /\ published \in {<<d>> : d \in Documents}
        /\ keycloak \in Conditions
        /\ process = "exited"
        /\ keys = {}
        /\ due = FALSE
        /\ fetch = NoFetches
        /\ asOf = 0

-----------------------------------------------------------------------------
(* Keycloak and the operator.                                               *)

\* A rotation, or the fresh keys of a realm imported again.
Publish(doc) ==
    /\ Current < MaxPublished
    /\ doc # published[Current]
    /\ published' = Append(published, doc)
    /\ UNCHANGED <<keycloak, process, keys, due, fetch, asOf>>

ChangeCondition(c) ==
    /\ c # keycloak
    /\ keycloak' = c
    /\ UNCHANGED <<published, process, keys, due, fetch, asOf>>

\* The process is gone, and with it the cache and whatever it was fetching.
Gone == /\ process' = "exited"
        /\ keys' = {}
        /\ due' = FALSE
        /\ fetch' = NoFetches
        /\ asOf' = 0

Crash == /\ process # "exited"
         /\ Gone
         /\ UNCHANGED <<published, keycloak>>

\* main: NewJWKS, then Refresh before anything is served.
Start == /\ process = "exited"
         /\ process' = "booting"
         /\ \E c \in Calls : Send(c)
         /\ UNCHANGED <<published, keycloak, keys, due, asOf>>

-----------------------------------------------------------------------------
(* The steps of a Refresh and of the goroutine that repeats it.             *)

\* Refresh returns an error: main exits on it, the goroutine logs it and
\* keeps the cache.
Fail(c) == IF process = "booting"
             THEN Gone
             ELSE /\ fetch' = [fetch EXCEPT ![c] = NoFetch]
                  /\ UNCHANGED <<process, keys, due, asOf>>

\* The ticker fires; a tick nobody has received yet absorbs it.
Tick == /\ process = "serving"
        /\ ~due
        /\ due' = TRUE
        /\ UNCHANGED <<published, keycloak, process, keys, fetch, asOf>>

\* Mutant: every tick starts a Refresh in a goroutine of its own.
BeginRefresh_Overlapping(c) ==
    /\ process = "serving"
    /\ due
    /\ fetch[c] = NoFetch
    /\ due' = FALSE
    /\ Send(c)
    /\ UNCHANGED <<published, keycloak, process, keys, asOf>>

\* The loop receives the tick, only once the previous Refresh has returned.
BeginRefresh(c) ==
    /\ process = "serving"
    /\ due
    /\ fetch = NoFetches
    /\ due' = FALSE
    /\ Send(c)
    /\ UNCHANGED <<published, keycloak, process, keys, asOf>>

\* Keycloak reads its key set and sends it.
KeycloakAnswers(c) ==
    /\ fetch[c].at = "sent"
    /\ keycloak = "up"
    /\ fetch' = [fetch EXCEPT ![c] = Stage("reply", Current, {}, {})]
    /\ UNCHANGED <<published, keycloak, process, keys, due, asOf>>

\* No connection, a status other than 200, or a body cut short.
RequestFails(c) ==
    /\ \/ fetch[c].at = "sent" /\ keycloak \in {"starting", "down"}
       \/ fetch[c].at = "reply" /\ keycloak \in {"starting", "down"}
    /\ Fail(c)
    /\ UNCHANGED <<published, keycloak>>

\* Mutant: http.DefaultClient, which has no timeout.
Timeout_Never(c) == FALSE

\* httpClient gives up after 10 seconds, on the headers or on the body.
Timeout(c) ==
    /\ fetch[c].at \in {"sent", "reply"}
    /\ keycloak = "hung"
    /\ Fail(c)
    /\ UNCHANGED <<published, keycloak>>

ReadReply(c) ==
    /\ fetch[c].at = "reply"
    /\ keycloak # "hung"
    /\ fetch' = [fetch EXCEPT ![c] = Stage("parse", @.version, published[@.version], {})]
    /\ UNCHANGED <<published, keycloak, process, keys, due, asOf>>

\* The loop is done with entry k of call c.
Parsed(c, k) == fetch' = [fetch EXCEPT ![c] = Stage("parse", @.version, @.todo \ {k},
                                                    @.built \cup RSAKeys({k}))]

\* Mutant: the key goes straight into the map Keyfunc reads.
ParseKey_InPlace(c, k) ==
    /\ fetch[c].at = "parse"
    /\ k \in fetch[c].todo
    /\ k.kty = "RSA" => k.wellFormed
    /\ Parsed(c, k)
    /\ keys' = keys \cup RSAKeys({k})
    /\ UNCHANGED <<published, keycloak, process, due, asOf>>

\* Mutant: the whole entry is kept instead of its key.
ParseKey_WholeEntry(c, k) ==
    /\ fetch[c].at = "parse"
    /\ k \in fetch[c].todo
    /\ fetch' = [fetch EXCEPT ![c].todo = @ \ {k}, ![c].built = @ \cup {k}]
    /\ UNCHANGED <<published, keycloak, process, keys, due, asOf>>

\* One turn of the loop over parsed.Keys: other key types are skipped, one RSA
\* entry that does not decode fails the whole Refresh.
ParseKey(c, k) ==
    /\ fetch[c].at = "parse"
    /\ k \in fetch[c].todo
    /\ \/ /\ k.kty = "RSA" /\ ~k.wellFormed
          /\ Fail(c)
       \/ /\ k.kty = "RSA" => k.wellFormed
          /\ Parsed(c, k)
          /\ UNCHANGED <<process, keys, due, asOf>>
    /\ UNCHANGED <<published, keycloak>>

\* Mutant: new keys are added to the cache, old ones stay.
Swap_Merging(c) ==
    /\ fetch[c].at = "parse"
    /\ fetch[c].todo = {}
    /\ IF fetch[c].built = {}
         THEN Fail(c)
         ELSE /\ keys' = keys \cup fetch[c].built
              /\ asOf' = fetch[c].version
              /\ process' = "serving"
              /\ fetch' = [fetch EXCEPT ![c] = NoFetch]
              /\ UNCHANGED due
    /\ UNCHANGED <<published, keycloak>>

\* The map is complete: refuse an empty one, or publish it under the lock.
Swap(c) ==
    /\ fetch[c].at = "parse"
    /\ fetch[c].todo = {}
    /\ \/ fetch[c].built = {} /\ Fail(c)
       \/ /\ fetch[c].built # {}
          /\ keys' = fetch[c].built
          /\ asOf' = fetch[c].version
          /\ process' = "serving"
          /\ fetch' = [fetch EXCEPT ![c] = NoFetch]
          /\ UNCHANGED due
    /\ UNCHANGED <<published, keycloak>>

RefreshStep(c) ==
    \/ KeycloakAnswers(c) \/ RequestFails(c) \/ Timeout(c) \/ ReadReply(c) \/ Swap(c)
    \/ \E k \in fetch[c].todo : ParseKey(c, k)

-----------------------------------------------------------------------------
Next == \/ \E d \in Documents : Publish(d)
        \/ \E c \in Conditions : ChangeCondition(c)
        \/ Crash \/ Start
        \/ Tick
        \/ \E c \in Calls : BeginRefresh(c) \/ RefreshStep(c)

Spec == Init /\ [][Next]_vars

\* Time passes, so the ticker fires; the goroutine runs; a Keycloak that is
\* up answers, and one that hangs runs into the client's timeout. Nothing is
\* assumed of Keycloak's condition or of the operator who starts the process.
FairSpec == /\ Spec
            /\ WF_vars(Tick)
            /\ WF_vars(\E c \in Calls : BeginRefresh(c))
            /\ \A c \in Calls : WF_vars(RefreshStep(c))

-----------------------------------------------------------------------------
FetchType == [at : {"idle", "sent", "reply", "parse"}, version : 0 .. MaxPublished,
              todo : SUBSET JWK, built : SUBSET Kids]

TypeOK ==
    /\ published \in Seq(Documents) /\ Current \in 1 .. MaxPublished
    /\ keycloak \in Conditions
    /\ process \in {"exited", "booting", "serving"}
    /\ keys \subseteq Kids
    /\ due \in BOOLEAN
    /\ fetch \in [Calls -> FetchType]
    /\ asOf \in 0 .. MaxPublished

\* Keyfunc: the verdict on a token's kid. It reads the cache under the read
\* lock and never fetches a key it does not know.
KnownKey(kid) == kid \in keys

\* A process that serves can validate tokens: its cache is all the RSA keys of
\* one published document that had some, never empty, never half a document,
\* never a mixture of two (Refresh "replaces the cache atomically").
ServesOneDocument ==
    process = "serving" =>
        /\ \E kid \in Kids : KnownKey(kid)
        /\ \E v \in 1 .. Current : Usable(published[v]) /\ keys = RSAKeys(published[v])

\* While a process serves, its cache changes only to a newer document than the
\* one it holds, however late replies arrive: a removed key does not come back,
\* and an outage takes no key away (the comment on StartBackgroundRefresh).
CacheMovesForward ==
    [][process = "serving" /\ process' = "serving" /\ keys' # keys
         => asOf' > asOf]_vars

\* Requests, replies and parsing look to whoever uses the cache like moves from
\* one published document to a later one, each made in a single step.
Cache == INSTANCE KeyCache WITH KeysOf <- RSAKeys

ImplementsKeyCache == Cache!Spec

\* Every Refresh returns, at startup and in the background, even against a
\* Keycloak that never answers (the comment on httpClient).
RefreshEnds == \A c \in Calls : fetch[c].at # "idle" ~> fetch[c].at = "idle"

\* If Keycloak stays up with a usable document, a process that serves comes to
\* hold that document and keeps it: a rotated key is learned and a removed one
\* is forgotten without a restart.
EventuallyFresh ==
    <>[](keycloak = "up" /\ Usable(published[Current]))
        => <>[](process = "serving" => keys = RSAKeys(published[Current]))
=============================================================================
