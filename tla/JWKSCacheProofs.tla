-------------------------- MODULE JWKSCacheProofs ---------------------------
(***************************************************************************)
(* Proofs about JWKSCache for any documents, any number of publications     *)
(* and any number of activations of Refresh.                                *)
(***************************************************************************)
EXTENDS JWKSCache, TLAPS

\* The loop is sequential: one call of Refresh at a time.
OneFetch ==
    \A c, d \in Calls : fetch[c].at # "idle" /\ fetch[d].at # "idle" => c = d

\* What a call knows of a document is part of one that was published, and that
\* is at least as new as the cache.
Sound(f) ==
    /\ f.at \in {"reply", "parse"} => f.version \in 1 .. Current /\ f.version >= asOf
    /\ f.at = "parse"
         => /\ f.todo \subseteq published[f.version]
            /\ RSAKeys(published[f.version]) = f.built \cup RSAKeys(f.todo)
            /\ \A k \in published[f.version] \ f.todo : k.kty = "RSA" => k.wellFormed

\* The cache of a process that serves is the document asOf names.
CacheSound ==
    /\ asOf \in 0 .. Current
    /\ process = "serving" => /\ asOf \in 1 .. Current
                              /\ Usable(published[asOf])
                              /\ keys = RSAKeys(published[asOf])
    /\ process # "serving" => asOf = 0 /\ keys = {}
    /\ process = "exited" => fetch = NoFetches

Inv == TypeOK /\ OneFetch /\ (\A c \in Calls : Sound(fetch[c])) /\ CacheSound

-----------------------------------------------------------------------------
\* A call of Refresh that is not under way.
LEMMA NoFetchType == /\ NoFetch \in FetchType /\ NoFetch.at = "idle"
                     /\ NoFetches \in [Calls -> FetchType]
                     /\ \A c \in Calls : NoFetches[c] = NoFetch
<1>1. 0 \in 0 .. MaxPublished
  BY MaxPublishedAssumption
<1>2. NoFetch \in FetchType /\ NoFetch.at = "idle"
  BY <1>1 DEF NoFetch, Stage, FetchType
<1> QED BY <1>2 DEF NoFetches

\* A process that has not started has no cache to be wrong.
LEMMA InitInv == Init => Inv
<1> SUFFICES ASSUME Init PROVE Inv
    OBVIOUS
<1>1. published \in Seq(Documents) /\ Current = 1
  <2>1. PICK d \in Documents : published = <<d>>
    BY DEF Init
  <2>2. <<d>> \in Seq(Documents) /\ Len(<<d>>) = 1
    OBVIOUS
  <2> QED BY <2>1, <2>2 DEF Current
<1>2. \A c \in Calls : fetch[c] = NoFetch /\ fetch[c].at = "idle"
  BY NoFetchType DEF Init
<1>3. 1 \in 1 .. MaxPublished /\ 0 \in 0 .. MaxPublished
  BY MaxPublishedAssumption
<1>4. TypeOK
  BY <1>1, <1>3, NoFetchType DEF Init, TypeOK
<1>5. OneFetch /\ \A c \in Calls : Sound(fetch[c])
  BY <1>2 DEF OneFetch, Sound
<1>6. CacheSound
  BY <1>1 DEF Init, CacheSound
<1> QED BY <1>4, <1>5, <1>6 DEF Inv

\* A process that is gone satisfies everything.
LEMMA GoneInv ==
    ASSUME Inv, Gone, UNCHANGED <<published, keycloak>>
    PROVE  Inv'
<1>1. \A c \in Calls : fetch'[c] = NoFetch /\ fetch'[c].at = "idle"
  BY NoFetchType DEF Gone
<1>2. 0 \in 0 .. MaxPublished
  BY MaxPublishedAssumption
<1>3. TypeOK'
  BY <1>2, NoFetchType DEF Inv, TypeOK, Gone, Current
<1>4. OneFetch' /\ (\A c \in Calls : Sound(fetch[c]))'
  BY <1>1 DEF OneFetch, Sound
<1>5. Current \in Nat /\ Current' = Current
  BY DEF Inv, TypeOK, Current
<1>6. CacheSound'
  BY <1>5 DEF CacheSound, Gone
<1> QED BY <1>3, <1>4, <1>6 DEF Inv

\* One call moves on to f, or ends, and nothing else moves.
LEMMA MoveInv ==
    ASSUME Inv, NEW c \in Calls, NEW f \in FetchType,
           fetch[c].at # "idle", Sound(f),
           fetch' = [fetch EXCEPT ![c] = f],
           UNCHANGED <<published, keycloak, process, keys, due, asOf>>
    PROVE  Inv'
<1>1. /\ fetch \in [Calls -> FetchType]
      /\ \A d \in Calls : fetch'[d] = IF d = c THEN f ELSE fetch[d]
  BY DEF Inv, TypeOK
<1>2. TypeOK'
  BY <1>1 DEF Inv, TypeOK, Current
<1>3. OneFetch'
  BY <1>1 DEF Inv, OneFetch
<1>4. (\A d \in Calls : Sound(fetch[d]))'
  BY <1>1 DEF Inv, Sound, Current
<1>5. CacheSound'
  BY NoFetchType DEF Inv, CacheSound, Current
<1> QED BY <1>2, <1>3, <1>4, <1>5 DEF Inv

\* A Refresh that fails ends a process that boots, and leaves the cache of one that
\* serves.
LEMMA FailInv ==
    ASSUME Inv, NEW c \in Calls, Fail(c), fetch[c].at # "idle",
           UNCHANGED <<published, keycloak>>
    PROVE  Inv'
<1>1. CASE process = "booting"
  BY <1>1, GoneInv DEF Fail
<1>2. CASE process # "booting"
  <2>1. Sound(NoFetch)
    BY NoFetchType DEF Sound
  <2> QED BY <1>2, <2>1, MoveInv, NoFetchType DEF Fail
<1> QED BY <1>1, <1>2

\* A new document leaves the older ones where they are.
LEMMA PublishInv ==
    ASSUME Inv, NEW doc \in Documents, Publish(doc)
    PROVE  Inv'
<1>1. /\ published \in Seq(Documents) /\ Current \in 1 .. MaxPublished
      /\ published' = Append(published, doc) /\ Current < MaxPublished
      /\ UNCHANGED <<keycloak, process, keys, due, fetch, asOf>>
  BY DEF Inv, TypeOK, Publish
<1>2. /\ Current \in Nat /\ Current' = Current + 1
      /\ \A v \in 1 .. Current : published'[v] = published[v]
  BY <1>1 DEF Current
<1>3. published' \in Seq(Documents) /\ Current' \in 1 .. MaxPublished
  BY <1>1, <1>2, MaxPublishedAssumption
<1>4. TypeOK' /\ OneFetch'
  BY <1>1, <1>3 DEF Inv, TypeOK, OneFetch
<1>5. ASSUME NEW c \in Calls PROVE Sound(fetch[c])'
  <2>1. Sound(fetch[c]) /\ fetch' = fetch /\ asOf' = asOf
    BY <1>1 DEF Inv
  <2>2. CASE fetch[c].at \in {"reply", "parse"}
    <3>1. fetch[c].version \in 1 .. Current
      BY <2>1, <2>2 DEF Sound
    <3>2. /\ published'[fetch[c].version] = published[fetch[c].version]
          /\ fetch[c].version \in 1 .. Current'
      BY <1>2, <3>1
    <3> QED BY <2>1, <2>2, <3>2 DEF Sound
  <2>3. CASE fetch[c].at \notin {"reply", "parse"}
    BY <2>1, <2>3 DEF Sound
  <2> QED BY <2>2, <2>3
<1>6. CacheSound'
  <2>1. CacheSound /\ process' = process /\ keys' = keys /\ asOf' = asOf /\ fetch' = fetch
    BY <1>1 DEF Inv
  <2>2. asOf \in 0 .. Current'
    BY <1>2, <2>1 DEF CacheSound
  <2>3. CASE process = "serving"
    <3>1. asOf \in 1 .. Current
      BY <2>1, <2>3 DEF CacheSound
    <3>2. asOf \in 1 .. Current' /\ published'[asOf] = published[asOf]
      BY <1>2, <3>1
    <3> QED BY <2>1, <2>2, <2>3, <3>2 DEF CacheSound
  <2>4. CASE process # "serving"
    BY <2>1, <2>2, <2>4 DEF CacheSound
  <2> QED BY <2>3, <2>4
<1> QED BY <1>4, <1>5, <1>6 DEF Inv

\* A call is made: by main, or by the loop when no other is in progress.
LEMMA SendInv ==
    ASSUME Inv, NEW c \in Calls, Send(c), fetch = NoFetches,
           \/ process = "exited" /\ process' = "booting"
           \/ process = "serving" /\ process' = "serving",
           due' \in BOOLEAN, UNCHANGED <<published, keycloak, keys, asOf>>
    PROVE  Inv'
<1>1. 0 \in 0 .. MaxPublished
  BY MaxPublishedAssumption
<1>2. Stage("sent", 0, {}, {}) \in FetchType /\ Stage("sent", 0, {}, {}).at = "sent"
  BY <1>1 DEF Stage, FetchType
<1>3. /\ fetch' \in [Calls -> FetchType]
      /\ \A d \in Calls : fetch'[d].at = IF d = c THEN "sent" ELSE "idle"
  BY <1>2, NoFetchType DEF Send
<1>4. TypeOK'
  BY <1>3 DEF Inv, TypeOK, Current
<1>5. OneFetch' /\ (\A d \in Calls : Sound(fetch[d]))'
  BY <1>3 DEF OneFetch, Sound
<1>6. CacheSound'
  BY DEF Inv, CacheSound, Current
<1> QED BY <1>4, <1>5, <1>6 DEF Inv

\* What a call is sent is the document that is current.
LEMMA KeycloakAnswersInv ==
    ASSUME Inv, NEW c \in Calls, KeycloakAnswers(c)
    PROVE  Inv'
<1> DEFINE f == Stage("reply", Current, {}, {})
<1>1. Current \in 1 .. MaxPublished /\ MaxPublished \in Nat /\ asOf \in 0 .. Current
  BY MaxPublishedAssumption DEF Inv, TypeOK, CacheSound
<1>2. f \in FetchType
  <2>1. Current \in 0 .. MaxPublished
    BY <1>1
  <2> QED BY <2>1 DEF Stage, FetchType
<1>3. Sound(f)
  <2>1. Current \in 1 .. Current /\ Current >= asOf
    BY <1>1
  <2> QED BY <2>1 DEF Stage, Sound
<1> HIDE DEF f
<1>4. fetch' = [fetch EXCEPT ![c] = f] /\ fetch[c].at # "idle"
  BY DEF KeycloakAnswers, f
<1> QED BY <1>2, <1>3, <1>4, MoveInv DEF KeycloakAnswers

\* A reply is read, and its entries are still to be parsed.
LEMMA ReadReplyInv ==
    ASSUME Inv, NEW c \in Calls, ReadReply(c)
    PROVE  Inv'
<1> DEFINE v == fetch[c].version
           f == Stage("parse", v, published[v], {})
<1>1. fetch[c] \in FetchType /\ Sound(fetch[c]) /\ fetch[c].at = "reply"
  BY DEF Inv, TypeOK, ReadReply
<1>2. v \in 1 .. Current /\ v >= asOf /\ v \in 0 .. MaxPublished
  BY <1>1 DEF Sound, FetchType
<1>3. published[v] \in SUBSET JWK
  BY <1>2, DocumentsAssumption DEF Inv, TypeOK, Current
<1> HIDE DEF v
<1>4. f \in FetchType
  BY <1>2, <1>3 DEF Stage, FetchType
<1>5. Sound(f)
  BY <1>2 DEF Stage, Sound
<1>6. fetch' = [fetch EXCEPT ![c] = f] /\ fetch[c].at # "idle"
  BY <1>1 DEF ReadReply, v
<1> HIDE DEF f
<1> QED BY <1>4, <1>5, <1>6, MoveInv DEF ReadReply

\* The keys of a document are those of the entry just parsed and of the others.
LEMMA RSAKeysSplit ==
    ASSUME NEW doc, NEW k \in doc
    PROVE  RSAKeys(doc) = RSAKeys({k}) \cup RSAKeys(doc \ {k})
BY DEF RSAKeys

\* One more entry is parsed into the map the call builds.
LEMMA ParsedInv ==
    ASSUME Inv, NEW c \in Calls, NEW k \in fetch[c].todo, fetch[c].at = "parse",
           Parsed(c, k), k.kty = "RSA" => k.wellFormed,
           UNCHANGED <<published, keycloak, process, keys, due, asOf>>
    PROVE  Inv'
<1> DEFINE v == fetch[c].version
           todo == fetch[c].todo
           built == fetch[c].built
           f == Stage("parse", v, todo \ {k}, built \cup RSAKeys({k}))
<1>1. fetch[c] \in FetchType /\ Sound(fetch[c])
  BY DEF Inv, TypeOK
<1>2. /\ v \in 0 .. MaxPublished /\ todo \in SUBSET JWK /\ built \in SUBSET Kids
  BY <1>1 DEF FetchType
<1>3. /\ v \in 1 .. Current /\ v >= asOf
      /\ todo \subseteq published[v]
      /\ RSAKeys(published[v]) = built \cup RSAKeys(todo)
      /\ \A x \in published[v] \ todo : x.kty = "RSA" => x.wellFormed
  BY <1>1 DEF Sound
<1>4. fetch' = [fetch EXCEPT ![c] = f]
  BY DEF Parsed
<1>5. k \in todo
  OBVIOUS
<1> HIDE DEF v, todo, built
<1>6. RSAKeys(todo) = RSAKeys({k}) \cup RSAKeys(todo \ {k})
  BY <1>5, RSAKeysSplit
<1>7. RSAKeys({k}) \in SUBSET Kids
  BY <1>2, <1>5 DEF RSAKeys, JWK
<1>8. f \in FetchType
  BY <1>2, <1>7 DEF Stage, FetchType
<1>9. Sound(f)
  BY <1>3, <1>5, <1>6 DEF Stage, Sound
<1> HIDE DEF f
<1> QED BY <1>4, <1>8, <1>9, MoveInv

\* A map built from all entries takes the place of the cache.
LEMMA SwapInv ==
    ASSUME Inv, NEW c \in Calls, Swap(c)
    PROVE  Inv'
<1> DEFINE v == fetch[c].version
<1>1. /\ fetch \in [Calls -> FetchType] /\ Sound(fetch[c])
      /\ fetch[c].at = "parse" /\ fetch[c].todo = {}
      /\ UNCHANGED <<published, keycloak>>
  BY DEF Inv, TypeOK, Swap
<1>2. CASE fetch[c].built = {} /\ Fail(c)
  BY <1>1, <1>2, FailInv
<1>3. CASE /\ fetch[c].built # {} /\ keys' = fetch[c].built /\ asOf' = v
           /\ process' = "serving" /\ fetch' = [fetch EXCEPT ![c] = NoFetch]
           /\ UNCHANGED due
  <2>1. /\ v \in 1 .. Current /\ v \in 0 .. MaxPublished
        /\ fetch[c].built \in SUBSET Kids
    BY <1>1 DEF Sound, FetchType
  <2>2. RSAKeys(published[v]) = fetch[c].built /\ Usable(published[v])
    <3>1. RSAKeys({}) = {}
      BY DEF RSAKeys
    <3> QED BY <1>1, <1>3, <3>1 DEF Sound, Usable
  <2>3. \A d \in Calls : fetch'[d].at = "idle"
    <3>1. \A d \in Calls : d # c => fetch[d].at = "idle"
      BY <1>1 DEF Inv, OneFetch
    <3> QED BY <1>1, <1>3, <3>1, NoFetchType
  <2>4. TypeOK'
    <3>1. fetch' \in [Calls -> FetchType]
      BY <1>1, <1>3, NoFetchType
    <3> HIDE DEF v
    <3> QED BY <1>1, <1>3, <2>1, <3>1 DEF Inv, TypeOK, Current
  <2>5. OneFetch' /\ (\A d \in Calls : Sound(fetch[d]))'
    BY <2>3 DEF OneFetch, Sound
  <2>6. CacheSound'
    <3> HIDE DEF v
    <3>1. v \in 0 .. Current
      BY <2>1
    <3> QED BY <1>1, <1>3, <2>1, <2>2, <3>1 DEF CacheSound, Usable, Current
  <2> QED BY <2>4, <2>5, <2>6 DEF Inv
<1> QED BY <1>1, <1>2, <1>3 DEF Swap

\* Every step keeps the invariant.
LEMMA NextInv == Inv /\ [Next]_vars => Inv'
<1> SUFFICES ASSUME Inv, [Next]_vars PROVE Inv'
    OBVIOUS
<1>1. CASE UNCHANGED vars
  BY <1>1 DEF vars, Inv, TypeOK, OneFetch, Sound, CacheSound, Current, Usable
<1>2. ASSUME NEW d \in Documents, Publish(d) PROVE Inv'
  BY <1>2, PublishInv
<1>3. ASSUME NEW x \in Conditions, ChangeCondition(x) PROVE Inv'
  BY <1>3 DEF ChangeCondition, Inv, TypeOK, OneFetch, Sound, CacheSound, Current
<1>4. CASE Crash
  BY <1>4, GoneInv DEF Crash
<1>5. CASE Start
  <2>1. fetch = NoFetches /\ due' \in BOOLEAN
    BY <1>5 DEF Start, Inv, CacheSound, TypeOK
  <2> QED BY <1>5, <2>1, SendInv DEF Start
<1>6. CASE Tick
  BY <1>6 DEF Tick, Inv, TypeOK, OneFetch, Sound, CacheSound, Current
<1>7. ASSUME NEW c \in Calls, BeginRefresh(c) PROVE Inv'
  <2>1. due' \in BOOLEAN
    BY <1>7 DEF BeginRefresh
  <2> QED BY <1>7, <2>1, SendInv DEF BeginRefresh
<1>8. ASSUME NEW c \in Calls, RefreshStep(c) PROVE Inv'
  <2>1. CASE KeycloakAnswers(c)
    BY <2>1, KeycloakAnswersInv
  <2>2. CASE RequestFails(c)
    <3>1. Fail(c) /\ UNCHANGED <<published, keycloak>> /\ fetch[c].at # "idle"
      BY <2>2 DEF RequestFails
    <3> QED BY <3>1, FailInv
  <2>3. CASE Timeout(c)
    <3>1. Fail(c) /\ UNCHANGED <<published, keycloak>> /\ fetch[c].at # "idle"
      BY <2>3 DEF Timeout
    <3> QED BY <3>1, FailInv
  <2>4. CASE ReadReply(c)
    BY <2>4, ReadReplyInv
  <2>5. CASE Swap(c)
    BY <2>5, SwapInv
  <2>6. ASSUME NEW k \in fetch[c].todo, ParseKey(c, k) PROVE Inv'
    <3>1. fetch[c].at = "parse" /\ fetch[c].at # "idle" /\ UNCHANGED <<published, keycloak>>
      BY <2>6 DEF ParseKey
    <3>2. CASE Fail(c)
      BY <3>1, <3>2, FailInv
    <3>3. CASE /\ k.kty = "RSA" => k.wellFormed
               /\ Parsed(c, k) /\ UNCHANGED <<process, keys, due, asOf>>
      BY <3>1, <3>3, ParsedInv
    <3> QED BY <2>6, <3>2, <3>3 DEF ParseKey
  <2> QED BY <1>8, <2>1, <2>2, <2>3, <2>4, <2>5, <2>6 DEF RefreshStep
<1> QED BY <1>1, <1>2, <1>3, <1>4, <1>5, <1>6, <1>7, <1>8 DEF Next

\* The invariant holds in every reachable state of a JWKS cache.
THEOREM Invariance == Spec => []Inv
BY InitInv, NextInv, PTL DEF Spec

\* Every variable keeps its type.
THEOREM TypeCorrect == Spec => []TypeOK
<1>1. Inv => TypeOK
  BY DEF Inv
<1> QED BY <1>1, Invariance, PTL

\* A process that serves holds all the RSA keys of one published document, and
\* at least one: Refresh builds the map aside, refuses an empty one, and main
\* does not serve before the first Refresh succeeded.
THEOREM AlwaysOneDocument == Spec => []ServesOneDocument
<1>1. Inv => ServesOneDocument
  <2> SUFFICES ASSUME Inv, process = "serving" PROVE
        /\ \E kid \in Kids : kid \in keys
        /\ \E v \in 1 .. Current : Usable(published[v]) /\ keys = RSAKeys(published[v])
    BY DEF ServesOneDocument, KnownKey
  <2>1. asOf \in 1 .. Current /\ Usable(published[asOf]) /\ keys = RSAKeys(published[asOf])
    BY DEF Inv, CacheSound
  <2>2. keys # {} /\ keys \subseteq Kids
    BY <2>1 DEF Usable, Inv, TypeOK
  <2> QED BY <2>1, <2>2
<1> QED BY <1>1, Invariance, PTL

\* While a process serves, its cache changes only to a newer document, because
\* one goroutine makes one call of Refresh at a time.
THEOREM MovesForward == Spec => CacheMovesForward
<1>1. ASSUME Inv, [Next]_vars, process = "serving", process' = "serving", keys' # keys
      PROVE  asOf' > asOf
  <2>1. PICK c \in Calls : Swap(c)
    BY <1>1 DEF Next, vars, Publish, ChangeCondition, Crash, Gone, Start, Tick,
       BeginRefresh, RefreshStep, KeycloakAnswers, RequestFails, Timeout, Fail, ReadReply,
       ParseKey, Swap
  <2>2. /\ fetch[c].at = "parse" /\ fetch[c].todo = {}
        /\ keys' = fetch[c].built /\ asOf' = fetch[c].version
    BY <1>1, <2>1 DEF Swap, Fail
  <2>3. Sound(fetch[c])
    BY <1>1 DEF Inv
  <2>4. RSAKeys(published[fetch[c].version]) = fetch[c].built
    <3>1. RSAKeys({}) = {}
      BY DEF RSAKeys
    <3> QED BY <2>2, <2>3, <3>1 DEF Sound
  <2>5. keys = RSAKeys(published[asOf]) /\ asOf \in 1 .. Current
    BY <1>1 DEF Inv, CacheSound
  <2>6. fetch[c].version # asOf
    BY <1>1, <2>2, <2>4, <2>5
  <2>7. fetch[c].version \in 1 .. Current /\ fetch[c].version >= asOf
    BY <2>2, <2>3 DEF Sound
  <2>8. Current \in Nat
    BY <1>1 DEF Inv, TypeOK
  <2>9. fetch[c].version > asOf
    BY <2>5, <2>6, <2>7, <2>8
  <2> QED BY <2>2, <2>9
<1>2. Inv /\ [Next]_vars => [process = "serving" /\ process' = "serving" /\ keys' # keys
                              => asOf' > asOf]_vars
  BY <1>1
<1> QED BY <1>2, Invariance, PTL DEF Spec, CacheMovesForward

\* Every behaviour of the cache is one of KeyCache: a Swap publishes at once what
\* was built over many steps, and the other steps of a Refresh are invisible.
THEOREM Refinement == Spec => ImplementsKeyCache
<1>1. Init => Cache!Init
  BY DEF Init, Cache!Init
<1>2. ASSUME Inv, [Next]_vars PROVE [Cache!Next]_(Cache!vars)
  <2>1. CASE UNCHANGED <<published, keys, asOf>>
    BY <2>1 DEF Cache!vars
  <2>2. ASSUME NEW d \in Documents, Publish(d) PROVE Cache!Next
    BY <2>2 DEF Publish, Cache!Next, Cache!Publish
  <2>3. ASSUME Gone, UNCHANGED <<published, keycloak>> PROVE [Cache!Next]_(Cache!vars)
    <3>1. keys' = {} /\ asOf' = 0 /\ published' = published
      BY <2>3 DEF Gone
    <3>2. CASE process = "serving"
      <4>1. asOf # 0
        BY <1>2, <3>2 DEF Inv, CacheSound, TypeOK
      <4> QED BY <3>1, <4>1 DEF Cache!Next, Cache!Stop, Cache!Serving
    <3>3. CASE process # "serving"
      <4>1. asOf = 0 /\ keys = {}
        BY <1>2, <3>3 DEF Inv, CacheSound
      <4> QED BY <3>1, <4>1 DEF Cache!vars
    <3> QED BY <3>2, <3>3
  <2>4. ASSUME NEW c \in Calls, Swap(c), fetch[c].built # {}, keys' = fetch[c].built,
                asOf' = fetch[c].version
        PROVE  [Cache!Next]_(Cache!vars)
    <3> DEFINE v == fetch[c].version
    <3>1. fetch[c].at = "parse" /\ fetch[c].todo = {} /\ published' = published
      BY <2>4 DEF Swap
    <3>2. Sound(fetch[c])
      BY <1>2 DEF Inv
    <3>3. RSAKeys({}) = {}
      BY DEF RSAKeys
    <3>4. v \in 1 .. Current /\ v >= asOf
      BY <3>1, <3>2 DEF Sound
    <3>5. RSAKeys(published[v]) = keys' /\ Usable(published[v])
      <4>1. fetch[c].built # {}
        BY <2>4
      <4> QED BY <2>4, <3>1, <3>2, <3>3, <4>1 DEF Sound, Usable
    <3>6. Cache!Hold(v)
      BY <2>4, <3>1, <3>4, <3>5 DEF Cache!Hold, Current
    <3>7. asOf \in Nat /\ Current \in Nat /\ v \in 1 .. Len(published)
      BY <1>2, <3>4 DEF Inv, TypeOK, Current
    <3>8. CASE asOf = 0
      BY <3>6, <3>7, <3>8 DEF Cache!Next, Cache!Start, Cache!Serving
    <3>9. CASE asOf # 0 /\ v > asOf
      BY <3>6, <3>7, <3>9 DEF Cache!Next, Cache!Refresh, Cache!Serving
    <3>10. CASE asOf # 0 /\ v = asOf
      <4>1. keys = RSAKeys(published[asOf])
        BY <1>2, <3>10 DEF Inv, CacheSound
      <4> QED BY <2>4, <3>1, <3>5, <3>10, <4>1 DEF Cache!vars
    <3> QED BY <3>4, <3>7, <3>8, <3>9, <3>10
  <2>5. ASSUME NEW c \in Calls, Fail(c), UNCHANGED <<published, keycloak>>
        PROVE  [Cache!Next]_(Cache!vars)
    <3>1. CASE process = "booting"
      BY <2>3, <2>5, <3>1 DEF Fail
    <3>2. CASE process # "booting"
      BY <2>1, <2>5, <3>2 DEF Fail
    <3> QED BY <3>1, <3>2
  <2>6. ASSUME NEW c \in Calls, RefreshStep(c) PROVE [Cache!Next]_(Cache!vars)
    <3>1. CASE KeycloakAnswers(c) \/ ReadReply(c)
      BY <2>1, <3>1 DEF KeycloakAnswers, ReadReply
    <3>2. CASE RequestFails(c) \/ Timeout(c)
      BY <2>5, <3>2 DEF RequestFails, Timeout
    <3>3. CASE Swap(c)
      BY <2>4, <2>5, <3>3 DEF Swap
    <3>4. ASSUME NEW k \in fetch[c].todo, ParseKey(c, k) PROVE [Cache!Next]_(Cache!vars)
      BY <2>1, <2>5, <3>4 DEF ParseKey
    <3> QED BY <2>6, <3>1, <3>2, <3>3, <3>4 DEF RefreshStep
  <2>7. CASE Crash
    BY <2>3, <2>7 DEF Crash
  <2>8. CASE \/ \E x \in Conditions : ChangeCondition(x)
             \/ Start \/ Tick \/ \E c \in Calls : BeginRefresh(c)
    BY <2>1, <2>8 DEF ChangeCondition, Start, Tick, BeginRefresh
  <2>9. CASE UNCHANGED vars
    BY <2>1, <2>9 DEF vars
  <2> QED BY <1>2, <2>2, <2>6, <2>7, <2>8, <2>9 DEF Next
<1> QED BY <1>1, <1>2, Invariance, PTL DEF Spec, ImplementsKeyCache, Cache!Spec
=============================================================================
