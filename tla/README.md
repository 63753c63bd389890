# QuestLog: a TLA+ model of identity and authentication

QuestLog's implemented core (phases 0 to 3 of `PLAN.md`) is its identity and
authentication: two Next.js apps sign users in through Keycloak, a Go API keeps a
local profile row per Keycloak identity, and both Go APIs check Keycloak's tokens
against a key cache of their own. The catalog, review, social and list contexts
are empty directories at this commit. This project models the parts where
processes, statements, messages and failures interleave.

## The system

| Part | Code | State it keeps | Operations |
|---|---|---|---|
| Profile sync | `backend/internal/identity`, `POST /auth/sync` | the table `identity.user_profiles` (unique `keycloak_id`, unique `username`) | find, validate, `INSERT ... ON CONFLICT DO NOTHING`, re-select, answer |
| Key cache | `backend/internal/shared/authmw/jwks.go` | `JWKS.keys`, one ticker goroutine | startup `Refresh`, background `Refresh`, `Keyfunc` |
| Token check | `authmw/middleware.go` | none | `RequireAuth`, `RequireRole` |
| Sign-in and sync client | `packages/auth/src/config.ts` | the Auth.js JWT: access token, roles | `jwt` callback, `syncProfile` (two attempts of 5 s), `session` callback |
| Apps | `apps/web`, `apps/admin`, `packages/auth` | session and flow cookies in one cookie jar | sign in, sign out, the admin gate in layout and page |
| Start-up | `cmd/public-api`, `cmd/admin-api`, `cmd/migrate`, `deploy/docker-compose.yml` | schema version, process state | migrate, first key fetch, listen |

How they interact: a browser signs in at Keycloak; the app's `jwt` callback gets
the access token, copies the realm roles out of it and posts it to
`public-api /auth/sync`; `RequireAuth` looks its key up in the cache that the
background goroutine refreshes from Keycloak; the handler then finds or creates
the profile row. The only shared mutable states are the table (shared by all
requests), the key map (goroutine and requests) and the cookie jar (both apps).

What is hard: the find-then-insert of concurrent first logins; a re-select after
the row is gone; a commit whose reply is lost and is then retried; a Keycloak
whose realm is imported afresh while Postgres persists; key rotation, outages and
hangs during a refresh; a client timeout while its handler keeps running; more
requests than connections; sign-ins of two apps that overlap in one cookie jar;
roles copied into tokens and sessions; a start that dies half way through its
migration. `PROJECT.json` lists each with its line.

What makes each part correct:

* profile sync: one row per identity and per username, never changed by sync; a
  caller only ever gets its own identity's row; an identity that has its profile all
  along is never refused (that a conflict is always with another identity is what the
  comments say, and is not so: see the runs); fewer hanging statements than
  connections cost nobody else an answer;
* key cache: what is served with is all of one published document; it never goes
  back; failures leave it alone; every refresh returns; it becomes fresh;
* token check: only what a login of the realm through a trusted client produced
  gets in, it is only turned away for its age or its key, and a role that has been
  taken away is gone with the token;
* sign-in: it always completes, what it takes for synced is its own profile, its token
  is only turned away for a key the API lacks, and what it logs about the profile is
  true (its verdicts on a 401, on a 409 and on giving up are not always: see the runs);
* apps: one app's cookies never act in the other, and what the admin gate
  protects is neither shown nor sent;
* start-up: a process that runs has its schema, nothing in the order of the start makes
  it fail but a health check that passes too early or too late, and what is configured
  comes to serve.

## Modules

| Module | Models |
|---|---|
| `IdentitySync` | the concurrent `/auth/sync` handlers, statement by statement |
| `ProfileRegistry` | the abstract specification: sync as a call decided at one moment |
| `MCIdentitySync` | the instance of both for TLC |
| `IdentitySyncProofs`, `SyncRefinementProofs` | the proofs about them |
| `JWKSCache` | the key cache of one API process against Keycloak |
| `MCJWKSCache` | its instance for TLC |
| `KeyCache` | the abstract specification: a cache that moves between documents in one step |
| `JWKSCacheProofs` | the proofs about both |
| `PooledSync`, `MCPooledSync` | `IdentitySync` behind the connection pool, and its instance |
| `PooledSyncProofs` | the proofs about the pool |
| `RequireAuth` | the middlewares' decisions about a token, the cached keys and the clock |
| `ServiceEnv` | required environment variables and lists of them |
| `ApiAccess`, `MCApiAccess` | who gets into one API: `KeyCache`, `RequireAuth` and `ServiceEnv` composed with Keycloak and time; the instance has public-api and admin-api |
| `ApiAccessProofs` | the proofs about it |
| `SignIn` | sign-ins with their sync attempts, composed with `ProfileRegistry`, `KeyCache` and `RequireAuth` |
| `MCSignIn` | its instances for TLC |
| `SignInProofs` | the proofs about it |
| `Sessions`, `MCSessions` | one browser, two apps, one cookie jar; deployed as they are, with one prefix, with one secret |
| `SessionsProofs` | the proofs about it |
| `Startup` | `docker compose up`: health, migration, first key fetch, listener |
| `StartupProofs` | the proofs about it |

`SignIn` and `ApiAccess` are built on abstract specifications and not on the detailed
modules. That is sound because the detailed ones are proved to implement them,
and it is what keeps two sign-ins of two attempts small enough to check:

```
   ServiceEnv      <--+
   RequireAuth     <--+--uses--  ApiAccess
   KeyCache        <--+
      ^   implemented by  JWKSCache

   RequireAuth     <--+
   KeyCache        <--+--uses--  SignIn
   ProfileRegistry <--+
      ^   implemented by  IdentitySync  <--implements--  PooledSync

   Sessions, Startup: on their own
```

`Startup` and `JWKSCache` overlap in the first key fetch: the former has the order of
the processes, the latter what the fetch leaves in the cache. `Sessions` and `SignIn`
overlap in the `jwt` callback: the former has the cookies and the roles, the latter
the sync.

Operators named `Operation_Variant` and commented "Mutant" are wrong forms of an
operation, a plausible bug each. No specification uses them; `PROJECT.json` says
which property each one breaks, which shows that the property can fail.

### IdentitySync

`profiles` is the table, `pc[r]` the statement request `r` waits on, `claims[r]`
the validated claims it carries and `result[r]` what `EnsureProfile` returned.
A handler is cut at its statements, because that is where other requests get in
between:

| Action | Code |
|---|---|
| `Receive` | `Handle` up to `EnsureProfile`: `uuid.Parse` of the subject |
| `FindHit`, `FindMiss` | `FindByKeycloakID` and what follows it: return the row, or validate |
| `ProbeArbiter`, `WriteIndexes` | the INSERT as Postgres runs it, in two steps |
| `InsertReplyLost` | the INSERT commits, the driver reports an error |
| `Reselect` | the second `FindByKeycloakID`, which may find nothing |
| `StatementFails` | any statement returns an error without effect |
| `Respond` | the response is written; which status stands for which result is `SignIn!StatusOf` |
| `Crash` | the process dies; the table stays |
| `CustomizeProfile`, `DeleteProfile` | the table is changed outside of sync (external) |

The row's id is the request that inserted it, which stands for a fresh
`gen_random_uuid()`. The timestamps and `suspended` are left out: sync never reads
them. A profile returned to the caller keeps its `keycloakId` in the model so
that a property can say whose it is. A handler that died after sending its INSERT
is indistinguishable, for everybody else, from one that died after it committed
or before it was sent, so `Crash` needs no statement that outlives its handler.

The INSERT takes two steps because Postgres documents `ON CONFLICT (keycloak_id)` for
the arbiter index only: it probes that index, and when it then enters the row, a
duplicate in any other unique index raises 23505, even if the duplicate is a row of
the same identity that another transaction entered after the probe. The comment on
`Insert` takes it for one step; what follows for callers is the matter of
`sync_false_conflict`.

`Unanswered` are the requests one of whose statements Postgres may leave without an
answer: nothing in the code bounds a statement, so fairness is only assumed of the
others.

### ProfileRegistry

A call is open until it is decided in one step: return the identity's row, create it,
reject it, or fail internally, with or without the row created. A call may only
create, or be refused a name that some row holds, once it is `creating`, and `Miss`
takes it there at a moment at which its identity has no row and its claims would make
one. So an identity that has its profile all along is never refused; one that is
given it meanwhile may be, by that very row. `IdentitySync` implements it under the
mapping (`PhaseOf`) that shows a request waiting on the find as open and one waiting
on any later statement as creating.

### PooledSync

`held` is the set of connections in use, each with the request and the statement
it is for; `MaxConns` is the size of the pool. `Acquire` is `QueryRow` getting one,
`Execute` a step of the statement (of `IdentitySync`) with it, and `Release` is what
`Scan` does, with a row or with an error. `AcquireFails` is a pool that cannot open a
connection. `PooledSync` implements `IdentitySync!FairSpec`: the fairness that
`IdentitySync` assumes of a handler is a consequence of a pool that serves its
waiters in order, because no handler waits for a connection while it keeps another
(the mutant `Release_AfterReselect` does, and deadlocks).

A statement that is never answered keeps its connection for good. `OthersEnd` says what
that costs: while fewer statements hang than there are connections, every other
request still ends. With as many as there are connections the others starve (with
`MaxConns` 1 and one request in `Unanswered` TLC refutes the conclusion), so the
premise is the whole truth about a code without deadlines.

### JWKSCache

`published` is the list of documents Keycloak has published, `keycloak` how it
treats a request now, `process` the API process, `keys` the cache, `due` the tick
waiting in the ticker's channel of capacity one, and `fetch[c]` each activation of
`Refresh`. `asOf` is a history variable: the document the cache was read from.
There are two activations so that it is the code's sequential loop
(`BeginRefresh` waits for the previous call), not the shape of the model, that
keeps replies in order. Entries are parsed one by one into a map of their own;
`Keyfunc` may look between any two of them. A key stands for its `kid`.
`Start` has no bound because it adds no state; the operator may start the process
again at any time, as nothing in the compose file does it.

### KeyCache

What users of the cache see: a process starts with the keys of a usable document,
moves to later ones in single steps (`Hold`), and loses everything when it stops.
A start or a move may land on a document that is already superseded, because a
reply can be overtaken by a rotation. `JWKSCache` implements it with its history
variable `asOf`.

### SignIn

`app[s]` is where the `jwt` callback of sign-in `s` stands and what it logged,
`token[s]` the access token it holds, `wire[<<s, n>>]` what has become of the
request of its attempt `n`, and `status[<<s, n>>]` what that was answered with.

| Action | Code |
|---|---|
| `JwtCallback` | the callback with `account` set: keep the token, start the first `fetch` |
| `HearAnswer` | `res.ok`, `res.status < 500`, or another attempt |
| `ConnectionFails`, `Timeout` | `fetch` throws: refused, reset, or aborted after 5 s |
| `Retry` | the pause is over, the next attempt starts |
| `Arrive` | `RequireAuth` in front of the handler: 401, or `Registry!Call` |
| `Decide`, `Answer` | `EnsureProfile` and the status it is answered with |
| `StartApi`, `LearnKeys`, `StopApi` | the process and its key cache |
| `Rotate`, `RemoveProfile` | Keycloak's keys; a profile removed outside of sync |

An attempt that timed out leaves its request where it was if public-api has it: not
read yet, or in a handler that runs on. It may be decided and answered long after the
sign-in ended. A request that has no connection yet (`Unconnected`: sent while nobody
listens) is given up with its attempt, and a process that stops takes with it what it
has read and what waits on its socket; a process started later reads neither.
`StatusOf` covers every error of handler and service, the 400s for a subject that is
no UUID or the zero one among them, although Keycloak issues no such subject. Tokens come from Keycloak's token endpoint only (a server-to-server
call), they do not expire within the seconds of a sign-in, and their subjects are
UUIDs. Edits of a profile are left out: no property here looks at a bio. The roles
the callback copies are the matter of `Sessions`.

### RequireAuth, ServiceEnv and ApiAccess

`RequireAuth` has no state. A token is a record: `alg`, `kid`, the key that signed it,
`iss`, `exp`, `azp`, `user`, `roles`; a missing claim is what it decodes to (`Blank`, or
0 for `exp`). One operator stands for each thing the parser and the middlewares ask
of it. `ServiceEnv` is `env.go`: a list is the sequence of what stands between its
commas, each piece a name or nothing, with or without spaces around it.

| Action of `ApiAccess` | Code |
|---|---|
| `Start` | `main`: `MustEnv`, `MustEnvList`, the first key fetch (`KeyCache!Start`) |
| `LearnKeys`, `Stop` | the background refresh; the end of the process |
| `Request` | `RequireAuth`, then `RequireRole`, with the answer 200, 401 or 403 |
| `Login`, `ChangeRoles`, `Rotate` | Keycloak: a token with the roles of now; its administrator; its keys |
| `Tick` | time |

`api` is the API, with the roles its route requires, the clients it is meant to trust
and the environment of its process. `tokens` holds what logins produced, `Strays` what none did: no token, another issuer,
no expiry, no `azp`, other algorithms, another key. `changed` is history: when the roles
of a user last changed. A request is one step: the middlewares wait for nobody
between their checks. API and Keycloak share one clock, so its skew is left out.

### Sessions

`deployed` is the prefixes and secrets the apps are given, `jar` the browser's cookies
by name, each sealed with a key that Auth.js derives from the app's secret and the
cookie's name; `flow[f]` where sign-in `f` stands; `sso` Keycloak's session; `admins`
who has the role now. Two things are history: `own`, the session each app's last
sign-in made, and the field `disturbed` of a sign-in, which is set when its flow cookie
expires and when it and another sign-in of its app are under way at the same time. One flow cookie stands for the verifier, the state and the
nonce, which are set and read together.

| Action | Code |
|---|---|
| `BeginSignIn` | `signIn("keycloak")` of either app: the flow cookie is set |
| `Authenticate` | Keycloak's form, or its session unless `prompt=login` asks for the form |
| `CallbackSucceeds` | the callback with its own verifier: the `jwt` callback copies the roles, the session cookie is set |
| `CallbackFails` | another verifier, or none; the flow cookie may or may not be cleared |
| `ExchangeFails` | the verifier is there, and Keycloak does not exchange the code |
| `FlowCookieExpires` | the user takes longer than a flow cookie lives |
| `EndSession` | `signOut()`, or the session's age; Keycloak's session stays |
| `EndSso`, `ChangeRole` | Keycloak and its administrator |

`Displayed` is the gate of `layout.tsx` and `Sent` that of `page.tsx`. Both read the roles
copied at sign-in, and nothing refreshes the copy: a user who loses the admin role keeps
the portal until the session ends (`ChangeRole` touches no session). The Go APIs lag by at
most the lifetime of a token, which `RolesLagAtMostALifetime` says; for the portal there
is no such bound to state, and `PortalOnlyForAdmins` is about the role held at sign-in.

### Startup

`stage[s]` is where the container of service `s` stands and `schema` what the volume
holds: whether a postgres has set it up, the version, the dirty mark and whether the
table is there. `missing[a]` is a variable that API `a` is not given. `trouble` is
history: since the last `up` something died, the stack was taken down, the schema was
dirty from the start, or a health check used up its retries or passed too early.

| Action | Code |
|---|---|
| `Up`, `Launch` | compose: `depends_on` |
| `BecomeHealthy`, `RunOutOfRetries` | a health check passes; it is still failing after its retries, and what depends on it is not started |
| `OpenTcp` | the first start of postgres: the server that set the volume up gives way to the one that listens |
| `ReadVersion`, `ApplyUp`, `ClearMark` | `m.Up()`: read the version, mark it dirty; the migration; clear the mark |
| `FetchKeys`, `Listen` | `main` of both APIs, up to the first fetch and up to the port |
| `Die`, `Repair`, `Down` | a process dies anywhere; `migrate force`; `down` with or without `-v` |

The migration's statements are sent as one and Postgres runs them as one transaction,
so a death leaves the table or does not, and the mark in either case. `Repair` sets the
version that is really there: an operator who looks. An `up` is given once the last one
has returned, that is, when no service waits. No service has a restart policy.

The two health checks promise different things. Keycloak's asks for the very key
document the APIs fetch. Postgres's is `pg_isready` on the Unix socket, which answers on
the first start of a volume while the image still sets it up with a server that accepts
no TCP (`early`): `migrate` is then started and refused, the APIs are never started, and
it takes another `up`. A check that passes after its retries comes too late for what
waited on it (`unhealthy`, then healthy). Both are exceptions that `NoStartupRace` and
`ComesUp` name; `RunsOnItsSchema` has none. A postgres that dies while it sets its volume
up leaves, in the model, a volume that is set up by the next start.

## Runs

| Run | Question | Bounds |
|---|---|---|
| `sync_safety` | is the table sound, is each answer the caller's own, and does a call look like one decision? | 3 requests, 2 identities, 2 usernames, 2 bios, 6 kinds of claims |
| `sync_false_conflict` | is "username taken" only said of another identity's name? Violated, see below | 3 requests, 3 kinds of claims |
| `jwks_cache` | what does a process serve with, does it look like an atomic cache, and does it become fresh? | 5 kinds of document, at most 3 published, 2 activations |
| `sign_in_race` | do time-outs, retries and late handlers of two sign-ins ever hand over somebody else's profile? | 2 sign-ins of 2 attempts, 3 kinds of claims, one key document |
| `sign_in_keys` | what do key rotation and restarts do to a sign-in, and does it end? | 1 sign-in of 2 attempts, 4 kinds of claims, at most 3 documents published |
| `sign_in_rejected` | is a 401 for good? Violated, see below | 1 sign-in, at most 2 documents published |
| `sign_in_gave_up` | does giving up mean that there is no profile row? Violated, see below | 1 sign-in, one document |
| `sign_in_conflict` | does a 409 mean another account has the name? Violated, see below | 1 sign-in of the only account |
| `pooled_sync` | do fewer connections than requests change anything, and what does a statement cost that is never answered? | 3 requests, 1 of which may hang, 2 connections, 3 kinds of claims |
| `api_access` | who gets into each API, and how long does a revoked role last? | 1 user, 2 roles, 3 clients, 1 login, 8 strays, 2 APIs in 5 environments each, 5 instants, 2 documents published |
| `startup` | can the order of a start, its repetition or its interruption break it? | every service, health checks that pass early, late or never in time, any one variable missing in each API |
| `sessions` | which setting keeps the apps apart, and is admin never entered silently? | 2 users, 3 sign-ins; distinct prefixes, distinct secrets, or both |

Three requests suffice for the races at hand: a winner, a loser, and one that
comes later or changes the username meanwhile. The claims hold one identity under
two names (a rename), two identities under one name (a realm imported again), the
zero UUID, a subject that is no UUID and an empty name. One picture is enough:
nothing compares pictures, and edits show in the bio. Three documents give every
rotation (before, during, after) and a broken or keyless document between good
ones. `SyncAttempts` is the code's 2. The races of two sign-ins do not depend on
keys and the effect of keys on a sign-in does not depend on another one, so the
two questions get a run each; public-api may stop and start again any number of
times in both. Two connections for three requests make somebody wait, and let two
requests that each held one while asking for another wait for each other; the INSERTs
of a winner and a loser need no third. A lifetime
of two instants in five (`MaxTime`) lets a token be used before, at and after its end
on either side of a change of roles; one token of one user is enough because the
answer to a request depends on no other. `MaxTokens` and `MaxPublished` are guards of
`Login` and `Rotate`. Three sign-ins give each app one and one of them a second, which
may begin before or after any step of the others. The two settings that keep sessions
apart are checked together and each without the other, since either is meant to be
enough for what it is for; a deployment is chosen at the start and stays.
`Startup` needs no bound: stages, versions and variables are finite, and `up`, `down`
and deaths may be repeated for ever. The safety runs use symmetry in the requests or sign-ins, which no
definition tells apart; the liveness runs use none. Deadlock is not an error in the sync runs: when
every request is answered and the table is empty nothing is left to do.

### What `sync_false_conflict` shows

`sync.go:28-30` promises that the losing call of two first logins "still returns
the winner's profile instead of an error", and `domain/repository.go` reserves
`ErrUsernameTaken` for another `keycloak_id`. In the run, two requests of one
identity both probe the arbiter index before either row exists; the first enters
its row; the second then meets that row in `user_profiles_username_key`, which
is not the arbiter, and `Insert` turns the 23505 into `ErrUsernameTaken`: the
loser is answered 409 by its own row. A retry of the request is answered 200. That the
INSERT takes two steps is Postgres's behaviour, not code of this repository. The promise
that holds instead is `ImplementsRegistry`'s: a refusal follows a moment of the same call
at which the caller had no profile.

### What `sign_in_conflict` shows

`config.ts:170-172` reads a 409 as "the username belongs to another account", which
retrying cannot change. In the run there is one account and one sign-in. Its first
attempt is aborted while its handler has found no row and is about to insert one; the
second attempt finds no row either; the first handler enters the row; the second is
refused the name and answered 409. The sign-in is logged as rejected, for a name that
its own account holds. `SignIn` takes the refusal from `ProfileRegistry`, which allows it
to a call that was creating when its identity was given the row; that the statements
really get there is what `sync_false_conflict` shows.

### What `sign_in_rejected` shows

`config.ts:170-172` takes every 4xx for a verdict that retrying cannot change. In
the run, Keycloak rotates its key after public-api fetched its keys; a user signs
in and gets a token signed with the new key; `Keyfunc` does not know it, the answer
is 401, and the sign-in ends without a profile and without its second attempt;
then the refresh of at most ten minutes later brings the key in, and the same token
would pass. `RejectedOnlyForItsKey`, which holds, says that this is the only way a
token Keycloak just issued is turned away.

### What `sign_in_gave_up` shows

After its last attempt the callback logs "this account has no profile row until its
next sign-in". In the run the last attempt times out while the API still has its
request; the sign-in ends; then the handler inserts the row. The property only
asks that this very sign-in creates no row, which is the most favourable reading.

## Fairness

* `IdentitySync!FairSpec`: each handler that can step does, unless its request is in
  `Unanswered`: a goroutine is scheduled. The code sets no deadline on a statement, so
  that Postgres answers every one of them is not assumed.
* `JWKSCache!FairSpec`: the ticker fires, the loop receives, and a `Refresh`
  makes progress: a Keycloak that is up answers, a refused or broken request
  returns an error, a hung one runs into `httpClient`'s timeout. Nothing is
  assumed of Keycloak's condition or of anybody restarting the process.
  `EventuallyFresh` holds under the premise that Keycloak ends up staying up with
  a usable document.
* `SignIn!FairSpec`: each callback that can step does: the apps' event loop runs
  and the abort timer fires. Nothing is assumed of public-api, Postgres or
  Keycloak, and that is the point of `SignInEnds`.
* `PooledSync!PooledFairSpec`: a request that can have a connection gets one (the pool
  serves its waiters in their order), and one that has it goes on, as above.
* `Startup!FairSpec`: compose launches what may be launched, health checks come to
  pass, in time or not, a postgres that sets its volume up gets to listen, and the steps
  of `migrate` and of both `main`s are taken. Nothing is assumed of the operator.
  `ComesUp` is about a start without `trouble`.

`ApiAccess` and `Sessions` state safety only: nothing in them waits for anything.

## Proofs

`IdentitySyncProofs` proves, for any sets of requests, identities, names and
bios, what TLC checks on three requests. The inductive
invariant `Inv` adds to the properties what they rest on:

* `Arrived`, `Validated`: a handler that waits on its INSERT carries claims that
  `NewUserProfile` accepted, so only valid rows are stored;
* `Origins`: every row, stored or already returned to somebody, comes from the
  request its id names and belongs to that request's identity. It links answers
  given earlier to rows that live now: two surviving rows returned to one identity
  have one `keycloakId`, so `UniqueKeys` makes them one row.

A handler step is one of four kinds (move on, return, store, respond), each with
a lemma that it preserves `Inv`; `HandlerInv` sorts the actions into them. The
action properties (`OnlyCreates`, `ReturnsRows`) follow from
`Inv` and `OwnStep`: short of a crash, only its own step moves a handler.

`SyncRefinementProofs` proves `Linearizable`: every behaviour of the handlers is one of
`ProfileRegistry`. A find without a row and with valid claims is mapped to `Miss`, a
handler's decision to the statement after which it only responds; its other statements
stutter.

`JWKSCacheProofs` proves type correctness, `ServesOneDocument`,
`CacheMovesForward` and the refinement of `KeyCache` for any documents, publications and activations. Its
invariant `Inv` adds

* `OneFetch`: at most one call of `Refresh` is in progress, which is what the
  sequential loop of `StartBackgroundRefresh` gives;
* `Sound`: what a call was sent is a published document, at least as new as the
  cache; the map it builds holds the keys of exactly the entries it has parsed,
  all of which decode;
* `CacheSound`: the cache of a process that serves is the document `asOf` names,
  and a process that does not serve has none.

`Sound` needs `OneFetch`: with two calls the older reply could be applied last,
which is the mutant `BeginRefresh_Overlapping`. A call that moves on is one lemma
(`MoveInv`), used for every step of a `Refresh` but the swap. For the refinement a
swap is mapped to `Start`, to `Refresh` or, when it brings the document the cache
already holds, to no step; a failure of the first fetch is no step either, because
the process never served.

`ApiAccessProofs` proves all four invariants of `ApiAccess` for any API, environment,
users, roles, clients and documents, and any number of logins, role changes, rotations
and ticks. Its invariant `Inv` adds

* `Published`: there is always a document, so the key Keycloak signs with, which `TypeOK`
  takes from the last one, is a real one;
* `ListensConfigured`: a process that serves got past `main`'s checks of its environment;
* `Issued`: every token is signed with the key it names and expires within one lifetime
  from now, and one whose roles are not its user's was issued before they changed. The
  last part is why a revoked role lags by one lifetime and no more.

`AllowList` is the lemma about the environment: a list that `main` accepts holds exactly
the clients `ApisAssumption` lets it name, whatever blanks stand between them. `AuthenticatedIsLogin` and `LoginIsAuthenticated` say that
`RequireAuth` admits exactly the tokens that a login for a trusted client issued, of those
in date and signed with a held key; the two request invariants follow from them.

`CacheKept` shows that an API's steps are steps of `KeyCache`.

`PooledSyncProofs` proves, for a pool of any size, that every behaviour of the pooled
handlers is one of `IdentitySync` (`PoolIsTransparent`), so all that is proved there holds
behind the pool (`PooledAnswersAreSound` says it of the table and the answers,
`PooledLinearizable` of the registry). On top of
`TypeOK`, which comes from there, `PoolInv` is inductive: a connection in use belongs to
the statement its request waits on (`HeldOnlyByItsStatement`), and there are at most
`MaxConns` of them. `NoHoldAndWait` follows, and is why the pool cannot come to a
standstill: whoever waits for a connection keeps none.

`SignInProofs` proves the three safety properties of `SignIn` for any sign-ins, attempts,
clients, claims and key documents. The inductive invariant `Inv` follows an answer back to
its token:

* `Heard`: what a callback took for synced is a 200, which was given for a call that the
  registry decided without an error;
* `HandedOut`, `CalledForToken`: such a call was handed a profile of its caller's
  identity, and it was made with the claims of its sign-in's token;
* `InTurn`: an attempt is sent once, after its callback has begun, and has no status and
  no call before it arrives; so an attempt that was given up keeps its own request, and a
  retry is another one;
* `Begun`: the token of a callback that has begun is one Keycloak issued, and an attempt
  is followed by another only while there is one left;
* `RegistryOK`, `Published`: the registry's calls are typed, and there is a document to
  sign with.

`TurnedAwayForTheKey` is an action property: `FreshTokenPasses` shows that a token the
callback holds passes every check of `RequireAuth` but the one for its key, and only
`Arrive` answers 401, since no error of the registry does. `PartsKept` shows that, seen apart, the registry and the
cache inside `SignIn` behave as `ProfileRegistry` and `KeyCache` say: nothing
in the composition asks more of them than `Linearizable` and `Refinement` give.

`SessionsProofs` proves the safety properties of `Sessions` for any users, any number of
sign-ins and any deployments in which prefixes or secrets differ. `CookiesApart` is the
lemma everything rests on: names never collide across kinds, nor across apps with prefixes
of their own, and sealing keys never collide at all. `Inv` adds

* `FlowCookieKept`: with distinct prefixes, a sign-in that is under way and undisturbed
  still finds its own flow cookie, and is the only one of its app that is under way. It
  makes `FailsOnlyForItsOwnApp` inductive: a callback that fails did not find its cookie;
* `Returned`: whoever comes back from Keycloak is a user, and typed credentials if the app
  asks for them;
* `OwnSession`: the session an app's last sign-in made is one of that app, typed for if
  the app asks for it.

`GateIsSound` follows from `NeverTheOthersSession` alone: a session that admin accepts is
the one its own last sign-in made. `CredentialsAreTyped` assumes that admin is among the
apps with `prompt=login`, as `docker-compose.yml:167` has it; without it the property is
false, and the mutant `MustType_IfSignedOut` shows a weaker prompt that is not enough.

`StartupProofs` proves the safety properties of `Startup` for starts, deaths, repairs and
`down`s in any number and order, and any variable missing. `Inv` adds

* `SchemaSound`: without the dirty mark, version 1 and the table go together; while a
  migration is under way the mark is there, and the table exactly when it was applied;
* `Untroubled`: as long as nothing has gone wrong, only a migration under way is dirty,
  `migrate` connects to a Postgres that Compose calls healthy, a migration under way and
  an API that boots have a Postgres and a Keycloak that are.

`RunsOnItsSchema` needs the first: an API is launched when `migrate` is done, and it is done
only with the table there and the mark cleared. `NoStartupRace` needs the second: every way
to fail is then a missing variable, or sets `trouble` itself: being refused by a Postgres
that was called healthy too early (`TooEarly`).

### What the proofs assume

Only the named assumptions of the modules, which TLC evaluates in the runs:

* bounds are positive numbers, and what is typed as a document, a claim or a deployment is
  one; some document may be published; what an API is started with names its own realm
  and clients, if any (`ApisAssumption`); a stray token differs from every login's in some
  field (`StraysAssumption`); prefixes or secrets differ (`DeploymentsAssumption`);
* the sentinel values are none of the real ones (`NoTokenAssumption`, `NoProfileAssumption`,
  `SentinelsAssumption` and their like): `NoToken` is not a token, `NoCookie` not a cookie.

One theorem has a hypothesis of its own: `CredentialsAreTyped` (`"admin" \in PromptLogin`).

### What is only model-checked

Every safety property of every passing run is proved. What stays with TLC is
what happens under fairness, which the prover cannot reason about (it has no rules for
`ENABLED`): `OthersEnd`, `RefreshEnds`, `EventuallyFresh`, `SignInEnds`, `ComesUp`,
and of `ImplementsFairSync` the fairness it promises, `PoolIsTransparent` being its safety
half. The four violated properties are refuted by their runs.

## Not modelled

Generated API types, the health endpoint, UI, i18n and design hold no state worth
checking; the four empty contexts have no code. The handler's own 401, and that of
`/admin/whoami`, cannot be reached behind the middlewares. `rsaPublicKeyFromJWK` is
modelled by whether it succeeds: its arithmetic, where an entry without modulus
decodes to a key that verifies nothing, is not. How often a health check is tried and
the size of timeouts are left out (that retries run out is in), and so are a database that
is missing because postgres died while it set its volume up, and the skew between
Keycloak's clock and an API's. `web` and `admin` themselves keep nothing and need nothing to start; a sign-in
that comes before public-api listens is one of `SignIn`'s.

## Plan

The plan of this project is carried out: every component with state is modelled,
composed, checked, and proved as far as safety goes. What is left is about its edges:

1. Theorems about the abstract specifications alone (what `ProfileRegistry` and `KeyCache`
   promise by themselves), so that a user of theirs need not go through
   `IdentitySync` or `JWKSCache` to know it.
2. When the code gets its next context (catalog, lists, review, social), its first handler
   next to `IdentitySync`.
