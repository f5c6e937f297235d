# Verification of the Black Duck MCP server

TLA+ models, TLC runs and TLAPS proofs for the Go server under `src/`: an MCP
server that signs users in with OAuth, keeps no sessions (every credential it
hands out is a sealed token), and forwards tool calls to Black Duck on a bearer
token it exchanges the user's API token for.

## 1. Inventory of the system

| component | code | state it keeps | operations |
|---|---|---|---|
| Black Duck API client | `internal/infra/blackduck/client.go` | `bearerCache`: API token -> bearer and expiry, one map for all sessions, under a mutex | `GetJSON`, `PutJSON`, `DeleteJSON`, `CurrentUser`, `CurrentVersion`, each over `authenticate` |
| Sealed tokens | `internal/platform/mcpauth/service.go`, `types.go`, `securetoken/sealer.go` | the key; a token is its own record | `Mint`, `Parse`, `ParseEnvelope` |
| OAuth sign-in | `internal/interfaces/httpserver/oauth.go`, `mcpauth/pkce.go` | nothing: each step hands out a token that the next one presents | `registerClient`, `authorize`, login page and submit, `token` |
| MCP endpoint | `internal/interfaces/mcp/handler.go`, `prompts.go` | nothing: credentials and access mode travel in the request's context | bearer, Basic and public requests; tool registry |
| MCP tools | `internal/interfaces/mcp/tools.go` | nothing: approvals are sealed tokens | reads, project delete (prepare, commit), user update (read, merge, write) |
| Private CA, TLS trust | `platform/privateca/bootstrap.go`, `platform/wiring/providers.go` | the bundle on disk (a volume that processes can share), the lazily built transport | `Ensure`, `Status`, `RoundTrip` |
| Lifecycle | `cmd/blackduck-mcp/main.go`, `platform/app/app.go`, `httpserver/server.go` | loading, listening, shutting down, stopped | `Run`, `ensurePrivateCARoot`, shutdown with a 10s limit |
| Configuration | `platform/config/config.go` | the environment, read once | `Load` |
| Routing, logging | `httpserver/router.go`, `server.go`, `logging.go` | none | dispatch |

The TLA+ modules and `PROJECT.json` name the lines of the source they model; paths below are
relative to `src/`, and a bare `tools.go`, `client.go`, `oauth.go` is the one in the table.

### How the parts interact

```
 MCP client ──OAuth──▶ oauth.go ──Mint/Parse──▶ mcpauth/service.go (the key)
     │                    │ login submit: CurrentVersion/CurrentUser
     │                    ▼
     └──tool calls──▶ handler.go ──context: API token, access mode──▶ tools.go
                                                                        │ GetJSON / PutJSON / DeleteJSON
                                                                        ▼
                                         client.go ── bearerCache (shared, mutex) ──▶ Black Duck
```

* Every HTTP request runs in a goroutine of its own.  The only memory the requests share is
  `bearerCache`; everything else goes from one request to the next inside sealed tokens that the
  *clients* hold.  A token can therefore be presented any number of times, in any order, by anybody
  who has it, to this process or to a later one.
* A tool call turns into one Black Duck operation (a read or a deletion) or two (the user update).
  Each operation is up to two exchanges of the API token for a bearer and up to two requests.
* Black Duck is shared with other users of it, and answers late, wrongly or never.
* Every operation goes through the transport that the first request of the process built from the
  CA bundle on disk; `Run` sees to it that the bundle is there before it listens.

### What is hard

| behaviour | where | why a test hardly reaches it |
|---|---|---|
| concurrent exchanges over one cache entry | `client.go:88-144` | an exchange accepted earlier may store its bearer after another call was refused and deleted the entry |
| a bearer that expires under way | `client.go:84,92` | `now` is read before a lock and two network calls, the decision is taken later |
| a write sent again, taken on late, or answered 202 and carried out later | `client.go:158-225,321,408`, `tools.go:1063` | needs an answer that is lost at the right step |
| one context for four HTTP messages, three mutex waits, and two calls of `users_update` | `client.go:158-225`, `tools.go:1049` | needs timing |
| a token checked before the client's body is read, the tool after it | `handler.go:137-166`, `server.go:16` | needs a slow client and an expiry in between |
| state carried by the client across four requests | `oauth.go` | every mix of tokens of two sign-ins, two clients, two redirect URIs |
| truncation of times to seconds, twice | `service.go:56,81` | off by one only within a fraction of a second |
| read, merge, write of a whole user | `tools.go:1039-1204` | someone writes in between |
| two-step deletion with replayable approvals | `tools.go:255-314` | expiry, replay and concurrent commits together |
| restart with an ephemeral key | `config.go:118` | between two steps of a sign-in |
| the CA file shared between processes, killed around a rename, replaced by operators | `bootstrap.go:63-147` | needs two processes and a kill at the right step |
| the trust built lazily from a file that changes | `providers.go:66-116` | needs the file to change between two requests |
| shutdown with calls in flight, its 10s against their 60s | `app.go:21-51` | needs timing |
| who may delete, over six requests and a restart | `oauth.go`, `handler.go`, `tools.go` | spans every component |

The list of hazards, each at its line and with the properties that cover it, is in `PROJECT.json`.

### What makes each component correct

* **Client.** Black Duck takes an operation on at most once, and the answer agrees with it; identities
  are never mixed; a cached bearer lasts for the request it is sent with; a stale bearer never decides
  a refusal; a call is back when its caller's context is over or a mutex wait later, and always comes
  back.
* **Sealed tokens.** A token is accepted in its lifetime, as its own type, under its own key only.
* **Sign-in.** A session acts with an API token that Black Duck accepted, in the mode the user
  chose; it belongs to the client that started the sign-in; codes go to registered URIs; a sign-in
  does not open sessions for ever; a server that kept tables instead, emptied by a restart when the
  key is ephemeral, could not be told from it.
* **Deletion.** A project goes only in a read-write session's commit of an approval for that very
  project, alive when the commit began; a commit that reports success began while there was a project, and
  its own DELETE was taken on.
* **Private CA.** What is fetched appears at its place all at once, however many servers fetch and
  wherever they die; no request leaves without the trust that is configured; a start fails only when
  there is no bundle, and every start comes to an end.
* **Lifecycle.** What a client is told of its call is true over stops, kills and restarts; a stop cuts
  no call short that needs less than the shutdown timeout; exit code 0 means nobody was cut off; the
  process ends when it is told to, and a start ends in a server that listens or in an exit.
* **All together.** A project goes only by the will of two sessions that signed in read-write.
* **User update.** An undisturbed write is exact and may be repeated; no interleaving makes an EXTERNAL user without an
  external name; the caller is told the truth about what happened.

## 2. Modules

```
TokenService ◀── OAuthFlow ◀── MCOAuthFlow           TokenServiceProofs ◀─┐
     ▲            ▲────────────────────────────────── OAuthFlowProofs ─────┤
     │            └── Server ◀── MCServer, ServerProofs ───────────────────┤
     └─────────── ProjectDelete ◀── MCProjectDelete, ProjectDeleteProofs ──┘
ToolAccess ◀──┴── UserUpdate ◀── MCUserUpdate, UserUpdateProofs
BlackduckClient ◀── MCBlackduckClient, BlackduckClientProofs
PrivateCA       ◀── MCPrivateCA, PrivateCAProofs
Lifecycle       ◀── MCLifecycle, LifecycleProofs
```
(An arrow points from a module to the one it EXTENDS.)

Three modules are abstract specifications, INSTANCEd by the modules that implement them:

* `AtMostOnceCall` by `BlackduckClient` (as what it implements), by `ProjectDelete`, `UserUpdate`
  and `Lifecycle` (as what they call), and by `UserUpdate` and `Lifecycle` again (as what their
  callers see);
* `SignIn` by `OAuthFlow`;
* `AtomicEnsure` by `PrivateCA`.

`Server` EXTENDS `OAuthFlow` and INSTANCEs `ProjectDelete` and `ToolAccess`; `ServerProofs`
INSTANCEs `ProjectDeleteProofs` too, to use its theorems.

### AtMostOnceCall — the promise of one operation

The abstract specification: `outcome[c]`, what the caller of call `c` knows, and `accepted[c]`, how
often Black Duck took its operation on.  "ok" is returned after that, "refused" only when it did not
and never will, "error" leaves everything open, and the operation may be taken on after it.  Bearers,
caches, retries and timeouts are not in it.

**Taken on is not carried out.** The client takes 202 Accepted for success (`client.go:321,408`), and
`skills/blackduck-customer-service/SKILL.md:136` says that a project may still appear after a
successful commit.  The promise therefore says nothing about when an operation takes effect.  That is
in the modules that use it: `ProjectDelete` keeps what was taken on in `queued` until
`ProjectDeleted`, `UserUpdate` replaces the user in a step of its own (`UserWritten`), each before the
answer or any time later.

### BlackduckClient — `client.go`

| TLA+ | code |
|---|---|
| `bearerCache` | the map, each entry with the `expiresAt` that was computed from `now` |
| `call[c]` | locals of one call: the `deadline` of its caller's context, `now`, until when it waits at most (`until`), the bearer and whether it is from the cache, `forced`, the reply under way |
| `accepted`, `orphan` | Black Duck's side: how often an operation was taken on, and requests that may yet be, after the call gave up |
| `Begin`, `BeginBlank` | entry of `GetJSON`/`PutJSON`/`DeleteJSON`, with what is left of a context (`Contexts`): reads `now`; a blank token is refused |
| `CacheHit`, `CacheMiss` | the critical section at 87-89 and what follows from it |
| `HttpEnd` | `http.Client`'s Timeout or the context handed to the message, whichever is first |
| `AwaitLock`, `ExchangeStored`, `ExchangeRefused` | the wait for the mutex after the exchange's answer, which no timeout covers, and the second critical section |
| `RequestDone`, `RequestRefused`, `RetryForced`, `Fail` | the answer, 401/403, the one forced refresh, every other error including the HTTP timeout |
| `UpstreamIssues`, `UpstreamRefuses`, `UpstreamAccepts`, `UpstreamAcceptsLate` | Black Duck |
| `Tick` | time; a message in flight ends by `HttpEnd`, each wait for the mutex by `LockDelay` |

The critical sections are single steps because the mutex makes them so; everything between them
interleaves.  Code between two network or lock operations takes no time.  What is assumed of Black
Duck: it accepts no expired bearer, does nothing for a request it refuses, and reports the lifetime
a bearer really has.  It may refuse any live bearer at any time, answer late or not at all.
Go's transport does not send a PUT or DELETE again by itself once it began to write it.
`time.Now().UTC()` carries no monotonic reading, so a step of the machine's clock would show; the
model's clock only goes forward.

### TokenService — `service.go`, `types.go`, `sealer.go`

Not a process but the operators the handlers share: `Mint` (expiry truncated to seconds after the
lifetime was added), `Opens` (sealed under this key), `Live` (the clock truncated, compared as
`Parse` does), `Accepts` (opens, live, of the type asked for).  Encryption and encoding are
abstracted to "opens exactly under the key it was sealed with".

### OAuthFlow — `oauth.go`, `pkce.go`, the bearer half of `handler.go`

`issued` is every token handed out so far; no handler reads a token that is not presented to it,
and everything in `issued` may be presented to every endpoint by every client.  The server's own
state is the key (`Key`, by `SecretConfigured` and `process`) and the login submits that wait for
Black Duck (`login`), whose check and use of the `auth_state` are two steps.  `Register`,
`Authorize`, `SubmitLogin`, `LoginAccepted`/`LoginRefused`, `Redeem`, `Restart` and `Tick` are the
steps; a restart drops the logins under way.  History in the payloads (`began`, `starter`,
`redeemer`, `bornIn`) and `vouched` exist to state the properties.  The constant-time and
case-folding comparison of PKCE challenges is equality here.  Requests that are turned down change
nothing and are left out.

### SignIn — what a server with a memory would do

The abstract specification of the sign-in: the server keeps tables of sign-ins that were started
(by whom, when), of logins that wait for Black Duck, of consents that sessions can be opened from,
and of sessions.  There are no tokens, keys, challenges or presentations.  Entries lapse with their
lifetimes, within a second of them; a restart empties what its comment says.  `OAuthFlow` maps its
tokens to these tables: an `auth_state` that opens is a sign-in of the client that can answer its
challenge, a code that is accepted is a consent of that client, an access token that is served is a
session of the client that redeemed a code for it (`Started`, `Logins`, `Consents`, `OpenSessions`).
Registrations and requests that only present tokens are stutters.

### ToolAccess — registry of `tools.go`, admission in `handler.go`

Which requests reach a tool at all (`Admitted`), and which tools are registered for them (`Tools`):
the update always, the two that delete for read-write sessions only.  The 35 others change nothing
and are one tool, `"read"`.  The server is rebuilt from this for every request, so it is a function
of the credential, not state.

### ProjectDelete — `tools.go:255-314`

`approvals` is what sessions hold, `commit[c]` the locals of a commit call, `projects` and `queued`
Black Duck's side.  `Prepare`, `Commit`, `CommitReturns`, `DeleteAccepted` (Black Duck takes the DELETE
on, perhaps long after the call gave up), `ProjectDeleted` (and carries it out, then or later), `Restart`,
`Tick`.  Until it is carried out the project is there, and a second DELETE is taken on as well: two
commits of one approval can both report success.  `DeleteJSON` is taken at the promise of
`AtMostOnceCall`, which the client is proved to keep.  Project identifiers are not used again; nobody else deletes projects in
the model (that would only take away projects to approve).  A restart drops the commits under way
(their DELETE may still be taken on, and carried out) and, unless `SecretConfigured`, changes the key (`SealingKey`);
approvals stay with the sessions.  `by` and `bornIn` in an approval, and `by`, `since`,
`process` and `existed` of a commit, are history for the properties.

### UserUpdate — `tools.go:1039-1204`

`user` is the account in Black Duck; `update[c]` the locals of a call: the request, what it read,
the body it built.  `Begin`/`BeginBlank`, `ReadReturns`/`ReadFails`, `Reject`/`StartWrite` (the two
outcomes of `buildUserUpdateBody`), `WriteReturns`; `UserRead`, `WriteAccepted` and `UserWritten` are
Black Duck's side, the last two possibly after the call gave up or was told of success;
`ChangedElsewhere` is people working in Black Duck.  `email` stands for `firstName`, `lastName` and `email`, which the code treats alike; a field
that is not there is `""`, `active` that is not there `None`.  A call with empty `updates` is turned down at once and left out.

### PrivateCA — `bootstrap.go`, the trust of `providers.go`

| TLA+ | code |
|---|---|
| `config` | the five settings of trust, fixed while the servers run |
| `file`, `temp[p]` | the disk: `PRIVATE_CACERT_FILE`, and the last temporary file of each server's `Ensure` |
| `proc[p]` | one server: where in `Ensure`, the answer it fetched, `lazyCACertTransport.transport` |
| `req[r]` | a request to Black Duck: refused, or sent with which trust |
| `Boot`, `Stat` | a start; the look at the disk at 69-78 |
| `Fetch`, `FetchFails` | the GET with its 30s timeout, status, body and PEM checks |
| `Create`, `Write`, `Rename`, `DiskFails` | 100-127, each a step of its own, each may fail |
| `Fallback` | `fallbackStatus` and the deferred removal of the temporary file, which may fail unnoticed (112-114) |
| `RoundTrip` | `getTransport` under its mutex, `loadTLSConfig`, and the request; it may be refused with usable sources too, when the roots of the system cannot be read (providers.go:86-89) |
| `Kill`, `Prime`, `Remove` | a process dies; operators put a file there or take it away |

Contents are sets of certificates, `{}` being a file without any.  `Answers` is what the PKI endpoint
answers with as far as `Ensure` can tell: a body that is cut short where nothing shows it, or that
parses in part, passes the checks at 90-97 and is an answer like others.  So "whole" means as it was
answered: nothing of the properties says that the endpoint's bundle is complete.  Left out: the roots
of the system in what is trusted.  A URL that no request can be made of fails in the step that looked
at the disk.  A temporary file that a kill or a failed removal leaves stays on disk, where nobody looks
for it; `temp` follows it until the same server creates the next.
`BLACKDUCK_CA_CERT_FILE` naming the private file
itself is the case `override = None`.  `Ensure` with `force` has no caller.  Power loss is not in
the code's hands beyond the missing fsync, and not modelled.

### AtomicEnsure — a start as one step

The abstract specification of `Ensure`: a server that starts uses the file that is there, or puts a
whole answer there, or gives up because there is no file, in one step; a kill and a start leave the
file alone.  `PrivateCA` maps every step of `Ensure` but the last to a stutter (`Status`).

### Lifecycle — `main.go`, `app.go`, `server.go`

| TLA+ | code |
|---|---|
| `main`, `exit` | where `main`/`Run` is, and how the last process ended |
| `listener`, `errCh` | the goroutine at 25-30 and the channel it reports on |
| `signalled`, `since` | the context of `signal.NotifyContext`; when `Shutdown` was called |
| `conn[c]`, `told[c]` | a client's connection, as `http.ConnState`; what the client knows of its call |
| `Start` (`Loads`), `Ensured`, `EnsureFails` | `config.Load` with its strict and its lenient settings; `Ensure` |
| `Listen`, `ListenFails`, `AcceptFails` | `ListenAndServe` |
| `SelectStop`, `SelectError` | `Run`'s select; when both are ready, either |
| `Poll` (`Busy`, `Closable`), `Deadline` | `http.Server.Shutdown`, from its documentation, and its 10s |
| `Connect`, `Discover`, `Call`, `Respond`, `Leave` | clients and the handler's answer, too late after `WriteTimeout` |
| `Accepted` | Black Duck takes the call's operation on; the operation is taken at `AtMostOnceCall` |

One tool call per client.  `ReadTimeout` and `IdleTimeout` close a connection on which nothing
happens, which `Leave` does as well.  A second signal is ignored, as `NotifyContext` does while the
first is handled.  `http.ErrServerClosed` is returned only after `Shutdown` was called, when nobody
reads the channel any more.

### Server — the deletion, from sign-in to Black Duck

`OAuthFlow` and `ProjectDelete` side by side with one clock, one key and one process.  `Authenticate`
is `bearerOnly` (`handler.go:135-166`): it checks the access token of a request whose header is there
and makes a `Session` of it.  The body is the client's to send: the request is in `reading` until then,
up to `ReadTimeout`, while the token may expire.  `ToolCall` is a prepare or a commit of a request that
was read (`Carried`: the sessions in `reading`, Basic credentials, nothing); `SignIn` is a step of the
sign-in; restart and tick are steps of both, a restart loses what is being read, a tick cuts off what
took too long.  `reading` is a set: a member of it stands for any number of requests let in alike.  That an
approval is no access token and the other way round is `Accepts`, by type, in each part.

Each module carries variants of some of its definitions that nothing uses (`FaultyUsable`,
`ExpiredAccepted`, …).  Each is a slip the code could plausibly have; put in place of the
definition it imitates, it breaks a property.  `PROJECT.json` lists which breaks which, so that
every property is known to be able to fail.

## 3. Runs

| run | shows | instance |
|---|---|---|
| `client_safety` | `TypeOK`, `NoEdgeExpiry`, `CredentialIsolation`, `BoundedDuration`, `CachedBearerNeverDecides`, and that the client implements `AtMostOnceCall` (`AcceptedAtMostOnce`) | 2 calls, 2 API tokens, contexts of 15s and 60s |
| `client_liveness` | `EveryCallReturns` under `FairSpec` | 2 calls, 1 API token |
| `oauth_identity` | `SessionsVouched`, `RedeemerIsStarter`, `RedirectRegistered`, and that the sign-in implements `SignIn` (`ActsAsStateful`) | 2 clients, URIs, API tokens, login slots; up to 5 tokens; a restart with the key kept |
| `oauth_ephemeral` | `SignInBounded`, `LifetimeHonoured`, `ActsAsStateful` | half-second ticks, 5 tokens, a restart with a new key |
| `project_delete` | `DeletionApproved`, `NoFalseSuccess` | 2 commits, 2 projects, 2 approvals, 4 kinds of sessions, a restart with a new key |
| `user_update` | `NeverNameless`, `UpdateExact`, `RetryChangesNothing`, and that the tool implements `AtMostOnceCall` (`ToolPromise`) | 2 overlapping updates, 8 kinds of requests, 5 accounts, 3 sessions |
| `user_update_lost` | finding: a concurrent change is undone | 2 kinds of accounts, 3 requests |
| `user_update_read_only` | finding: a read-only session writes | 1 call |
| `private_ca` | `BundleWhole`, `TrustWhole`, `FailsOnlyWithoutBundle`, that `Ensure` implements `AtomicEnsure` (`EnsureIsAtomic`), and `StartSettles` under `FairSpec` | 2 servers, 3 starts, 2 requests, 9 configurations |
| `private_ca_fetches` | finding: a file that is there is not fetched again | 2 servers |
| `lifecycle` | `ServicePromise`, `GraceHonoured`, `CleanExit`, and `EndsAfterSignal`, `StartsOrExits` under `FairSpec` | 2 clients, 2 starts, 3 environments |
| `server` | `DeletionAuthorised` | 1 client and sign-in slot, 6 tokens, 2 requests being read, 2 approvals, 1 commit, a restart with a new key |

**Bounds.**

* *Client.* A tick is 15s: `Margin` 30s is 2, the HTTP timeout 1, a context 1 or 4 (60s, or 15s that
  are left of it).  Up to four messages of 1 and three mutex waits of 1 would be 7, so that calls are
  back by their context and one wait, at most 5, is the context's doing: without it in the messages
  (`FaultyHttpEnd`) the property fails.  `MaxClock` = 7 leaves room for a whole call that begins when
  a bearer of 5 ticks is in the last tick before its margin, is a hit, refused, and exchanged again.
  The lifetime of 1 is inside the margin, never a hit.  Two calls are what a race over one cache
  entry needs; two API tokens what mixing identities needs.
* *OAuth.* Five tokens are a registration, an authorization, a code and two redemptions of it — or
  two overlapping sign-ins up to their codes.  The identity run needs no time (`MaxClock` = 0) and
  spends its states on two of everything and on a restart that keeps the key; the lifetime run has
  one of everything and half-second ticks, with an access lifetime of one second and
  a half and a code lifetime of one, counted from whole and from half seconds, so that truncation at
  both ends is met, and a restart that changes the key.  `MaxClock` = 8 is
  `2 * CodeTTL + LoginTimeout + AccessTTL`, the first moment at which `SignInBounded` allows no
  session.
* *Deletion.* Half-second ticks, approvals of 3, commits that may take 1, clock up to 6: an approval
  can expire before, during and after a commit; two approvals can be of one project or of two.  The
  restart comes anywhere: between prepare and commit, or with the DELETE on its way, or queued at Black
  Duck.
* *Update.* Two overlapping updates and the outside world are enough for a read of one before the
  write of the other and a change after both; each request is one case of `buildUserUpdateBody`.
* *Private CA.* Two servers fetch at the same time, and the third start is one after a kill or a
  failure.  The endpoint answers with a bundle of three certificates, or with the first of them (an
  answer cut short), and later with one of a single other one, so that what is half written can be
  told from what was answered; operators put a good bundle or rubbish there.  The nine configurations
  take each setting through its cases.
* *Lifecycle.* One unit stands for each gap between the limits: `NewGrace` (5s) 1,
  `ShutdownTimeout` (10s) 2, `WriteTimeout` (60s) 3, `ToolTimeout` (60s and a mutex wait) 4.  What matters is their order:
  a stop can outwait a call or be outwaited by it.  `MaxClock` = 4 is a call begun after the start,
  and a signal is taken only when there is room to stop.  The second start follows every kind of end.
* *Server.* Six tokens are a registration, an authorization, and two codes and access tokens that
  come of it, so a read-only and a read-write session of one user exist together.  All lifetimes and the read timeout are
  one unit; the clock stops at `2 * CodeTTL + LoginTimeout + AccessTTL + ReadTimeout` = 5, the first
  moment at which no session may act.  Two requests are read at a time because a deletion takes two
  sessions; one commit is enough to break the property, and `project_delete` has two.

Calls, tokens, clients, projects and submit slots are interchangeable, so runs that check safety
alone use symmetry; runs with a liveness property do not.

`CHECK_DEADLOCK FALSE` throughout: the models stop when their bounded calls are done and their
bounded clock has run out, which is not the server waiting for itself.  That the server's calls
come back is `EveryCallReturns`.

**Fairness.** Nothing is assumed of Black Duck, the PKI endpoint, operators or clients: they may never
answer or come, and Black Duck may refuse all it issued.

* `BlackduckClient!FairSpec`: the clock, the cache lookup (the mutex is held for map operations
  only), the return of an exchange or request whose answer has arrived, and `TimeOut`, the timer of
  `http.Client` (15s).  Nobody is obliged to begin a call.
* `PrivateCA!FairSpec`: each server's `EnsureStep`, because file operations end one way or the other
  and a fetch ends by its 30s timeout.
* `Lifecycle!FairSpec`: `RunStep` (Go runs the goroutine of `main`, its select and the timer of the
  shutdown), `Listen` or `ListenFails`, the clock, and the return of each handler.  Nobody has to
  start or signal the server, and no client has to let go of its connection.

### Findings

Three places where what a document says is not what the code does; each violation run is the
shortest trace to it.

1. `docs/TOOLS.md:185` "applying only the requested `updates` fields": the PUT carries every field
   as it was read, and undoes what changed in between (`tools.go:1053-1063`).
2. `skills/blackduck-customer-service/SKILL.md:5` says that `blackduck_users_update` is available
   to read-write sessions only: it is registered for every session and asks for no access mode
   (`tools.go:99,1039`).
3. `README.md:57` "the server fetches the private CA bundle at startup and writes it to the file":
   `Ensure` returns when something is at the path, without a fetch and without a look into it
   (`bootstrap.go:70`).  The reuse is intended and documented elsewhere (`app.go:60-64`,
   `bootstrap.go:52-58`, `docker-compose.yaml:88-91`); it is this sentence that is not true of every
   start.

Two more are visible in the models without a run of their own.  `docs/API.md:56` "performs the
exchange on demand for each tool call": within a bearer's life `CacheHit` is taken (`client.go:92`).
And a blank external name becomes the user name without being asked for (`tools.go:1188`), which
`UpdateExact` spells out.

`UpdateExact` says what *does* hold of the merge, and is proved.

## 4. Proofs

All are safety; each theorem is for every value of the constants its module's assumptions allow.

| module | theorems | inductive invariant |
|---|---|---|
| `BlackduckClientProofs` | `TypeCorrect`, `EdgeExpiryExcluded`, `CredentialsIsolated`, `DurationBounded`, `CachedBearerNeverDecidesHolds`, `AcceptedAtMostOnceHolds` | `IInv` |
| `TokenServiceProofs` | lemmas `UnixInt`, `UnixBefore`, `UnixSecond`, `UnixMonotone` | — |
| `OAuthFlowProofs` | `OAuthTypeCorrect`, `SessionsVouchedHolds`, `RedeemerIsStarterHolds`, `RedirectRegisteredHolds`, `SignInBoundedHolds`, `LifetimeHonouredHolds`, `ActsAsStatefulHolds` | `IInv` |
| `ProjectDeleteProofs` | `DeleteTypeCorrect`, `DeletionApprovedHolds`, `NoFalseSuccessHolds` | `DeleteInv` |
| `UserUpdateProofs` | `UpdateTypeCorrect`, `NeverNamelessHolds`, `UpdateExactHolds`, `RetryChangesNothingHolds`, `ToolPromiseHolds` | `UpdateInv` |
| `PrivateCAProofs` | `CATypeCorrect`, `BundleWholeHolds`, `TrustWholeHolds`, `FailsOnlyWithoutBundleHolds`, `EnsureIsAtomicHolds` | `CAInv` |
| `LifecycleProofs` | `LifecycleTypeCorrect`, `ServicePromiseHolds`, `GraceHonouredHolds`, `CleanExitHolds` | `LifeInv` |
| `ServerProofs` | `ServerSignsIn`, `ServerDeletes`, `DeletionAuthorisedHolds`, `ServerNoFalseSuccess`, `ServerSignsInSafely` | `ServerInv` |

* **Client.** None of the properties is inductive: that a cached bearer lasts depends on when the
  call read `now`, which is bounded through the stages of the call.  `TimeOK` says when each stage
  can have started, `HoldsOK` which bearer it holds and for how long, `AcceptedOK` how the operation
  stands with Black Duck, `CacheOK` that an entry never overrates its bearer.  The assumption is
  `LockDelay + RequestTimeout <= Margin`: the 30s margin covers the 15s timeout and any wait for the
  mutex up to the rest.  `DurationBounded` is `TimeOK` again: a
  message ends with the context, and after it there is one wait for the mutex at most.  The refinement
  needs `AcceptedOK` alone: the operation of a call that retries was not taken on.
* **Sign-in.** The server forgets everything between two requests, so the invariant says what each
  kind of token carries from the requests before (`DataOK`), and what a waiting login has read
  (`LoginOK`).  Tokens are only added, so preservation is one lemma about minting one token and one
  about leaving all alone.  `SignInBounded` needs the sum of the bounds at each hop.  Lifetimes may
  be zero or negative, the key policy either, the clock's resolution anything.  The arithmetic of
  truncation is in `TokenServiceProofs`.
* **Sign-in, refinement.** `ActsAsStatefulHolds` has one lemma per step.  What carries it is again
  `DataOK`: a code's challenge and times are those of the `auth_state` it came from, so the table
  entry that a step needs is there.  `NewEntry` says what minting a token
  adds to which table, `TablesStay` which steps leave them alone.  A login maps to an entry that other logins may share, hence
  `Answered`.  Expiry is the delicate part: a tick removes several entries at once, each at the
  second its token is truncated to, and `HeldLapse` shows, from `UnixMonotone` and `UnixSecond`,
  that what is left lies between the two bounds of `Lapse`.  Lifetimes may have any sign: a token
  that is never accepted never becomes an entry.
* **Deletion.** The invariant keeps, for each commit under way, the approval it rests on, and how
  its DELETE stands (`Settled`): taken on only if there was a project when the call began, and then
  carried out or still queued.  Identifiers that are gone do not come back, so a success is never about
  a project that was gone before.
* **Private CA.** The file is whole because what is renamed is: the invariant says what each step of
  `Ensure` implies about a server's answer and temporary file and that a kept transport comes from
  one whole file (`ProcOK`), and what the file holds by who made it what it is (`FileOK`).  Any number
  of servers, bundles and configurations.
* **Private CA, refinement.** `EnsureIsAtomicHolds`: the look at the disk, the rename and the fallback
  are where a start takes effect, a lemma each; `RenameIsInstall` needs that what is renamed is an
  answer, `FallbackIsAtomic` that a server only falls back with the bootstrap enabled
  (both `ProcOK`).  A request, a fetch and a write of the temporary file are stutters.
* **Lifecycle.** The invariant ties a connection, the call made on it and what its client was told
  (`CallOK`: a connection is active exactly while its call runs, and an answer that was told is the
  operation's), and there are no connections before the process listens (`NobodyYet`).  So `End` turns
  exactly the running calls into unknown ones.  The refinement maps an answer that was lost, or that
  the client did not wait for, to "error", after which the operation may still be taken on.
* **Server.** `ServerSignsIn` and `ServerDeletes` prove that every step of the composition is a step or
  a stutter of each part, so the parts' theorems hold of it.  `ServerInv` adds what ties them: the
  session that prepared an approval was signed in when it was minted (`ApprovalBacked`), and so was
  the one of a commit when it began, give or take the time its request was read (`ReadingBacked`), with an
  approval that was alive then (`CommitBacked`).
  `SignedIn` itself comes from the invariant of the sign-in.  `ServerNoFalseSuccess` and
  `ServerSignsInSafely` draw the parts' theorems over to the whole; the first instantiates
  `ProjectDeleteProofs` with the sessions that sign-ins make, after `DeletionAssumptions` showed that
  what it assumes of its constants holds there.
* **User update.** The invariant says how far the two client calls of each update are (`Progress`),
  and what it knows (`Knows`): while nobody wrote, what it read is the user, and its body is the
  user with the request applied; its body is never nameless, whenever it is written.
  `BodyIsExact` and `BodyIsUser` are about `buildUserUpdateBody` alone.  `BodyAgain` says
  that a request applied to its own result changes nothing, which with `Made` (every body is the
  request applied to some user) gives `RetryChangesNothingHolds`.  `ToolPromiseHolds` maps the two
  calls to one: the read is a stutter, the write is what is taken on.

Model-checked only: `EveryCallReturns`, `StartSettles`, `EndsAfterSignal`, `StartsOrExits` (liveness
under fairness is out of the prover's reach) and the three findings, which are traces.

The models of the tools take the client at `AtMostOnceCall`.  `AcceptedAtMostOnceHolds` is what makes
that sound.

## 5. Not modelled

* **Routing, logging, prompts, metadata documents, HTML**: no state, no decision a property is about.
* **The read tools**: one `GetJSON` each, so `BlackduckClient` is their model; they, and `ping`, are
  `"read"` in the registry of `ToolAccess`.
* **`expires_in` of the token response** (`oauth.go:504`): computed from the expiry before truncation, but nothing
  in the server reads it back; `LifetimeHonoured` is about the token itself.  Lifetimes of zero and
  below are in the theorems only: no session opens with them, so the runs have none.
* **Cryptography, JSON, HTTP, the syntax of settings**: abstracted to their outcomes (opens or does not,
  valid or invalid).
* **Power loss**: the bundle is written without fsync, and what a file system keeps is not in the
  code.  An empty file at `PRIVATE_CACERT_FILE` is among what operators may put there, so what it
  does to requests (they are refused) is covered by `TrustWhole`.
* **The size of the bearer cache**: entries go only when a bearer is refused (`client.go:135`), so it
  grows by one per API token; the code promises no bound, and no property states one.
* **Steps of the machine's clock backwards**.

## 6. Plan

Done, in this order: the client and its promise; tokens and sign-in; the two writing tools; the
private CA and trust; the lifecycle; the deletion end to end; the abstract specifications of the
sign-in and of `Ensure`; and the proofs of all their safety properties and refinements.  What could
still be added:

1. The user update end to end, as `Server` does for the deletion.  It asks for no read-write
   session, so there is less to carry from the sign-in than for a deletion.
2. The deletion with the client in place of its promise: `ProjectDelete` takes `AtMostOnceCall`, and
   that a commit is back by its deadline, where `BlackduckClient` has `AcceptedAtMostOnceHolds` and
   `DurationBounded`; the composition would state the two together.
3. A disk that forgets unsynced writes at a power loss, below `PrivateCA`.
4. A clock that can be set back, for the client's margin (`client.go:84`).
