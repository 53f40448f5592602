# TLA+ models of the gitlab-sshd gateway

This directory holds TLA+ models of the SSH gateway in `src/`, the TLC
configurations that check them, and `PROJECT.json`. `PROJECT.json` lists the
components, runs, mutants, the source lines each definition models, findings
and hazards.

## 1. Inventory

### Sources

| file | what it holds |
|------|---------------|
| `src/internal/sshd/sshd.go` | the `Server`: status machine, listener, accept loop, `Shutdown`, probes, public-key callback, `handleConn` |
| `src/internal/gitlabnet/twofactorverify/client.go` | lines 1-105: the two-factor OTP client; lines 106-319: the `config` package (`Config`, `HttpClient`, `newFromFile`, `parseSecret`, `IsSane`) |
| `src/cmd/gitlab-shell-authorized-principals-check/main.go` | start-up of the principals-check binary |
| `src/Makefile` | build recipes, followed by an older copy of the same `main.go` |

`connection.go` and `session.go` are not among the sources: `newConnection`,
`conn.handle` and `session.handle` are only called from `sshd.go`. They are
modelled from the design (`spec.md` 4.2, 4.4, 9) and marked `spec_modelled`
in the map.

### Components, their state and their operations

**Server** (`sshd.go`).
- State:
  - `status` (Starting, Ready, OnShutdown, Closed), guarded by `statusMu`;
  - `listener`, which is nil until `listen()` sets it;
  - the WaitGroup `wg` of in-flight `handleConn` goroutines;
  - `hostKeys`, and the authorized-keys client.
- Operations:
  - `NewServer` (46-72);
  - `ListenAndServe` (74-83), which runs `listen` (113-133) and `serve` (135-156);
  - `Shutdown` (85-93);
  - `changeStatus` and `getStatus` (158-169);
  - `MonitoringServeMux` (95-111);
  - `serverConfig` (171-201);
  - `handleConn` (203-238).
- Concurrency:
  - `ListenAndServe` runs in one goroutine.
  - `Shutdown` is called from another goroutine, the signal handler of the gitlab-sshd main.
  - The probes run in HTTP handler goroutines.
  - Each accepted connection gets its own `handleConn` goroutine.
  - Only `status` is locked. `s.listener` is written by `listen()` and read by `Shutdown` without synchronisation.

**Connection** (`conn.handle`, from the design).
- State: the session semaphore (capacity `ConcurrentSessionsLimit`, where 0 or less means unbounded) and the running session handlers.
- Operations: the intake loop over the transport's channel-open requests. `TryAcquire` either admits a request or rejects it at once. Each admitted channel gets a handler goroutine that releases its unit on every exit. The loop ends when the transport closes.

**Session** (`session.handle`, from the design). It services one request per
channel and closes the channel. `handleConn` builds it with the connection's
`key-id` as `gitlabKeyId`, and it passes that identity to the command it
dispatches. How a command is chosen and run is outside the design's scope.

**Public-key callback** (`sshd.go` 173-193).
- It is called by `x/crypto/ssh` for each key a client presents.
- It rejects a user other than `Config.User` and any DSA key.
- Otherwise it calls `authorizedKeysClient.GetByKey` under a 10 s timeout derived from the connection's context.
- On success it returns `Permissions` with the `key-id` extension. `handleConn` hands that extension to the session as `gitlabKeyId`.

**Config** (`client.go` 106-319).
- `newFromFile` reads the YAML file over the defaults, unescapes `gitlab_url` and resolves the secret through `parseSecret`. It also makes a relative log file path absolute.
- `IsSane` checks the result.
- `HttpClient` builds the HTTP client once under a `sync.Once` and caches the client or the error for every later call.

**Two-factor client** (`client.go` 1-105).
- `VerifyOTP` and `PushAuth` build a request body with `getRequestBody` and POST it.
  - If the session has a key id, the body carries that key id.
  - Otherwise it carries the user id that `discover` returns.
- `parse` reads `success` and `message` from the response.

**principals-check main** (`main.go`). A sequential start-up: it reads the
executable and the config, builds the command and executes it, and exits with
status 1 on each error.

### How the components interact

- `serve` spawns `handleConn`.
- `handleConn` runs the SSH handshake, which calls the public-key callback, which calls the authorization gateway.
- `handleConn` then passes the transport to `conn.handle`.
- `conn.handle` spawns a session per admitted channel.
- `Shutdown` and `serve` share `status` and `listener`.
- `serve` and the `handleConn` goroutines share `wg`.
- The readiness probe reads `status`.
- The two-factor client is used by the commands a session dispatches. Its key-id path is fed by the callback's `key-id`.
- Each two-factor command calls `gitlabnet.GetClient` twice (in `NewClient`, then in `getRequestBody` via `discover.NewClient`). Both calls, and those of every other command, ask the one shared `Config` for its HTTP client.

### What is hard

- **`Shutdown` racing `ListenAndServe`.** The problem spots are the unlocked `s.listener` read and the window between `listen()` and `changeStatus(Ready)`.
- **The accept loop's error handling.** It must tell a transient error apart from a shutdown, and it does so only through `status`.
- **Draining before Closed**, with panics in handlers.
- **Graceful shutdown that can wait forever.** There is no handshake deadline, and in-flight connections are not cancelled.
- **The session limit at its bound**, and at a bound of 0 or less.
- **Slot release on every exit path.**
- **A callback that is invoked once per key presented.** The identity must be the one of the key that actually signed, and a 10 s timeout must bound the gateway call.
- **A cached `sync.Once` error**, which makes a transient first failure permanent.
- **Sessions outliving their connection's handler.** Closed must wait for the sessions of every connection as well as for `handleConn`.
- **`os.Exit` on error paths**, which skips deferred cleanups.

### Properties that make each component correct

- **Server:**
  - the status moves only forward (Starting to Ready to OnShutdown to Closed);
  - readiness reports 200 only while the accept loop runs on an open listener;
  - Closed only after every handler returned;
  - once `Shutdown` has closed the listener and the handlers have ended, Closed follows (no client needs to cooperate);
  - a failure in one connection does not stop the others;
  - the listener is closed exactly once.
- **Connection:**
  - at most `Limit` sessions run at once;
  - a request is rejected only when the limit is reached, and is never queued;
  - no slot leaks;
  - every delivered request is decided, without waiting for a running session to end;
  - `handle` returns only after its sessions.
- **Callback:**
  - no gateway call for a wrong user or a DSA key;
  - an established connection's `key-id` is the gateway's id for the key that signed.
- **Config:**
  - every `HttpClient` caller sees the one result of the single construction;
  - `newFromFile` returns either an error or a config with the secret resolved.
- **Two-factor client:** the body carries the key id exactly when one is known, and the user id otherwise.

## 2. Plan

The order follows importance. All items are done.

1. **`SshdServer`** (done), together with the abstract `ServerLifecycle` and `MCSshdServer`. It covers the status machine, the accept loop, `Shutdown`, the WaitGroup, `handleConn` at the level of handshake / serving / return / panic, and the readiness probe.
2. **`SessionLimiter`** (done), together with the abstract `SessionAdmission`. It covers the per-connection intake loop and the semaphore.
3. **`SshdAuth`** (done): the public-key callback inside the handshake. The client presents keys, some only as a query and some signed. The gateway answers ok, not found or a timeout. Properties: the gateway is called only for eligible keys, and the established identity is the signing key's.
4. **`HostKeys`** (done): `NewServer`'s host-key loading as a RECURSIVE operator, checked against a reference filter over bounded key lists, and the order of the start-up errors.
5. **`ConfigHttpClient`** (done): `sync.Once` with several concurrent callers. Properties: one construction, and all callers see the same client or error.
6. **`ConfigLoad`** and **`TwoFactorVerify`** (done): the sequential error paths of `newFromFile` / `parseSecret` / `IsSane`, and `getRequestBody` / `parse`.
7. **`SshdSystem`** (done): `SshdServer` composed with `SessionLimiter` for each connection, checked against `SshdServer` itself.
8. **`PrincipalsCheck`** (done): the start-up of the principals-check binary, in its current and its older form, with `ConfigLoad` as its config step.
9. **`SessionIdentity`** (done): `SshdAuth` composed with the session `handleConn` builds and the two-factor command it dispatches. It checks that the key-id of the handshake is the identity verified.
10. **`OtpClientSetup`** (done): `ConfigHttpClient` composed with its callers, the two `GetClient` calls of each of several concurrent OTP commands.

## 3. Modules and how they correspond to the code

### `ServerLifecycle` (abstract)

Its single variable is `status`. The only step is `Advance` to the next
status. `SshdServer` instantiates it with the identity mapping on `status`.

### `SshdServer` (`sshd.go`)

Variables:

- `status`
- `listener`: nil, open or closed
- `listenerCloses`: how many times `Close` was called
- `wg`
- `mainPc`: the `ListenAndServe` goroutine
- `acceptErrs`
- `sdPc`, `sdCalls`: the `Shutdown` caller
- `conn`: per client, absent, pending (in the backlog), refused, handshake, serving or done

Actions:

- For `ListenAndServe`, one action per atomic step: `Listen`, `ListenFail`, `ServeReady`, `Accept(c)`, `AcceptClosedError`, `AcceptTransientError`, `CheckStatus`, `WaitDrained`, `SetClosed` and `DeferClose`.
- For `Shutdown`: `ShutdownCall`, `ShutdownCheck` (the nil check), `ShutdownSetStatus` and `ShutdownClose`.
- For a connection: `Arrive` (environment), `HandshakeOk`, `HandshakeFail`, `ConnFinish` and `ConnPanic` (recovered, and the deferred `Done` still runs).
- `ReadinessOK` is the readiness probe.

A mutex-guarded `changeStatus` or `getStatus` is one atomic step. The unlocked
read of `s.listener` is also one step. Its race with `listen()` is explored by
interleaving: a stale nil read has the same outcome as reading before
`listen()` assigned it.

### `SessionAdmission` (abstract)

Variables: the configured `limit` (chosen in `Init` from `Limits`, never
changing), and per connection the sets `requested`, `active` and `finished`.
Connections do not share sessions or slots, so every variable but `limit` is
a function of the connection.

Actions:
- `Admit` is allowed only while fewer than `Limit` sessions are active, or with no limit.
- `Reject` is allowed only when exactly `Limit` are active.

### `SessionLimiter` (design of `conn.handle`)

Every connection has its own `Connection`, so each variable but `limit` is a
function of the connection, and every action takes the connection `c`.
`limit` is `ConcurrentSessionsLimit`, chosen in `Init` from `Limits`, so one
run covers a bounded and an unbounded configuration.

Variables:
- `queue`: the `chans` Go channel;
- `sess`: each channel's state;
- `acquired`: the semaphore;
- `transport`;
- `loopPc`.

Actions:
- `OpenChannel`;
- `IntakeUnbounded`, `IntakeAdmit`, `IntakeReject`;
- `SessionReturn`, `SessionPanic` (both release);
- `TransportClose`, `IntakeEnd`, `WaitSessions`.

Shared steps are `Decide` (the loop takes the head of `chans`) and
`EndSession` (a handler ends and gives back its units).

It refines `SessionAdmission` with this mapping, per connection:
- `requested` = the queued channels;
- `active` = the running channels;
- `finished` = the rejected and done channels.

### `SshdAuth` (`serverConfig`, `sshd.go:171-201`)

One handshake, as `x/crypto/ssh` drives the `PublicKeyCallback`.

Variables:
- `hs`: auth, calling, established or failed;
- `attempt`: the request being served;
- `cache`: the library's one-entry cache of callback results;
- `calls`: the (user, key) pairs `GetByKey` was called for;
- `failures`;
- `keyId`: the `key-id` extension;
- `signer`: the key that signed.

Actions:
- `RequestCached(r)`: the library answers from its cache.
- `RequestRejected(r)`: the user or DSA check fails (`CallbackPrecheck`).
- `RequestCall(r)`: `GetByKey` is called.
- `GatewayReply`, `GatewayError`, `GatewayTimeout`: the 10 s deadline.

`CallbackResult` builds the permissions. It uses `FormatInt`, a RECURSIVE
translation of `strconv.FormatInt(id, 10)`, checked against the independent
reference `Decimal`. `Conclude` is the library's handling of a result: cache
it, count a failure, or establish the connection on a signed success.

### `HostKeys` (`NewServer`, `sshd.go:46-72`)

The inputs are chosen in `Init`:
- the `HostKeyFiles` list (up to 3 files);
- which files are readable and which are parseable;
- whether `authorizedkeys.NewClient` succeeds.

`NewServer` is one action. It uses `LoadHostKeys`, a RECURSIVE operator for
the loop that returns the keys and the warned files. The property compares
it with `SelectSeq` of the configured list.

### `ConfigHttpClient` (`Config.HttpClient`, `client.go:203-226`)

Three goroutines call `HttpClient`. `once` is `sync.Once` (idle, running or
done).

Steps:
- `Call`: the fast path, or taking the mutex;
- `WaitDone`: a caller blocked on the mutex while the function runs;
- `NewClientOk`, `NewClientErr`;
- `Wrap`: the promhttp transport;
- `Publish`: `c.httpClient = client`;
- `Return`.

It is checked through `OtpClientSetup`.

### `OtpClientSetup` (`NewClient`, `client.go:31-38`, and `getRequestBody`, `client.go:84-89`, with `ConfigHttpClient`)

It instantiates `ConfigHttpClient` with the callers `Sessions \X {"twofactor", "discover"}`:
each OTP command is two callers, one per `GetClient` call site. `cmd[s]` is
where command `s` is:
- `NewClient` calls `HttpClient` at the "twofactor" site;
- `NewClientReturn` ends the command on an error or a nil client (`GetClientOk`, modelled from `gitlabnet.GetClient`), and otherwise lets it go on;
- `GetRequestBody` is `VerifyOTP` / `PushAuth` reaching `discover.NewClient`, the "discover" site;
- `DiscoverReturn` is the `if err != nil { return nil, err }` at line 87;
- `ConfigStep` is any step of a caller inside `httpClientOnce.Do`.

What comes after the discover client (the body, the POST) is `TwoFactorVerify`.
There `discover.NewClient` may fail on its own (`DiscoverClientError`), since
that module has one command and no Config. This module shows when it can: only
for a command whose first `GetClient` failed too.

### `ConfigLoad` (`newFromFile`, `parseSecret`, `IsSane`, `client.go:197-319`)

A path is a sequence of segments, absolute when it starts with "/".
`JoinPath` and `DirPath` do what `filepath.Join` and `filepath.Dir` do to
such clean paths.

The inputs are chosen in `Init`:
- the `config.yml` content: readable or not, valid YAML or not, the secret, `secret_file`, `gitlab_url`, `log_file` and `ssl_cert_dir`;
- the config directory;
- the content of each candidate secret file.

Actions:
- `Load`: `NewFromDir(External)` with `newFromFile`, `ParseSecret`, `ResolveLogFile` and `ApplyGlobalState`;
- `IsSane`.

### `TwoFactorVerify` (`client.go:1-105`)

One `VerifyOTP` or `PushAuth` call.

Actions:
- `DiscoverClientError`;
- `BuildBody(lookup)`: `getRequestBody`, with the key-id or user-id choice and the lookup error;
- `PostError`, `PostOk(answer)`;
- `Parse`, `ParseError`.

`EncodeBody` applies `omitempty`.

### `SessionIdentity` (`handleConn`, `sshd.go:219-235`, with `SshdAuth` and `TwoFactorVerify`)

It instantiates `SshdAuth` as `A` and `TwoFactorVerify` as `T`. `T`'s key ids
are the `key-id` strings the handshake can produce, plus "" for none.
- `Handshake`: a step of `A`, the handshake run by `ssh.NewServerConn`.
- `NewSession`: once established, the session is built with `gitlabKeyId` = `sconn.Permissions.Extensions["key-id"]` (`sshd.go:228-235`).
- `Dispatch(c)`: `session.handle` starts command `c`, a verify or a push, with `args.GitlabKeyId` = the session's `gitlabKeyId`. `session.go` is not among the sources, so this step is modelled from design 4.4.
- `Command`: a step of `T`.

Only the 10 s deadline is fair, as in `SshdAuth`; no liveness property is
checked here. The run checks `SshdAuth`'s safety properties in this
composition, so `SshdAuth` needs no separate run.

### `SshdSystem` (`handleConn`, `sshd.go:203-238`, with `conn.handle`)

It instantiates `SshdServer` as `S` and `SessionLimiter` as `L` over the same
`Conns`.
- `ServerStep(A)`: a step of the `ListenAndServe` or `Shutdown` goroutine, or of a handshake. The Connections are unchanged.
- `ConnStep(c, A)`: a step of connection `c`'s Connection. It is possible only while `conn[c]` is serving, that is, while `handleConn` is inside `conn.handle`.
- `ConnFinish(c)`: `handleConn` returns, and its deferred `wg.Done` runs, only after `conn.handle` has returned (`loopPc[c]` = returned). That needs the transport closed and every session handler back.
- `ConnPanic(c)`: only during the handshake. Once serving, `handleConn` only waits in `conn.handle`, and session handlers recover their own panics.

`Shutdown` closes only the listener. A served connection goes on until its
client closes the transport.

### `PrincipalsCheck` (`cmd/gitlab-shell-authorized-principals-check/main.go`, and the older copy in `src/Makefile`)

`variant` (chosen in `Init`) selects the program. The current program's
statements are version flag, executable, config, logger, `cmd.New`,
`command.Setup` and `Execute`. The older program's are executable, config,
`cmd.New` and `Execute`. `pc` is the next statement.

Variables:
- `stderr`: the messages written, as model values rather than text;
- `deferred` and `ran`: the cleanups registered with `defer`, and those that ran;
- `exitCode`;
- the variables of `ConfigLoad`, whose `Load` is the config step over a sample of `config.yml` contents.

`Fail(msg)` writes the message and calls `OsExit(1)`. `OsExit` runs no
deferred call. A successful `Execute` returns from `main`, which runs
`Reverse(deferred)`.

## 4. Runs

| run | cfg | expect | what it shows |
|-----|-----|--------|---------------|
| server_graceful_shutdown | `SshdServer.cfg` | pass | The properties `DrainBeforeClose`, `ReadyImpliesListening`, `LifecycleRefined` (refinement of `ServerLifecycle`), `ShutdownClosesOnceDrained` and `EveryArrivalAnswered` hold. `ShutdownClosesOnceDrained`: once `Shutdown` has set OnShutdown and closed the listener and no handler runs, Closed follows; it holds also without the fairness on clients (checked by hand with those clauses removed), and fails when a panic skips `wg.Done()`. Graceful shutdown itself can wait forever on a stalled client; that is the code's behaviour (hazard `sshd.go:219`), not checked as a property. `ShutdownAfterReady` = TRUE keeps the start-up race out of this run; `shutdown_race` reports it. `EveryArrivalAnswered`: every connection in the backlog is eventually served to its end or refused, whatever its siblings do. Setup: 3 connections, 1 transient Accept error, 1 `Shutdown` after Ready. |
| shutdown_race | `SshdServerShutdownRace.cfg` | violation | `StatusNeverRegresses` is violated. `Shutdown` may come at any time and twice. TLC's trace is the shortest: OnShutdown goes to Ready when `Shutdown` falls between `listen()` and `serve()`. |
| listener_close_once | `SshdServerCloseOnce.cfg` | violation | `ListenerClosedOnce` is violated: the listener is closed by `Shutdown` and again by the defer. |
| session_limit | `SessionLimiter.cfg` | pass | With a limit of 3 and with 0 (unbounded), 5 channels: `SlotsMatchSessions`, `AdmissionRefined` and `EveryRequestDecided` hold. Session returns are not fair in this module, so `EveryRequestDecided` says a request at a full semaphore is rejected at once: a blocking `Acquire` in place of `TryAcquire` violates it. |
| system_shutdown | `SshdSystem.cfg` | pass | `SessionsDrainBeforeClose`: once Closed, no `handleConn` and no session of any connection runs, and every semaphore is back to zero. `ServerRefined`: the composition implements `SshdServer`, fairness included: once its transport closes, each connection's `handleConn` returns, whatever sessions it spawned. Setup: 2 connections with 2 channels each, limit 1, `Shutdown` at any time. |
| principals_check | `PrincipalsCheck.cfg` | pass | For both programs and every failing step: `ExitStatusReportsFailure` (exit 1 with exactly one message after a failure, otherwise 0 and silent) |
| principals_check_cleanup | `PrincipalsCheckCleanup.cfg` | violation | `CleanupsRunOnExit` is violated: `os.Exit(1)` after a failing `cmd.New` (line 52) skips the deferred log close, the only cleanup registered by then; after a failing `Execute` (line 60) it skips that and `finished()`. |
| session_identity | `SessionIdentity.cfg` | pass | Over any mix of queries, signed requests, cache hits, errors and timeouts, `OnlyEligibleKeys` holds: the API sees only non-DSA keys of the configured user, and an established connection carries the decimal id of the key that signed. `OtpForSigningKey`: a two-factor check in the session is reported verified only with a body naming that key's id, and no user id. |
| otp_client_setup | `OtpClientSetup.cfg` | pass | Three OTP commands (six `HttpClient` callers) get one instrumented client, or one error, from a single construction (`CompleteResult`, `SingleConstruction`). As every call returns the same pair, a command whose `NewClient` succeeded cannot fail at `discover.NewClient`; a `Once` replaced by a plain nil check lets a second, failing construction reach it. 1306 states. |
| host_keys | `HostKeys.cfg` | pass | `HostKeysLoaded` holds for every list of up to 3 files and every file-system state: the usable keys are kept in order, one warning is logged per other file, and start-up fails exactly when none is usable. A client error comes first. |
| config_load | `ConfigLoad.cfg` | pass | `SecretFromConfiguredSource`: the secret comes from the YAML, or from the named file relative to the config directory. `ResolvedPathsAbsolute`: an absolute directory gives only absolute paths. |
| two_factor_verify | `TwoFactorVerify.cfg` | pass | `VerifiedOnlyForCaller`: success is reported only for a parsed successful answer to the caller's own body at its own endpoint. |

Findings (details in `PROJECT.json`):

1. `serve()` overwrites a concurrent `Shutdown`'s OnShutdown with Ready. After that, readiness says 200 on a closed listener and the accept loop spins forever.
2. `Shutdown` after Closed moves the status backward. `shutdown_race` allows this, but TLC reports the shorter trace of finding 1. The trace of this path appears when `ShutdownAfterReady` = TRUE. It is listed as a hazard.
3. The listener is closed twice.
4. In principals-check `main`, `os.Exit(1)` on a command failure (lines 52 and 60) skips the deferred `logCloser.Close()` and `finished()`.

### Bounds

- **Three connections.** They give two handlers in flight while a third waits in the backlog when the listener closes, so the drain, the refusal of the backlog and a panic beside a live sibling all occur.
- **One transient Accept error.** It exercises the "log and continue" branch, both before a shutdown and while it is in progress. It also covers the case where the loop breaks because OnShutdown is already set while the listener is still open.
- **Two `Shutdown` calls.** They reach the repeated call.
- **Identity: one session and one command (verify with one of two OTPs, or push).** That is enough: the identity does not change after the handshake.
- **Auth: 2 users and 4 keys.** One key is DSA, one is not owned by the client, and one is unknown to the API. With 3 tries, a query followed by a signed request for another key is reached, as is a cached failure replayed.
- **Three OTP commands, six `HttpClient` callers.** One constructs, one waits on the mutex, and one arrives after the Once is done; a command's second call can come while another command's first one is still constructing.
- **Host keys: lists of up to 3 files over 3 names.** This includes repeats, all usable, none usable, and an unusable key between two usable ones.
- **System: 2 connections with 2 channels each, and limit 1.** One connection can have a session running and one request rejected while the other is still in its handshake when `Shutdown` comes, and `Shutdown` may come before Ready. No symmetry is used, because `ServerRefined` is temporal.
- **Principals check: every failing step, both programs.** Each `config.yml` read outcome (absent, unreadable, bad YAML, good) and each secret-file outcome is sampled.
- **Limit 3 with 5 channels, and limit 0.** This is the design's own scenario (section 8). It reaches "full, reject, free a slot, admit again" and both panic and normal release. The bug classes the mutants cover (off-by-one, leak, double release) all need at most `Limit` + 2 channels.

### Fairness

- **`ListenAndServe` and `Shutdown` goroutines.** Weak fairness on their own steps: a runnable goroutine is eventually scheduled.
- **`Accept`.** Fair per connection, since the kernel backlog is FIFO.
- **Client handshakes and connection ends.** Weakly fair. This is an assumption about clients, not something the code enforces. `NewServerConn` has no deadline, and `Shutdown` does not cancel in-flight connections. Without the assumption, graceful shutdown can wait forever, which is the hazard listed at `sshd.go:219`. Only `EveryArrivalAnswered` needs it; `ShutdownClosesOnceDrained` holds without it.
- **Auth deadline.** Only the 10 s deadline is fair. The API and the client are not. No liveness property is checked on the handshake: that the callback returns would only restate this fairness.
- **`HttpClient` callers.** No fairness: only safety is checked on them.
- **Session returns.** Not fair in `SessionLimiter`: how long a session runs is up to its command and client, and `EveryRequestDecided` must hold without them. Fair in `SshdSystem`, where `ServerRefined` needs connections to end.
- **System: transport close of a served connection.** Weakly fair. This is the same assumption about clients as the fair connection end of `SshdServer`, and it is what `ServerRefined` needs.
- **Principals check.** No fairness. Only safety is checked.
- **Never fair.** Client arrivals, transient errors, panics, the opening of channels, the closing of transports and the decision to call `Shutdown`.

## 5. Not modelled, and why

- **Cryptography of the handshake, proxy-protocol parsing and HTTP transport.** They are I/O. They appear only as the outcomes they produce: handshake ok or fail, Accept ok or error.
- **Command dispatch in sessions.** The design puts it out of scope. Only the identity a session hands to a command is modelled, for the two-factor commands (`SessionIdentity`). The session component therefore stays partly modelled.
- **`Config.GracePeriod` (`client.go:193-195`).** The grace period is used only by gitlab-sshd's `main`, which is not among the sources. (Its conversion `time.Duration(uint64) * time.Second` wraps for values above about 9.2e9 seconds; nothing in the sources calls it.)
- **`gitlabnet.GetClient` and `discover.NewClient`.** They are not among the sources. Each is modelled as one call of `Config.HttpClient` that fails on an error or a nil client (`GetClientOk`).
- **`getStatus` and `changeStatus` (`sshd.go:158-169`).** They are not separate definitions: each locked read or write is one atomic step of the action that calls it.
- **The Makefile's recipes (lines 1-90).** They are build steps, not behaviour of the running system. The older `main.go` appended to the Makefile is modelled in `PrincipalsCheck`.
- **`command.CheckForVersionFlag` output, the executable lookup and `cmd.New`'s argument parsing.** They appear only as their success or failure.
- **Logging and correlation ids.** No property is about them.
