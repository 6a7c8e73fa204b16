# Fabrixe in TLA+

A verification project for the Fabrixe server and its installation
(`src/fabrixe`).  It holds TLA+ modules that model parts of the program,
configurations that model-check them with TLC, and theorems that TLAPS proves.

Paths below are relative to `src/fabrixe`; `handlers/` is
`backend/internal/api/handlers/`.

## 1. The system

Fabrixe is one Go process that serves an HTTPS API and a React dashboard and
keeps its data in one SQLite file.  `net/http` runs every request in a goroutine
of its own.  `db.New` limits the pool to one connection and no handler opens a
transaction, so a handler is a sequence of atomic SQL statements, between any two
of which another request may run: that is the grain of the models.  `Pool` looks
at that one connection itself.

| Component | State | Operations | Works with |
|---|---|---|---|
| Accounts, login, lockout (`handlers/auth.go`, `security.go`) | `users`: role, password hash, `failed_logins`, `locked_until`, `is_active` | Login, create, update, delete, unlock, change password | sessions (cascade), audit log (foreign key), devices (login records them) |
| Sessions and tokens (`auth.go`, `internal/auth`) | `sessions`: refresh token, expiry; access tokens are signed and live nowhere | issue, validate, refresh with rotation, logout, revoke, expire | signing key (startup), client session |
| Roles and wrappers (`router.go`, `handlers.go`) | claims in the request context | requireAuth, requireRole, claimsFromCtx | every handler |
| Trusted devices | `devices`: fingerprint, trust | record at login, trust, revoke, delete | login |
| Audit log | `audit_logs` | one row per significant action | every handler; its foreign key refuses deletions of accounts |
| Deployments and tasks (`handlers/deployment.go`) | `deployments`, `scheduled_tasks`: configuration, status, last output; running goroutines | create, update, delete, run | operating system |
| Communication nodes (`handlers/communication.go`) | `communication_nodes`: fingerprint, trust, status | add, trust, revoke, delete, ping (5 s, then writes) | peers over HTTPS |
| Node identity (`communication.go:28-102`) | `node_key.pem`, `node_pub.pem`, `.node_id` | made on first use | nodes |
| Database connection (`internal/db/db.go:24`) | the one connection of the pool and who has it | every statement takes it; a list keeps it until its last row | every handler |
| Settings, alerts (`security.go`, `system.go`) | `settings`, `alerts` | upsert per key; resolve (nothing creates an alert) | dashboard |
| Live feed (`handlers/system.go:159-216`, `lib/websocket.ts`) | one connection, ticker and reader per client; reconnect counter and timer | push a snapshot, reconnect, destroy | middleware, tokens |
| Rate limiter (`middleware.go:140-200`) | token bucket per address | take, refill, purge | every request |
| System readings, service actions (`modules/system`) | none that lasts; a snapshot joins five goroutines | read `/proc`, call `systemctl` | live feed |
| Startup and bootstrap (`main.go`, `config.go`, `db.go`, `tls.go`) | `.jwt_secret`, certificate and key, the first rows | load, migrate, bootstrap, certificate, listen, stop | installer, everything |
| Installation (`deploy/install.sh`, `fabrixe.service`) | owner of the files | chown, `-init`, start, restart on failure | startup |
| Client session (`lib/api.ts`, `AuthContext.tsx`) | two tokens in local storage | request, refresh on 401, logout | sessions |
| Polling client (`hooks/useApi.ts`) | last answer, interval | poll, apply, stop | API |
| mDNS responder, other middleware, password hashing, pages | none, or local to one call | | |

What makes each correct, and what is hard about it:

- **Accounts.**  Locked after `max_login_attempts` failures and not before; an
  unlock and a lock both hold.  Hard: `failed_logins` is read with the row and
  written back after a slow password hash, so it may be stale.
- **Sessions.**  A refresh token opens one session, of its own user, once.
  Hard: refresh, logout, revocation, password change, expiry and the cascade of
  a deletion race by token, by id and by user.
- **Wrappers.**  A handler has the claims of its caller.  Hard: the router and
  the handlers use context keys of two different types, so as built it has none.
- **Devices, nodes.**  Trust is what was last decided about that record.  Hard:
  decisions name ids read from a list some time ago; a ping writes late.
- **Audit log.**  Changes are recorded; no row names an account that is gone.
- **Deployments.**  A running row is being run; an outcome belongs to the row.
  Hard: a goroutine outlives its request, its row and sometimes the process.
- **Startup.**  Sessions survive restarts, nobody serves without an administrator
  or with a certificate whose key is missing, of another, or unreadable, and the
  service comes back.  Hard: every file is created, then filled, and the
  process may die between any two writes.
- **Identity.**  One identity, kept.  Hard: check, then write two files, unlocked.
- **Database connection.**  Every statement gets it.  Hard: a statement inside a
  loop over rows, or rows left open while a client reads, would stop the server.
- **Live feed.**  It recovers, gives up only after its attempts, stays quiet once
  destroyed, and the server's goroutines end with their client.  Hard: events and
  timers that come after `destroy`, a reader and a loop that end in either order.
- **Client session.**  A session the server accepts is not lost, and a logout is
  final, as long as exchanges of tokens do not overlap.  Hard: each request refused
  with 401 refreshes by itself, whatever the others do.
- **Polling client.**  It comes to show the data as it is.  Hard: answers overtake
  each other.
- **Rate limiter.**  It serves what a bucket that is never purged would.
- **Readings.**  A snapshot is whole, and a percentage is that of the interval.
  Hard: a join of five goroutines; differences of counters that go round.

`PROJECT.json` lists every hazard at its line, with the properties that cover it
or the reason why none does.

## 2. The modules

| Module | What it is |
|---|---|
| `Auth` | accounts, sessions, tokens, devices and audit log behind the wrappers |
| `TokenChain` | what the session table promises, abstractly; `Auth` implements it |
| `NodeIdentity` | the three files of the node's identity, made on first use |
| `ClientSession` | `request()` of the dashboard, its refresh and retry, local storage, over `TokenChain` |
| `LiveFeed` | the reconnecting WebSocket of a page and the handler that serves it |
| `Limits`, `LimiterState`, `RateLimiter` | the numbers, the state and the steps of the rate limiter |
| `TokenBucket` | what a rate limiter promises, abstractly; `RateLimiter` implements it |
| `PoolState`, `Pool` | the one connection of the database |
| `Snapshot` | the goroutines of a snapshot and the readings of the CPU counters |
| `Polling` | a list of the dashboard |
| `Startup` | main up to serving, the files and rows it makes, the installer, systemd |
| `Deployments` | deployments and tasks and the goroutines that run them |
| `Nodes` | the registry of peers, decisions about them, pings in flight |
| `MCAuth`, `MCStartup`, `MCDeployments` | instances for TLC: symmetry sets, the users of the installation |
| `MCServing` | `Nodes`, `RateLimiter`, `LiveFeed`, `Pool`, `Snapshot`, `Polling` in one instance |
| `MCStorage` | `Startup`, `NodeIdentity`, `ClientSession` in one instance |
| `AuthProofs`, `AuthChainProofs`, `TokenChainProofs`, `StartupProofs`, `DeploymentsProofs`, `RateLimiterProofs` | the proofs about one module each |
| `ServingProofs` | the proofs about peers, database connection, live feed and snapshot |
| `StorageProofs` | the proofs about the node's identity and the dashboard's session |

### Auth

`users`, `sessions`, `devices` and `audit` are the tables; a row that is not there
is `None`.  `req[w]` is the request goroutine `w` serves: `pc` names the statement
it will run next and the other fields are its handler's local variables, so a
stale read is a field of `req` that no longer agrees with a table.  Each action is
one statement with the computation up to it; a handler's first action also does
what precedes its first statement, the check of the token included.  A token pair
is made in the step that stores it.

- *Tokens* are fresh random values.  `pairs` remembers what each one says and
  whether a reply has delivered it: only delivered tokens are presented.  The reply
  of a refresh leaves with its UPDATE, that of a login with its audit row.  `sid`
  names the session a pair was made for; the code's own `sid` claim is a random
  value found in no table.
- *Ids.*  `born` and `listed` are the AUTOINCREMENT sequences: an id is not used
  twice.  A decision about a device carries an id from `listed`, the rows an
  administrator may have on the screen, deleted ones included.
- *Foreign keys* are in `InsertSession`, `WriteAuditLog` (both errors are ignored
  by the code) and `DeleteUserRow` (cascade to sessions, refusal by audit rows).
- *Claims.*  `RouterKey` and `HandlerKey` are the two context keys.  As built they
  differ: a handler reads nil and panics where it first uses the claims, which is
  after its UPDATE in most handlers and before it in ChangePassword and
  DeleteUser.  Runs with equal keys show how the handlers behave otherwise.
- *History.*  `wrong`, `strikes`, `pardoned` and `vetted` are read by properties only.
- *Left out*: names, e-mail and full name (a username is an id, so the UNIQUE
  constraints are in `u \notin born`), the content of audit rows, and the columns
  of other tables that refer to an account.  A hash is its password.

### TokenChain

Sessions open, renew, close; a token may be wasted, when its session has gone
before it could be stored.  `Auth` instantiates it with `holds[s]` the stored
token and `spent` the tokens made that no session has.

### Startup

`pc[p]` is the step a process has come to, for `main` with `-init` (`"setup"`) and
without (`"service"`).  Files have three states, absent, `Empty` (created, not
filled) and whole, because `os.WriteFile` and `os.OpenFile` truncate before they
write; `Crash` ends a process at any step.  `Empty` stands for any content shorter
than a key is accepted with (config.go:154).  `Stop` is the graceful shutdown,
possible once `main` waits for a signal.  `cutShort` is history: a crash has ended
Bootstrap after the administrator was inserted, when settings may be missing.  `Install`, `InitEnds` and `StartService`
are install.sh:99-137, which may be run again at any time; `Restart` is systemd's.
The key of the certificate has an owner, because it has mode 0600 and the two
processes run as different users.  The installation from the Makefile, which
starts the service before `-init`, is not modelled.

### Deployments

`jobs` is both tables; the jobs in `Tasks` are rows of `scheduled_tasks`.  A worker
is a request as in `Auth`; `runs[r]` is the goroutine a run request leaves behind:
executing, ended, recorded, done, or lost when the server stopped.  `stuck` and
`started` are history.

### Nodes

`nodes` is the table, a key stands for its fingerprint.  A ping is three steps:
SELECT, the HTTP request to the peer (`PeerAnswers`, or `PingTimeout` when the five
seconds are over), UPDATE.  It keeps the id it has read in `req` while anything else
happens to the row.  Decisions name ids that were once listed (`born`), deleted
ones included.  `vetted` and `answers` are history.

### NodeIdentity

`disk` holds the three files, absent, `Empty` or whole; `ask[w]` is a request: it
reads the public key or makes a pair, writes two files if so, then reads or writes
the id.  Writing is `Create`, then `Fill`; either may fail and is then skipped
(`WriteFails`), as the code drops the errors.  `raced` and `failed` are history:
with two first requests at once, or a directory that may not be written, the code
keeps neither promise, so both promises are stated for the other cases.

### ClientSession

`req[r]` is one call of `request()`: what runs between two awaits is one action.
`store` is local storage, which a call reads when it is sent, when it is refused
and when it is sent again.  The server side is `TokenChain` instantiated, with the
SELECT and the UPDATE of a refresh apart, as in `Auth`; a token stands for the pair
it was issued in.  An exchange is a login, a logout or a refresh; `mishap` records
that two have overlapped, that one was interrupted, or that a login replaced a
session.  After a mishap the calls in progress end and no more begin (`GoesOn`, a
bound).  `NoBlindRetry` holds with mishaps as well.

### LiveFeed

`feed` is a `FabrixeWS` and its socket; `conn[c]` the server's side of a connection:
a handshake asked for, the loop, the reader, the channel `done`, and whether the
client is there.  An entry is free again when loop and reader have ended.  `valid`
says that the token of the constructor has not expired: it is never replaced.
`Hijackable` says whether the ResponseWriter supports the upgrade: as built it does
not (`feed_refused`), and the other properties are checked as if it did.  The
delays between attempts are left out.

### RateLimiter and TokenBucket

A request and a purge hold the mutex throughout and are one action each.  Time is
in seconds and tokens in sixtieths, so that refills are exact; `Limits` assumes that
a bucket idle for the limit is full, which 300 seconds ensure for any rate.  The
abstract bucket grows with every second and forgets nothing; the refinement maps
its credit to what a refill would find now.

### Pool

A handler waits for the connection, runs a statement or reads rows, and replies.
Rows give it back when the last one was read, which every list handler does before
it replies; the deferred `Close` finds nothing to do.  Panics end a request and
release what it has.

### Snapshot

`wg`, the parts stored and the errors of `GetSnapshot`, and the steps of its
goroutines; storing and recording are under the mutex.  The CPU goroutine also
takes two readings, while the kernel counts on.  `Width` stands for 2^64; counters
start close to it.  `usage` is the quotient of the code as a numerator and a
denominator, without its rounding, and 0 when no counter has moved.  `backwards` is
history: iowait may decrease, and a percentage is then whatever the code makes of it.

### Polling

`shown` is the version of the data on the screen, `fetch` the requests in flight.
A fetch is answered, or fails and shows an error, in any order.

### The two combined instances

The parts of `MCServing` share no state, nor do those of `MCStorage`.  `part` names
the one that moves; the others rest in one of their initial states, in which none
of them has a fair action enabled, so that a behaviour of the combination is one
of a part and each property is checked on all behaviours of its own.  The other
direction, that each part of the combination behaves by its own specification, is
proved (`PartsAreThemselves`, `StorageIsItsParts`).

## 3. The runs

All instances are explored completely.  "Bound" names what is finite only in the
model.

| Run | Instance | What it shows |
|---|---|---|
| `sessions` | 2 accounts, 3 tokens, 2 requests at a time, equal keys, refresh tokens that expire after the tick they were made in | types, foreign keys, tokens keep their owner, and the session table implements `TokenChain` |
| `logins` | 1 account, 2 tokens, 1 device with 2 ids, 3 wrong passwords, 2 requests at a time, keys as built, restarts | no lock without the wrong passwords for it; trust is the last decision |
| `serial` | 1 account, 2 tokens, 3 wrong passwords, *one* request at a time, restarts | lockout, unlock, lock, refresh and role promises hold when requests do not overlap |
| `storage` | startup: 3 keys, 2 certificates, 2 crashes, the users of install.sh; identity: 2 requests, 3 values, 1 crash; session: 2 requests, 3 token pairs, a server that finds its claims | one signing key for ever; who serves is alone, has an administrator, a whole certificate, a key it may read, and the default settings unless Bootstrap was cut off; the service comes back; one identity with its private key; without overlapping exchanges no session is lost and a logout is final; no request is repeated with the token it was refused with |
| `deployments` | 1 deployment, 1 task, 2 runs, 2 requests at a time, restarts, equal keys | running rows are being run; outcomes are own; ends are recorded |
| `serving` | peers: 2 ids, 2 keys, 2 requests at a time, restarts, equal context keys; limiter: 2 clients, bursts of 2 requests, 6 seconds; feed: 2 connections, 3 attempts, 3 faults, upgrades supported; connection: 3 handlers, 2 rows; reading: 2 parts, counters modulo 4; lists: 2 fetches, 2 changes, 2 errors | trust is the last decision about the record, a status is an answer of that record, pings end; the limiter serves what a bucket does that is never dropped; the feed recovers, gives up late and stays quiet once destroyed, and the server lets go of it; every statement runs; a snapshot is whole, its percentage true and never 0 / 0; a list catches up |
| `lockout_exceeded` | as `serial`, two requests at a time | *violated*: two failures counted as one leave the account open |
| `revoked_access` | 1 request at a time | *violated*: the access token of a revoked session is accepted until it expires |
| `unrecorded` | 1 request at a time | *violated*: a change is applied and not recorded, since the handler panics in between |
| `installer` | no crash | *violated*: `install.sh` waits for `-init`, which does not end |
| `feed_refused` | 1 connection, no fault | *violated*: no feed is ever connected |
| `schedule` | 1 task, equal keys: as built no task comes to exist | *violated*: handlers that got their claims could create a task, and nothing would run it on its schedule |

**Why two requests.**  Each hazard found is a race of two statements over one row
or token; a third request adds no new pair.  The theorems in section 4 have no
such bound.

**Bounds.**  `MaxTime`: the clock; two or three ticks let a token, a session and a
lock expire in every order.  A lifetime of 0 expires at the next tick.
`MaxWrong`: wrong passwords per account; one more than `max_login_attempts`, so
that an account is locked, and then again after an unlock or expiry.  `Room`,
`RoomForDevice`: a request that will need a fresh token or id is taken in while one
is left.  `Requests`: the kinds of request an instance sends, to split a run too
large for one; together the runs send all of them.  `MaxCrashes`: two, so that
a recovery is interrupted.  `Fresh` may repeat a key once all are used up, which
takes a lost write, after which `SecretKept` says nothing.  `MaxNow`: six seconds are
enough to spend a burst, to be refused, and to be dropped (after four) and asked
again.  `MaxFaults`: as many as attempts, so that the feed may give up, and may
recover and give up later.  `MaxStops`: one, between any two writes.  Three token
pairs: a login and two refreshes.  `MaxMoves` is below `Width`, as no counter goes
round twice in 200 ms.  `MaxChanges`, `MaxErrors`: two, so that an older answer may
replace a newer one, and an error either.  `Runs`: two goroutines, which
is what an overlap takes.  Symmetry is used in `Auth` only, whose runs check no
liveness.

**Serial and overlapping.**  `LockoutAfterMax`, `UnlockHolds`, `LockLasts`,
`SentTokenIsStored` and `MadeWithCurrentRole` fail with two requests at a time.  For the
first the documentation promises more, and `lockout_exceeded` shows it; for the
others no text in the repository does, and they are stated for one request at a
time: what the handlers do, and the interleavings that break it, are in the
hazards.

**Fairness.**  `Auth` has none; nothing in it must happen.  `Startup`: a process
takes its next step, systemd restarts a failed service (`Restart=on-failure`) and a
script that runs goes on; nobody has to start, stop or install anything, and
crashes are finitely many.  `Deployments`: a request in progress and a goroutine
whose command has ended go on; a command need not end, as nothing limits its time.
`Nodes`: a request goes on and the time limit of a ping passes; a peer need not
answer.  `LiveFeed`: events and timers of the page fire, a handshake is answered, a
read from a dead connection fails, and systemd starts the server again; no write is
assumed to happen, since a snapshot may fail at every tick, nor does anybody have to
leave the page.  `Pool`: statements end, and a handler that waits is not passed over
for ever, which is strong fairness since the connection is taken and freed meanwhile:
`database/sql` hands a freed connection to one of those that wait, without preference; no client has to read its reply.
`Polling`: the interval fires and fetches are answered; none has to succeed, but
finitely many fail.

**Deadlock** is checked except in `serving`, `storage` and `feed_refused`, which may
stop: a snapshot is returned, a page is left, the clock reaches its bound, a session
meets a mishap.

**Mutants.**  Every property of a passing run is violated when one definition is
replaced by a plausible mistake; those definitions precede the ones they
replace and are marked `Mutant`.

## 4. The proofs

TLAPS proves these for every value of the constants, under the named assumptions
`ConfigAssumption`, `TableAssumption`, `RowAssumption` of `Auth` (lifetimes are naturals,
the first administrator exists, `None` is no value), `StartupAssumption`, and
`JobAssumption`, `RowAssumption` of `Deployments`, `NodeAssumption` (`None` is no
value), `LimitsAssumption` (naturals, and an idle bucket is full), `ServingAssumption`
(bounds are naturals, `Nobody` is no handler, the parts of a snapshot are finitely
many, no counter goes round within one) and `StorageAssumption` (`Absent` and `Empty`
are no keys, `None` is no token).  The chain
theorems of `TokenChain` assume only `None \notin Tokens`.

- `TypeCorrect`: `TypeInv == TypeOK /\ RequestsSound`.  `TypeOK` alone is not
  inductive: a handler writes rows from its local variables, so `RequestsSound` says
  what these hold at each `pc`.  One lemma per handler.
- `IntegrityHolds`: `ReferentialIntegrity` is inductive given `TypeInv`; the steps that
  matter are the two INSERTs and the deletion.
- `LocksAreEarned`: the counter in a row, and the counter any login in progress is
  about to write back, are at most the wrong passwords counted so far
  (`LockoutInv`).  Stale writes can only lower it, so a lock needs all of them,
  with any number of overlapping logins, restarts included.
- `DeviceTrustIsDecided`: `DeviceInv` adds that every record was listed, that only listed
  records were decided about, and that no id was ever listed for two fingerprints; so a
  decision reaches the record it was made for or none.
- `SessionTableIsChains`, `TokensKeepTheirOwner`: `ChainInv` says that a stored token was
  made for that session and its user, that two sessions hold different tokens and
  that a refresh in progress carries the session and user of the token presented.
  Every statement on `sessions` is then one of four kinds, each of which maps to an
  action of `TokenChain` or to a stutter.
- `ChainsDoNotShare` is the invariant of `TokenChain`, and `NoSharedToken` carries it
  over to `Auth` through the refinement.
- `OneSigningKey`: `KeyInv` says that a key file is written only by the first `-init`,
  before the service has ever run and before anything is signed, and that whoever
  is past that step holds the key of the file.

- `RunningRowsAreRun`, `OutcomesAreOwn`: neither invariant says enough of the requests
  and goroutines behind a row.  `JobInv` adds that each of them is of a job that has
  been created and set running, that a goroutine has an outcome when its command has
  ended and none before, and that without claims no row is ever created.  Only
  `Restart` leaves a row running with nobody at work on it.

- `TrustIsDecided`, `StatusIsOwn`: `PeerInv` adds that a ping in flight has the id of a
  record that was created and, before its UPDATE, an answer that was given for it;
  since ids are not reused, a record created meanwhile has another id.

- `StartupTyped`, `JobsTyped`, `PeersTyped`: the type invariants of three modules.
- `ServerIsComplete`: `ServeInv` says that once `-init` has come to its end there are an
  administrator and a certificate and nobody writes settings or a certificate any
  more, that `-init` has an administrator from the step on that makes one and, unless
  it was cut off, all settings from the step on after them, and that the service
  never makes either.  Whoever serves has passed the check of the key, and nothing
  changes certificate or key behind its back: the installer's chown, which may come
  while the service serves, gives the key to the service.
- `NoClientOverRate`: what a client was served and what its bucket holds are covered by
  the burst and the time of its last request (`RateInv`); a client without a bucket was
  idle for so long that the burst is covered by time alone.
- `LimiterIsTokenBucket`: the credit of the abstract bucket is what a refill would find.
  A second adds the rate up to the burst, whether the bucket is there or not, a purge
  changes nothing since an idle bucket is full, and a request takes the same from both.
- `NoHandlerWaitsForItself`: `PoolInv` says that a handler has the connection exactly
  while it runs a statement or reads rows.

**Feed, snapshot, identity, session.**  Each theorem is about the part's own
specification (`Feed!Spec` and so on); `PartsAreThemselves` and `StorageIsItsParts`
carry it to the specification the run explores.

- `FeedTyped`, `DestroyedFeedIsQuiet`, `FeedGivesUpLate`: `FeedInv` adds that the server takes at
  most one connection for alive, the one the feed has; that a timer runs only
  without a socket; and that attempts are at most the failures.  Without the last,
  a feed could have used up its attempts with fewer failures.
- `SnapshotsAreWhole`, `UsageIsWhatHappened`: `ReadingInv` says that the WaitGroup counts
  the goroutines that have not ended, those not begun included, that each stores its
  part before it ends, and that between two readings the counters are the first
  reading plus what was counted since, modulo the width.  Any finite set of parts, any
  width.
- `NodeHasOneIdentity`, `NodeCanProveItsKey`: `IdentityInv` follows the files while they are
  made: the maker is alone, the private key comes before the public one, what a
  request has read stays on disk, and what was told is not made again.  It is a
  disjunction with the two histories in which the code promises nothing, a race
  of two makers and a failed write; crashes between two writes are not among them.
- `NoSessionIsLost`, `LoggedOutStaysOut`, `RetriesAreFresh`: `SessionInv` has a part that mishaps
  do not touch (`SessionKnown`: access and refresh token in storage are of one pair,
  no two sessions accept one token, what a call was refused with is not what it will
  send), which gives `RetriesAreFresh` without a condition.  The other part says, for
  each step of an exchange, whether the session is in storage, in an answer under
  way, or gone.

**Stale reads.**  `LockoutAfterMax`, `UnlockHolds`, `LockLasts`, `SentTokenIsStored` and
`MadeWithCurrentRole` fail when requests overlap, so the theorem cannot be `Spec => []P`.
What is proved is the reason.  `CountIsCurrent` says that a failed login about to write
the counter has read its present value; `ReadsAreCurrent` says as much of the account,
the role and the session that the other handlers hold in local variables.

- `OnlyStaleCountsEscape`, `OnlyStaleCountsRelock`: with any number of requests at once, in
  every behaviour with `[]CountIsCurrent` the first two hold.  `CountInv` is the invariant:
  the counter of an account is the number of wrong passwords since its last reset,
  and it is locked once they are enough.  The first assumes `MaxLoginFails > 0`: with 0
  the code locks at the first wrong password, not before it.
- `OnlyStaleReadsClearLocks`, `OnlyStaleReadsSendDeadTokens`, `OnlyStaleReadsSignOldRoles`: likewise
  the other three, which are about steps, from `[]ReadsAreCurrent`.
- `ReadsAreCurrentInTurn`: with one request at a time (`InTurn`) nothing is ever stale.
  So the conditions above can be met, by the instance of `serial` among others, and
  `InTurnAllHolds` is what that run checks, for every value of the other constants.
  With two requests `lockout_exceeded` shows a behaviour that breaks the condition.

Only model-checked, since liveness under fairness is out of the prover's reach:
`ComesBack`, `PingsEnd`, `ServerLetsGo`, `Recovers`, `StatementsRun`, `CatchesUp` (all that is
stated of `Polling`) and `EndIsRecorded`.  Every safety property of a passing run is stated
by a theorem.  That a behaviour of a part is one of the combined instance is argued
in section 2 and not proved: it says that the other parts can rest.

## 5. What the models found

- Concurrent failed logins are counted once (`lockout_exceeded`).
- Revoking a session does not stop its access token (`revoked_access`).
- Handlers read their claims under a key the router does not use, and panic:
  changes without audit rows (`unrecorded`); creation of deployments, tasks and
  nodes, deletion of accounts and change of password never get to their statement.
- `install.sh` never gets past `-init` (`installer`).  When the operator interrupts
  `-init`, the service cannot read the certificate's key, which belongs to root,
  until the installer is run once more.
- A crash between certificate and key leaves an installation no restart repairs
  (main.go:83 looks at the certificate only).
- Nothing reads the schedule of a task (`schedule`).  As built one does not get so far:
  CreateTask panics on the nil claims before its INSERT (deployment.go:319) and
  UpdateTask after its UPDATE, so there is no task; the run is about the handlers
  with that fault repaired, and shows that tasks would still not run.
- A crash while Bootstrap inserts the default settings (db.go:94-107) leaves some of
  them missing for good, since the next run finds a user and skips the rest
  (db.go:67-71); the server serves without them, which `ServesComplete` says with
  `cutShort`.
- The live feed never connects: the logging middleware wraps the ResponseWriter in a
  type without `Hijack` (`feed_refused`).
- Seen while modelling, and outside of what a text of the repository promises: two
  requests refused together refresh with one token, and the loser logs the user out;
  a refresh in flight during a logout stores its pair after `clearTokens` (api.ts:46),
  so that the session comes back;
  `/auth/me` answers 401 for want of claims, so that a reload refreshes and retries
  without end; any failure of that request drops the tokens; two first requests for
  the identity may leave a private key that is not that of the public one; an iowait
  counter that decreases makes a percentage out of range.

## 6. Not modelled, and what is left

- *Settings and alerts*: nothing reads a setting and nothing creates an alert, so a
  model would say nothing but that an upsert stores its value.
  (docs/user-guide.md:65 says that alerts are generated; `createAlert` has no caller.)
- *Password hashing, other middleware, mDNS packets, response types*: pure functions
  or layout, one value in and one out.
- *Service actions and the other readings*: one call of `systemctl`, one pass over a
  file of `/proc`; the program keeps nothing of them.
- *Pages*: rendering of what the hooks return.
- *The scripts* up to the chown and `uninstall.sh`: copying and removing files.
- *Accounts*: names, e-mail and full name; *audit log*: the rows of deployments, peers and
  settings, which those models have as steps without a table.
- *Startup*: the installation from the Makefile, which starts the service before
  `-init`.
- *Client*: a second window with the same storage, and the user shown by the page.

Left to do: type invariants of `Pool`, `Snapshot`, `NodeIdentity` and `ClientSession` are proved
as parts of the inductive invariants and could be theorems of their own; `ClientSession`
shown to implement `TokenChain` on the server's side, as `Auth` is; `Startup` composed with
`Auth` through the signing key, to show that a restart ends no session (today the two
halves are `SecretKept` and the action `Restart` of `Auth`).
