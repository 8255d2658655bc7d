# A TLA+ model of firecrawl-lb

firecrawl-lb is a load balancer for Firecrawl API accounts: a FastAPI service
that picks an account for each request, forwards it, keeps each account's
remaining credits, follows crawl and batch-scrape jobs, and offers an operator
API and a dashboard. Its state is in a database (SQLite by default, PostgreSQL
for several replicas) and, per process, in a few caches and counters. This
directory models the parts whose correctness depends on the order in which
concurrent handlers touch that state.

## Inventory

| Part | State | Operations | Interacts with |
|---|---|---|---|
| Proxy and job handlers (`modules/firecrawl/service.py`, `repository.py`) | tables of accounts, credentials, jobs, request logs | `proxy`, `submit_job`, `proxy_job_operation`, `_record_outcome`, `settle_job_once` | upstream HTTP (awaited in the middle of a handler), database session, routing |
| Routing (`routing.py`, `usage.py`) | none | `select_account`, `estimate_credits` | rows read by the handler |
| Operator API (`admin_service.py`, `api.py`) | same tables | create and update accounts and credentials | races with every handler |
| Refresh scheduler (`refresh.py`) | a pass over all account rows | `refresh_once`, `start`, `stop` | upstream HTTP, one commit per pass, one scheduler per replica |
| Sessions (`db/session.py`) | connections, SQLite's write lock | `get_session`, commit, rollback | everything above |
| Circuit breaker (`core/resilience/circuit_breaker.py`) | state, counters, probe flag, per process | `pre_call_check`, `call`, `release_half_open_probe` | calls that overlap its changes of state |
| Rate limiter (`core/rate_limiter/db_rate_limiter.py`) | table of attempts | `check_and_increment`, `record_failure`, `clear_for_key`, ... | dashboard login and TOTP |
| Firewall (`modules/firewall`, `core/middleware/firewall_cache.py`, `api_firewall.py`) | allow list; decisions cached per replica with a version and a TTL | add, remove, decide | invalidation poller |
| Cache invalidation (`core/cache/invalidation.py`) | version per namespace in the database, known versions per replica | `bump`, `_poll_once` | firewall cache of the other replicas |
| Leader election (`core/scheduling/leader_election.py`) | one lease row, a flag per replica | `try_acquire`, `renew` | nothing calls it yet |
| Dashboard auth (`modules/dashboard_auth`, `core/bootstrap.py`) | settings row: password, TOTP secret and last step, bootstrap token | setup, login, change, remove, TOTP enrol/verify/disable | rate limiter, settings cache |
| Settings (`modules/settings`, `core/config/settings_cache.py`) | settings row, a copy per process | get, update, invalidate | dashboard auth |
| Admission (`core/resilience/bulkhead.py`, `backpressure.py`, `memory_monitor.py`) | semaphores per lane | admit, refuse, release | every request |
| Drain (`core/shutdown.py`, `core/middleware/inflight.py`, `main.py`) | draining flag, in-flight counter | drain start/stop/status, shutdown | every request |
| Retry budget (`core/resilience/retry_budget.py`) | instants of recent retries | `try_acquire` | nothing calls it yet |
| Client address (`core/request_locality.py`, `api_firewall.py`, `dashboard_auth_proxy.py`) | none | whose request it is, whether it is local, which actor header counts | firewall, dashboard auth |
| Release scripts (`scripts/*.py`, `.github/workflows/*-beta-release.yml`) | branches, pull requests, tags on GitHub | prepare, guard, clean up, publish | people, release-please, each other |
| Codex label sync (`.github/scripts/sync_codex_ok_labels.py`) | labels of a pull request | read, decide, write labels, approve runs, ask for a review | overlapping runs of itself, people, Codex |

What is hard here:

* every handler reads a row, awaits the upstream for up to minutes, and writes
  afterwards; other handlers, operators, refresh passes and other replicas
  commit meanwhile (stale reads, lost updates, answers out of order);
* a handler can end at every await (exception, timeout, disconnect, crash);
* caches on several replicas are invalidated by polling;
* counters that must return to zero (in flight, semaphores, the half-open probe);
* scripts that read GitHub in several requests and write on the word of what they
  read, while people and other runs change it.

`PROJECT.json` lists each hazard at the line where it bites, with the property
that covers it or the reason why none does.

## Plan

In this order, the most important behaviour first:

1. **FirecrawlProxy** with the abstract **CreditLedger**, and their proofs (done).
2. **RateLimiter**: never more than `max_attempts` recorded attempts in a window,
   with its proof (done).
3. **DashboardAuth**: first password, bootstrap token, TOTP replay, settings cache,
   with its proof (done).
4. **Firewall**: replicas, poller, TTL; a decision older than the last invalidation
   is not cached; changes arrive; with its proof (done).
5. **Admission**: bulkhead, backpressure, in-flight drain and shutdown;
   **CircuitBreaker**, **LeaderElection**, **RetryBudget** and **ClientAddress**, with
   their proofs (done).
6. **ReleaseTrain** and **CodexLabels**, the scripts around the repository, with their
   proofs (done).
7. Left: **FirecrawlRouting**, the scores of `select_account` and `estimate_credits`
   against a reference definition, and the limits they can enforce with the rows
   they are given. Every safety and action property of the passing runs is proved;
   the liveness properties are not within the prover's reach.

## Modules

| Module | Content |
|---|---|
| `FirecrawlProxy` | tables, handlers, operator, refresh passes; the properties; the parts of the inductive invariants |
| `CreditLedger` | what the proxy promises about balances, without database or sessions |
| `MCFirecrawlProxy` | values of the constants for TLC |
| `FirecrawlProxyProofs` | type correctness, shape of the handlers' state, `JobsKeepTheirKey`, settlement at most once when polls do not overlap; the refinement of the ledger and the properties that need SQLite's write lock |
| `Extrema` | lemmas on least and greatest members of sets of natural numbers, for the proofs |
| `RateLimiter` | the attempts table and the login and TOTP requests around `check_and_increment` and `clear_for_key` |
| `RateLimiterProofs` | type correctness and the bound on attempts in a window |
| `DashboardAuth`, `MCDashboardAuth` | the settings row, its caches, session cookies, the password, TOTP and token requests of all replicas |
| `DashboardAuthProofs` | the inductive invariant of `DashboardAuth` and its six theorems |
| `Firewall`, `MCFirewall` | the allowlist, the decision caches and the invalidation pollers of all replicas |
| `FirewallProofs` | type correctness, what caches forget, what polls tell |
| `Admission` | admission, in-flight counting, drain endpoints and shutdown of one process |
| `CircuitBreaker`, `RetryBudget`, `LeaderElection`, `ClientAddress` | one small component each |
| `MCProcess` | these five modules and `RateLimiter` in one instance |
| `ProcessProofs` | the inductive invariants of the five and their theorems |
| `ReleaseTrain`, `MCReleaseTrain` | preparation, guards, cleanup and publication of betas |
| `ReleaseTrainProofs` | the inductive invariant of `ReleaseTrain` and its three theorems |
| `CodexLabels`, `MCCodexLabels` | overlapping runs of the label script on one pull request |
| `CodexLabelsProofs` | what a run has read and may still write; its two safety theorems |

### FirecrawlProxy and the code

`accounts`, `credentials` and `jobs` are the tables, as committed; a row keeps
the columns the handlers decide with. `ses[s]` holds the local variables and
loaded rows of the handler in database session `s`, `pc[s]` where it waits;
`refresh[r]` is the pass of replica `r`; `writer` is the owner of SQLite's write
lock. `settlements`, `overlapped` and `touched` are history, read by properties
only.

A handler is split exactly where other code can run between its parts *and*
change what it relies on:

* `ListAccounts` - `SelectAccount`: the account rows are selected first, the
  credentials of each account afterwards;
* `SelectAccount` - `LoadForOutcome`: the upstream call;
* `LoadForOutcome` - `Commit...`: between the SELECT of the row to be changed and
  the COMMIT;
* `GetJob` - `LoadForSettlement` - `CommitSettlement`: the same for a job, whose
  own row was loaded *before* the upstream call and is not read again;
* `LoadAccount` - `UpdateAccount`: the operator's read and write.

`Abort` ends a handler anywhere: exceptions, upstream timeouts, a refused write,
a disconnect, a crash. Which candidate `SelectAccount` takes is left open (the
choice is a matter of scores, see `FirecrawlRouting` in the plan), and so is
whether concurrency limits refuse all of them (`RejectRequest`).

Four facts about the database layer carry the model; they are external to the
repository:

* the ORM writes only the columns whose value differs from the loaded one
  (`Merge`); a change back to the loaded value is not written;
* `session.get` flushes pending changes first (autoflush). Each handler adds its
  request log, or changes its job row, before it loads the account, so on SQLite
  it takes the write lock before it reads (`Flush`). pysqlite opens no
  transaction for a plain SELECT, so nothing is locked earlier. The
  `SerialWriters = FALSE` instance is PostgreSQL at READ COMMITTED, where a SELECT
  takes no lock;
* the identity map is weak: the records `list_accounts` read are gone when it
  returns, so `session.get` selects the row again. The job row and its credential
  are held by the poll's handler, and a refresh pass holds all its records until
  its commit: these are *not* read again;
* a `DateTime` column returns naive values, so a comparison of `cooldown_until`
  with `datetime.now(UTC)` raises whatever its value: a Boolean is enough for it.

Assumed of the upstream: credits and readings are natural numbers, a job id is
not used twice. Rows are never deleted: the service has no operation that does.

### RateLimiter and the code

`attempts` is the table, `held[h]` the key and the clock reading of a request.
`ReadClock` and `CheckAndIncrement`/`TooMany` are the two halves of `check_and_increment`: the
clock is read first, and the INSERT with its counting subquery then waits for
SQLite's writer lock. On PostgreSQL the clock is read under the advisory lock of
the key; those behaviours are among the modelled ones. `ClearForKey` is the
endpoint's `clear_for_key` after a right password or code (and after the password
turned out to be unset), `Abandon` everything else that ends a request. `check`,
`record_failure`, `check_and_record` and `cleanup` have no caller in the
application.

### DashboardAuth and the code

`row` is the one row of `dashboard_settings`, `cache[r]` and `filling[r]` the
`SettingsCache` of a replica and what the holder of its lock has read. `req[h]` is a
request: where it waits (`pc`), the cookie it came with and the row it has read.
Passwords, secrets and tokens are present or absent; what a client submits is right
or wrong, both always possible. `up` are the replicas that run. `ver`, `before`,
`accepted`, `setups`, `revived` and `lapsed` are history: `lapsed` says that a removal
ended without its token and that no replica has started since.

A request is split at the awaits that matter: reading the row - checking the password
with bcrypt or the code - selecting the row again - committing - invalidating the cache -
issuing the session. The second SELECT (`SelectAgain`) is there because the identity map
is weak: the row `get_password_hash` read is gone when it returns, so
`set_password_hash` and `clear_password_and_totp` load a newer one. `CommitSetup`,
`AdvanceStep`, `ClearToken` and `StoreToken` are conditional UPDATEs and look at the row
as it is then; `CommitChange`, `CommitRemove`, `CommitEnroll` and `CommitDisable` are the
ORM's UPDATEs of the columns that differ from what was loaded (`Net`). After a removal
`ensure_auto_bootstrap_token` may raise (`EnsureFails`). `Crash` kills a replica with its
requests and its cache; it stays down until `Start`, whose lifespan makes sure of the
bootstrap token, by the same steps as after a removal, before it serves. The `required`
column is in the row because an older release wrote it: no endpoint of this one turns
it on.

### Firewall and the code

`decisions[r]` is `FirewallIPCache`, its version represented by `current`, which says
of a request whether the version it noted is still the cache's. `poller[r]` is
`CacheInvalidationPoller`: the version known, whether it has polled before, and what
a poll under way has read. A change is split at COMMIT, `invalidate_all` and `bump`,
which may fail. Decisions carry the number of changes they take into account
(`asof`), `sent` the change behind each version, `told` what a replica was told of.

### The process: Admission, CircuitBreaker, RetryBudget, LeaderElection, ClientAddress

`Admission` takes a request through `BulkheadMiddleware`, `BackpressureMiddleware`,
the middlewares in between (a stage of its own, because the firewall waits for the
database there), `InFlightMiddleware` and its handler, and `lifespan()` through its
second half. Semaphores are never waited for, so the tests of `locked()` and
`acquire()` are one step. `quiet` is history: what a deployment has been told by
`internal_drain_status`.

`CircuitBreaker`: the lock is never held over an await, so `pre_call_check` and the
bookkeeping after a call are one step each; `_state` is only ever CLOSED or OPEN, the
half-open state is computed from the clock. `LeaderElection` splits `try_acquire` and
`renew` where the clock has been read and the statement not yet run, and where the
row is read back. `RetryBudget` pops its queue from the left as `try_acquire` does, up to
the first instant within the window, and remembers in `granted` what it let through.
`ClientAddress` follows a request from its origin, which writes the
headers it likes, through proxies, which append to them and which the program may or may
not have been told to trust, to the two resolvers of the code. `client` and `since` are
history: the last host on the way that is no trusted proxy, and the trusted ones after
it. Uvicorn's own rewriting of the peer for proxies on 127.0.0.1 is not modelled; it takes
the peer from the same header and only makes such a request look less local.

The server, which is external, runs the lifespan's shutdown when the requests have
ended; `ServerCancels` (TRUE in the instance) is a server that has a timeout and cancels
them first. `cli.py` starts uvicorn without one, so there `StartShutdown` waits.

### ReleaseTrain, CodexLabels and the code

`ReleaseTrain` has commits as trees (a set of changes and the version fields of the
release-managed files), branches, pull requests with their validation evidence, one
run of the sync workflow at a time, and the publish runs of merged pull requests.
`Guard...` are the guard scripts; `Merge` is git's three-way merge of the fields.
GitHub, people and release-please are actions of their own. Betas are also made by hand
(`PushByHand`: any fields, by force, without a new change), and there are any number of
pull requests of other branches (`features`): release-please's, those of a fork whose
branch is named like a beta's, which start a publish run as well, and any other. A pull
request is judged with the main of its check (`green`) and merged into a later one.
`candidates` and `raced` are history. On a merge queue (`merge_group`) the workflow gives
the guard neither head branch nor description, so it refuses every beta; that second
judgement is left out.

`CodexLabels` has one pull request: its head, timeline, review threads, checks, merge
state and labels, and the runs of the script. A run reads in four steps (the
timeline, the comments, the rest of the state, the open threads), decides, and writes
one item at a time, each of which can be denied or fail. Check runs are the required
ones (`Checks`) and others, commit statuses among them (`Others`). A comment carries, as
history, the commit Codex had looked at, which the script does not ask for. `Starts`
bounds what happens besides.

## Runs

| Run | Instance | Shows | Properties |
|---|---|---|---|
| `accounts` | SQLite; 1 account, 1 key, 2 handlers, 1 refresh pass, an operator | the proxy implements `CreditLedger`; only an operator moves a paused, invalid or exhausted account to active; routing can raise only on an account whose status or cooldown an operator changed | `TypeOK`, `RoutingRaisesOnlyIfTouched`, `LedgerSpec`, `OnlyOperatorRevives` |
| `jobs` | SQLite; 1 account, 2 keys, 1 job, 2 handlers | a job keeps its key and its account; charged once unless polls overlap; the ledger with settlements | `JobsKeepTheirKey`, `SettledOnceUnlessOverlapped`, `LedgerSpec` |
| `polls` (violation) | SQLite; 2 handlers, 1 job | two overlapping polls charge a job twice, against the specification's "once" | `SettledOnce` |
| `auth` | 2 replicas, 2 requests, 4 commits, 1 crash, 2 TOTP periods; the password operations in standard mode, and the TOTP operations behind a trusted proxy with a manual token | one setup wins per vacancy; a TOTP step is accepted once; no replica uses settings older than its own commit; TOTP is never required without a secret; a vacant dashboard at rest has a token, unless its making failed or a change was committed over a removal | `TypeOK`, `OneSetupPerVacancy`, `ReplicaSeesItsWrites`, `RequiredTotpCanBeMet`, `VacantHasToken`, `NoReplay` |
| `firewall` | 2 replicas, 1 request, 2 administrators, 1 address, 2 changes, 1 restart | no decision outlives a change its replica was told of; polls miss no announced change; every replica ends up deciding by the list | `TypeOK`, `ToldIsForgotten`, `PollMissesNothing`, `Converges` |
| `process` | 3 requests, 3 calls, 2 candidates, 4 hosts, 2 proxies on the way; limits of 1 and 2; 2 login keys and requests, 4 attempts | permits and the in-flight counter are exact; a drain that reported quiet stays quiet; a shutdown that has begun ends; one probe; counters fit the breaker's state; retries within the budget; a lease is exclusive; the client of a request is found; no window holds more attempts of a key than the limit | `PermitsAccounted`, `InFlightAccounted`, `QuietMeansIdle`, `OneProbe`, `CountersFitState`, `BudgetKept`, `LeaseIsExclusive`, `ClientIsFound`, `LocalIsLocal`, `ActorFromProxy`, `WindowBound`, `ShutdownEnds` |
| `release` | two betas of a train; a train that is retargeted; one beta beside two pull requests of other branches; betas by hand beside the workflow's; betas that go back and forth beside a partial bump; up to 9 commits | what is published was tested; version fields agree unless a partial bump met another version than it was judged with; the workflow's betas advance | `PublishedWasTested`, `VersionsAgree`, `BetasAdvance` |
| `labels` | 2 commits, 2 runs (or 1 with more events), 1 required check and 1 status, up to 3 events and 1 failure | labels end up right; a review is asked for, at most once per overlapping run; only cleared commits are approved, unless a comment on another one came late | `AsksAreBounded`, `ApprovedWasCleared`, `Settles`, `ReviewIsAsked` |
| `token` (violation) | as `auth`, password operations, 7 commits | the later of two removals deletes a valid bootstrap token | `TokenStaysValid` |
| `late` (violation) | as `labels` | a comment on the previous head gets the runs of the new one approved | `ApprovedWasReviewed` |
| `postgres` (violation) | PostgreSQL; 2 handlers | a decrement is lost when two calls succeed at the same time | `LedgerSpec` |
| `cooldown` (violation) | SQLite; 2 accounts, 2 handlers | a cooldown on an active account makes every selection raise | `CooldownExcludesOnlyItsAccount` |

Bounds: every cost is 1 and readings are 2, so that a balance passes through its
reading, a partial value, zero and the clamp at zero, and equal values exercise
the ORM's dropped changes. Two handlers are enough for each race named above (a
reader and whoever commits in between); what larger numbers could add is covered
by the theorems, which have no bounds. `accounts` has no jobs and `jobs` has no
operator or refresh pass: the two halves meet only in the account row, through
the same `apply_success`. Handlers, keys and accounts are symmetric; all
properties checked with symmetry are safety properties. The passing runs
between them take every action. Deadlock is checked where a handler can always be
started; `auth`, `token`, `firewall`, `process` and `release` turn the check off, because
their bounded clocks, commits, changes or phases really come to an end.

In `auth` a tick of the clock is a TOTP period, so a code can be checked in another
period than its row was read and a session expires between two steps of a request; four commits let a removal, its token and a racing
change, setup or second removal all happen; an operation comes only when its commits fit the bound
(`Room`), so no request is stuck half-way by it. Replicas and handlers are symmetric.
In `firewall` the second administrator and the restart give the lost bump, the
conflicting INSERT and the first poll after a change. `process` runs one part per
behaviour, because the parts share no state; the proxy's lane is smaller than the
backpressure limit, so that either can refuse first. In `labels` the five starts trade
overlapping runs against events; a failed request is enough to skip the writes after it.

Every property has a mutant of the code that breaks it: an unclamped balance, a
cooldown left behind by `apply_success`, a read before the write lock, a revival
of any account, a job operation that selects an account anew, a settlement
without its guard, a window that leaves out its oldest instant; an UPDATE without its
condition, an invalidation that does not wait for the lock, a replica that serves before
it has made sure of the token; a decision stored
without `if_version`, a first version that is no news, an entry that does not expire;
permits returned on success only, a counter below zero, a draining flag read too
early, a drain without a deadline; a probe flag that is not asked, a count that is
not cleared; a lease that ends a second early; a header read from the left; a guard
that does not compare trees; a label script that lets the
first answer stand, and so on: `PROJECT.json` names each.

For the limiter a limit of 2 and a window of 2 ticks within a clock of 5 give windows
that overlap in part and rows exactly one window apart; two requests are enough to
insert in the wrong order, since a request that ended can be followed by another.
`MaxTime` and `RowIds` (4 rows at a time) bound the run only; the theorem has
neither bound. The proxies of `process` are a trusted one, one on this machine that is
trusted and one on it that is not. In `release`, `maxFeatures` and `maxByHand` bound the
pull requests of other branches and the betas by hand, and `MaxCommits` (9) all of it.
The bound of `AsksAreBounded` is the number of runs in `Syncs`, so it is loose where a
start has one run only.

### Fairness

Three specifications assume weak fairness, of what the code's own loops do; nothing is
assumed of clients, administrators or failures.

* `Firewall`: `Poll(r)`, because `_run` of the poller polls, sleeps and polls again,
  also after an error, and `Expire(r, ip)`, because `expires_at` is compared with a
  clock that goes on. A lost bump converges by the second, an announced change by
  either.
* `Admission`: `LifespanStep`, because the event loop runs the lifespan's coroutine
  and `wait_for_in_flight_drain` has a deadline. The requests get no fairness: a handler
  may hang for ever. `StartShutdown` gets none either: it is the server's step, and
  uvicorn without a timeout (`cli.py:44-52`) waits for a hanging request, so
  `ShutdownEnds` begins where the lifespan's shutdown has begun. That `stop()` of the background tasks returns is an assumption;
  the hazard at `refresh.py:113` says when it might not.
* `CodexLabels`: `Step(s)`, because the workflow runs on a schedule and its runs end.
  Failures and changes of the pull request are finitely many.

## Proofs

The theorems about the proxy are for arbitrary sets of accounts, keys, jobs, sessions, replicas
and any natural costs and readings, under the named assumptions of
`FirecrawlProxy` (costs and readings are natural numbers, patches and key
statuses are well-formed, `None` and `Keep` are distinct from the values they
stand beside).

* `TypeCorrect`, `JobsKeepTheirKeyCorrect` (both databases). The invariant is
  `Base == TypeOK /\ Rows /\ Shape /\ PassShape`: foreign keys hold (`Rows`), a
  handler at each `pc` holds what that point of the code has computed (`Shape`),
  and a refresh pass has readings only for rows that exist. `TypeOK` is not
  inductive without them: a commit uses the account, the key and the loaded rows
  a handler holds. `Growth` says that rows never disappear and never change owner,
  which keeps every handler's references valid through the steps of the others.
* `LedgerRefinement`, `OnlyOperatorRevivesCorrect`, `RoutingRaisesCorrect`
  (`SerialWriters =>`). They add `Locked`: whoever has loaded a row owns the write
  lock, and the row it holds is the row in the table. The steps are sorted by what
  they do to balances and debts (quiet, take a debt, end one, outside); each
  maps to a step of `CreditLedger` or a stutter. Without the lock all three are
  false; the run `postgres` shows it for the ledger.
* `SettledOnceUnlessOverlappedCorrect` (both databases). `Settled` ties the
  history to the rows: for a job whose polls never overlapped there is at most one
  poll under way, the row it holds has the table's `credits_used_final`, and an
  unsettled row was never charged.

* `WindowBoundCorrect`. `WindowBound` is inductive with type correctness, the
  finiteness of the table and the fact that a request under way has a key. The
  argument for `CheckAndIncrement`: an attempt that shares a window with the new one is at most
  one window older than it, so the INSERT's subquery counted it, whatever the order
  in which the two read the clock. The order of the clock readings is not used: the
  bound also holds for replicas whose clocks disagree.

  `RateLimiterTypeCorrect` comes from the same invariant.
* `DashboardAuthTypeCorrect`, `OneSetupPerVacancyCorrect`, `ReplicaSeesItsWritesCorrect`,
  `RequiredTotpCanBeMetCorrect`, `VacantHasTokenCorrect`, `NoReplayCorrect`, for any
  replicas, requests and bounds, assuming only what `AuthAssumption` says of the
  constants. The invariant `AuthInv` adds to the properties:
  `SetupsCounted` (without a password there were as many removals as setups),
  `StepsBelow` (no accepted step is later than the stored one), `RequiredFalls` (what a
  removal or a disabling read as "not required" still is when it commits, since TOTP
  only ever stops being required: this is what makes the ORM's dropped changes
  harmless here), `Outstanding` (settings older than a commit are held only while the
  request that committed is about to invalidate them) and `TokenOwed` (unless a change
  revived a removed password or a token was left unmade: password and token exclude each
  other, nobody is about to clear a token for a password that is gone, and where both are
  missing some request or starting replica is about to make one). The removal that clears
  another's token is itself such a request; a crash or a failure of one sets `lapsed`, and
  a start unsets it because the replica that starts is one too. `CommitStep` is the part all seven commits share.
* `OneProbeCorrect`, `CountersFitStateCorrect` for any calls, thresholds and timeout.
  The invariant ties the flag to the set of probes itself: it is empty while the flag is
  down and holds exactly one call while it is up (`Probes`).
* `LeaseIsExclusiveCorrect` for any candidates and lifetime. Needed: no
  reading is ahead of the clock and no lease outlives the reading in use by more than
  the lifetime (`LeasesBounded`), and the row of a leader lasts at least as long as the
  lease that leader remembers, also while a statement with an old reading is under way
  (`RowCoversLease`).
* `PermitsAccountedCorrect`, `InFlightAccountedCorrect`, `QuietMeansIdleCorrect` for any
  limits and any finite number of slots. Needed: once the lifespan is past the drain every
  request left is cancelled (`Unwinding`, so nothing is counted after the reset), and a
  quiet process is still draining (`QuietDrains`).

* `BudgetIsKept` for any budget and window. The queue is the end of what was granted, in
  the order of time, and everything before it is older than the window (`BudgetInv`):
  the retries that share a window with the new one are therefore all in the queue, which
  is shorter than the budget.
* `AddressFindsClient`, `AddressLocalIsLocal`, `AddressActorFromProxy` for any hosts,
  proxies trusted or not, forged headers and number of hops. The chain of X-Forwarded-For
  and the peer ends with the client and the trusted proxies after it (`Trail`), so the walk
  from the socket stops at a client that is no trusted proxy, whatever is left of it.
* `FirewallTypes`, `FirewallForgets`, `FirewallPolls` for any replicas, addresses, requests,
  administrators and numbers of changes and restarts. The invariant adds to the types that
  every version has the change behind it (`Numbered`), that a poller is never ahead of the
  table and never goes back (`Behind`), and that a request whose noted version is still the
  cache's holds a decision with all its replica was told of (`Current`): without it a late
  `set` could bring an old decision back.
* `ReleaseTested`, `ReleaseAdvances`, `ReleaseAgrees` for any files, changes, releases, any
  number of pull requests of other branches and betas by hand, and any interleaving of
  merges, pushes, edits and publish runs. Evidence from this repository names tested
  commits only (`Attested`), and the guard of a publication compares trees. Commits form a
  chain by the changes they contain (`Chain`), and a candidate of the workflow keeps a
  releasable change more than the beta after which it was numbered (`Advancing`). That
  version fields agree rests on `Uniform`: the main that every commit is based on had one
  version, and the merge of every judged pull request with the main of its check has one.
  Merging the same head into another main keeps that if either the head sets every field
  to one version or main still has the fields it was judged with; the rest is `raced`.
  `AllSpelled` says that no field is written in a spelling the guards would not
  canonicalise.
* `LabelsAskBounded`, `LabelsApproveCleared` for any finite number of runs and any commits,
  checks, events and failures. The timeline only grows, and an item that answers never
  changes (`Grown`), so what a run concluded from the timeline it read stays true while
  others write (`Informed`): a run that is to approve a commit has seen an answer since its
  push, which is about that commit or a late comment on another. For the
  requests, the runs that have asked since the push and those that may still ask together
  are at most all of them (`Shared`): once there is a request, a run that starts sees it,
  and a request is the last write of a run. The count itself would not be inductive.

Where an argument needs a least or a greatest element of a set of numbers (the first
recent retry, the last head of a timeline, the maximum of the versions a poll has not seen),
it comes from the well-foundedness of the natural numbers (`Extrema`), which stands in for
the induction the provers cannot do. Sequences are reasoned about by
their indices.

Only model-checked: the liveness properties `Converges`, `ShutdownEnds`, `Settles` and
`ReviewIsAsked`, whose proofs would need reasoning about fairness and ENABLED, which is out
of the prover's reach, and the violations.

## Findings

1. `settle_job_once` tests a row loaded before the upstream call: overlapping
   polls charge twice (`polls`).
2. On PostgreSQL `apply_success` loses decrements (`postgres`).
3. An active account with a cooldown makes `select_account` raise a `TypeError`
   for every request (`cooldown`). A 429 does not lead there by itself
   (`RoutingRaisesOnlyIfTouched`), an operator's update does.
4. `clear_password_and_totp` selects the row again and clears its token whether or not a
   password is still set: of two overlapping removals the later one deletes the token the
   earlier one has stored and logged (`token`). `clear_bootstrap_token` has no condition
   either, and a starting replica calls it on the word of a row it read before.
   `VacantHasToken` shows that at rest there is a token again, unless a change was
   committed over a removal, or the last removal failed or died before it made one.
5. A clean comment of Codex counts for the head it arrives at, not for the commit it is
   about: one that comes after a push clears the new head, and its workflow runs are
   approved (`late`).

## Not modelled

`PROJECT.json` lists every component with the reason. In short:

* the scores of `select_account`, per-plan limits and `estimate_credits`: pure arithmetic
  on one row; `FirecrawlProxy` leaves the choice among the eligible accounts open;
* SQLAlchemy's connection pool, `init_db` and `close_db`;
* `update_settings` (no other handler reads its columns), `validate_dashboard_session`
  and the other reads that only describe a session;
* the degradation manager (one assignment per call) and the retry helpers, which the
  request path does not call;
* HTTP clients, metrics, tracing, logging, command line, migrations, backup, the audit
  log, middlewares without state, encryption and the frontend: I/O, formatting or
  third-party behaviour without concurrent state of their own;
* database failures other than those that end a handler or a token store, and proxies or
  tunnels that add no header at all, whose requests no program can tell from local ones;
* the `merge_group` event of the beta guard (it only refuses more);
* the contributor check, packaging scripts, agent hooks, and the building and uploading
  of release artefacts.

The columns of an account that no handler decides with, response formatting and log
contents are left out of `FirecrawlProxy`, and so are the queue columns, which only
narrow the choice of an account. Parsing of addresses, host names, versions and review
texts is reduced to the distinctions the code makes with the result.
