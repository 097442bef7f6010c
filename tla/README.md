# gemone, specified

TLA+ models of gemone: the reward ledger, withdrawals, the way from a provider's
postback to a user's points, and around them accounts and sessions, the
configuration and the caches that follow it, catalogs, clicks, fraud scoring,
throttles, backups and the pages of the web application. TLC checks them on
small instances; TLAPS proves for every instance what the theorems of section 4
say.

Paths are those of the repository (`src/` is its root); `api/` below stands for
`apps/api/src/`, `web/` for `apps/web/src/`. `PROJECT.json` names, for each
definition, the lines it translates: some thirty percent of the implementation's.
The rest is rendering, wording, wiring, data transfer objects and the parts
listed as not modelled.

## 1. Inventory

gemone is an offerwall: users click offers, providers report conversions, and
users are paid in points they withdraw as money. API processes answer HTTP, a
web server renders pages over that API, worker processes run BullMQ jobs,
PostgreSQL holds the state, Redis the queues, the throttles and the invalidation
channel. Two shell containers back the database up.

| Component | State | Operations | What is hard | What makes it correct |
|---|---|---|---|---|
| Reward accounting (`api/modules/rewards`) | `user_balances`, `reward_transactions` | openAccount, credit, debit, reverse, mature, lock, releaseLock, settleLock, reconcile | the checks of reverse, mature and resolveLock precede the balance lock; sums in 32-bit columns | balances equal the history; each credit and lock is acted on once; locks never overdraw |
| Payouts (`api/modules/payouts`, `admin/admin-payouts.service.ts`) | `payout_requests`, audit log, the provider | submit, approve, reject, settle, markFailed, execute | two administrators at one request; execution before the row lock; roll-back after points moved | one lock per request, settled or refunded exactly once; paid only if executed |
| Postback intake (`conversions/postback-intake.service.ts`) | `provider_postbacks`, the postbacks queue | receive, archive, enqueue, mark* | duplicates side by side, an enqueue that fails, an answer that is lost | one row per event; what is acknowledged is archived and counted |
| Conversions (`conversions/conversions.service.ts`) | `conversions` | process, attribute, persist, reverseRewardFor, resolveHold | stalled jobs run twice, retries, chargebacks that race reviewers, lock order | one conversion and one credit per event; status and points agree |
| Maturation and reconciliation jobs (`api/jobs`) | jobs in the queue | sweep, reconcile pages | overlap with chargebacks; a page that throws after it enqueued the next | a hold that elapsed matures once; no balance is skipped unless a page's job fails for good |
| Fraud (`api/modules/fraud`) | evaluations, rules | build context, evaluate, record | counts read before the conversion is inserted; workers side by side; scans of clicks that are cut off | velocity lets no more than its threshold through, and one for each worker, where the scan is whole |
| Clicks (`api/modules/clicks`) | `clicks` | create, resolveSubId | limits counted before the insert; an offer or a registry that changed since the page | limits are passed by no more than the requests in progress; a click promises what its page said |
| Sessions (`api/modules/auth/token.service.ts`, `web/lib/server/api.ts`) | `refresh_tokens`, the browser's cookie | issueSession, rotate, revoke*; refresh, establish, end | rotations and revocations that overlap, tabs that refresh at once, answers that are lost | a token forks only when rotations overlap; a browser loses its session only when the token it presented is dead |
| Verification, passwords (`api/modules/auth`) | `verification_tokens` | issue, consume, confirmEmail, reset | a crash between two statements, two clicks at once | a link does its own work, once |
| Throttles (`auth/*throttle*`) | Redis counters | reserve, release | windows that end between the two, lost commands | no more guesses than the ceiling and what was under way |
| Users, admin users | `users`, audit log | register, setStatus, setRole | the last two administrators demoted at once | an active administrator remains; the trail tells their standing |
| Configuration (`api/core/config`) | values, history, a cache per process | get, set, unset, invalidate | a read that fills the cache after an invalidation; two administrators at one value | what is stale will be heard of; an edit replaces what its author saw |
| Invalidation bus (`api/core/events`) | pending broadcasts, subscriptions | publish, resync | lost broadcasts, two connections that fail separately | every process hears of every write, sooner or later |
| Offers and catalog sync (`api/modules/offers`) | `offers`, `offer_sync_runs` | sync, upsert, prune, (de)activate | overlapping syncs, an administrator during a sync, dead runs | a sync never undoes a decision it saw; it prunes only what was not seen |
| Offer wall and rates (`offer-wall.service.ts`, `rates.service.ts`) | none of their own | wall, offer page, resolve | registries that differ, rates that change under a run | what is shown can be started and pays what it says; a run prices with one set of rates |
| Providers (`api/modules/providers`) | `providers`, health, the registry | update, reload, recordSuccess/Failure | concurrent outcomes, a registry that is stale | the state follows the consecutive failures |
| Source ranges (`providers/internal/ip-range.ts`) | none | ipMatchesRange, isValidIpRange | IPv4 written as IPv6, prefixes of the other family | a range admits exactly its block |
| Administrators' pages (`web/lib` payout-queue, fraud, users; `web/routes/admin`) | the page that is open | buttons and what the API answers | a page that is old | a button does what its page showed, or is refused for a reason that is so |
| Consoles (`web/routes/admin/settings`, `providers`) | forms with versions and switches | edit, reset, register, switch, synchronize | two tabs at once, a broken adapter, a failed reload | a write replaces what the form showed; refusals are true |
| Withdrawals (`web/routes/app/withdraw`, `PayoutsService.options`) | the page that is open | load, submit | settings and balance that change under the form, a lost answer | answers are true; the cap is passed only side by side |
| Lists (statement, queues, wall, accounts) | the page that is open | page, filter | rows that come, go and tie between two pages | whoever reaches the end has seen what was there |
| Backups (`docker/backup.sh`, `backup-remote.sh`) | dumps, objects, receipts | dump, verify, ship, prune | two containers over one volume, each stopping anywhere | a receipt tells of a whole copy |
| Adapters (`providers/adapters`) | none | normalize, build click URL, verify, parse | what a provider sends | in part: see section 6 |
| Notifications, heartbeat, HTTP surface, contracts | little or none | mail, probes, data transfer objects | | not modelled |

They interact in four ways. Services call each other inside one PostgreSQL
transaction whose client is passed along (an administrator's review opens it,
payouts or conversions change the status, rewards moves the points). Intake
hands events to the workers through a queue that may deliver twice. Processes
tell each other of configuration and registry changes over Redis, at most once.
And the web server calls the API for a page that then stands open while
everybody else goes on.

## 2. Modules

| Module | What it is |
|---|---|
| `RewardLedger` | the two tables of the ledger, the row each operation writes, the one step (`Write`) that every movement is, and what reconciliation compares |
| `RewardAccounting` | callers of the service whose transactions overlap |
| `PayoutLifecycle` | abstract: a request's status and where its points are |
| `Payouts` | requests, administrators' handlers, row locks, the provider, the audit log; extends `RewardLedger` and implements `PayoutLifecycle` |
| `ConversionLifecycle` | abstract: a conversion's status and where the points are that it earned |
| `Conversions` | intake, the queue, workers, conversions, hold reviews, the sweep; extends `RewardLedger` and implements `ConversionLifecycle` |
| `Accounts`, `WebSession` | users, refresh tokens, links and administrators' changes; the browser's cookie and tabs over them |
| `InvalidationBus`, `Configuration`, `ProviderRegistry`, `Propagation` | the channel; configuration with its caches, and the registry, over it; their composition |
| `Catalog`, `Clicks`, `Scoring` | one provider's offers, runs and health; clicks on those offers; conversions scored over clicks |
| `Throttles`, `SourceRanges`, `Intake`, `Backups`, `Desk` | a service or a page each |
| `Withdrawals`, `Lists`, `Consoles`, `Wall` | what is done on the pages of the web application, and the services behind them |
| `Services`, `Screens` | sums of the above: one run each |
| `MC*` | instances, symmetry, statements the code does not keep |
| `*Proofs` | theorems about the modules they extend |

### RewardLedger and RewardAccounting

`balance[u]` has the six columns of `user_balances`, `ledger` is the sequence of
`reward_transactions`; a row's id is its position and `source` the id of the row
it acts on. Every operation of `reward-accounting.service.ts` ends in
`lockBalance` then `write`: the balance row is locked, the history row inserted,
the balance incremented, and the transaction commits. Nobody else can touch that
user's balance in between, so `Write` is one step. What an operation reads
*before* the lock is not protected by it: `reverse`, `mature` and `resolveLock`
look for an earlier row first, so each is two steps in `RewardAccounting`
(`ReverseCheck` then `Reverse`, and so on), and a caller's `op` remembers what
it has passed. `lock` decides under the lock and is one step. `debit` is modelled
although nothing in `src/` calls it but its tests: it is a public operation of
the service. The columns are 32-bit; `Int32` is the range -MaxPoints..MaxPoints and a
movement that would leave it fails, as PostgreSQL makes it fail.

### Payouts and PayoutLifecycle

An administrator's request handler is `review[a]`: `executing` and `executed`
(the provider call of `settle`, outside any transaction), `open` (transaction
open, `before` read without a lock), `locked` (the request row held FOR UPDATE
and the transition asserted), `resolving` (`resolveLock`'s check passed), then
`Commit` does the points, the status and the audit entry. `Rollback` may happen
anywhere. `Submit` locks the points and creates the request in one step, as the
balance lock does. Methods, limits and the daily cap only refuse
submissions; `Payouts` submits without them, and so checks more behaviours, and
`Withdrawals` has them. The rest of the system moves the same balances through `Earn`, one step each.

`PayoutLifecycle` has a status and a place for the points (`none`, `locked`,
`spent`, `returned`) and moves both together. `ImplementsLifecycle` reads the
place off the history (`FundsOf`), never off the status.

### Conversions and ConversionLifecycle

`Archive` and `Enqueue` are two steps (the job may never be added). `jobs[p]` is
a BullMQ job: `attempts` and the stall limit bound it, its `holder` is the run
whose lock it has, and `Stall` gives it to another run while the first may still
be working. A run goes `attributing` (all reads and decisions before the
transaction; for a chargeback the conversion it means), `checking`
(`findBySource` and the checks of `reverse`), `locking` (the balance),
`inserting` (the unique key on `postback_id`, which waits for an open
transaction that holds it), `updating` (the conversion being reversed, whose row
a reviewer may hold), `committing`. A run that breaks goes to `failing`, where
`markFailed` writes the postback whatever its state, and the queue retries while
attempts are left. Reviews of held conversions lock the conversion row
(`LockHold`), check the credit (`CheckHold`), move the points under the balance
lock and commit (`ResolveHold`). `Deadlocked` is the cycle between the two; the
database gives either up. The sweep checks one credit and matures it.

Attribution's inputs (click, window, registry, rates, account status, fraud
score) are not stored in the model: `Outcomes` lets them come out in every
combination the code can produce, for every event. Points are compared where the
code compares payout amounts. The foreign key of a reversal row takes its own
lock on the reversed conversion one statement before the update does; the model
waits at the update.

`ConversionLifecycle` is what `CONVERSION_STATUSES` says of each status, as a
state machine: a postback's conversion enters earning nothing, or waiting for
its clock (CREDITED) or for a reviewer (HELD); a reviewer, the clock and a
chargeback move status and points together, a chargeback in the step that
records it; and nothing that was rejected or reversed earns again. Points are
`none`, `waiting`, `free` or `taken`, and the refinement mapping of
`ImplementsLifecycle` reads them off the ledger (`PlaceOf`), never off the
status. Where the points are is told, not how often they were booked: a
chargeback that books its debit twice (`ActedOnOnce`) leaves them `taken`. The
contract's comment that a REJECTED conversion "never earned anything" is true of
the events a provider rejects; one a reviewer confirms as fraud is REJECTED with
its points taken back (`conversions.service.ts:831-838`), and so the life cycle
has it.

### Accounts and WebSession

A caller is a request handler; `req[c]` is where it stands. What it read is
remembered, so it may be old when it writes: `rotate` reads token and account
(`Present`), and only then opens the transaction that spends the token and
issues the successor. A token's `at` is how many tokens there were when its
issuer read, which is how a fork is told from a reuse. setRole and setStatus
lock every active administrator (`held`), decide, write, revoke and audit before
they commit; a roll-back may come anywhere. `confirmEmail` is two statements
with a crash between them, `resetPassword` one transaction. `WebSession` adds
the one cookie of a browser and the web server's requests (`tab`): each acts on
the cookie it read and writes the cookie when its own answer arrives, whatever
the others did. Profile edits are left out: nothing else reads them.

### Propagation

`Configuration` has one key with its rows, the history, each process's cache
with its generation (a read remembers whether it was overtaken), and
administrators' set and unset with their preconditions. `ProviderRegistry` has
each process's snapshot and its chain of reloads. Both extend `InvalidationBus`:
a publisher and a subscriber per process that are lost separately, messages that
reach whoever is subscribed, `announceMissed` and the resync of `establish`.
`Propagation` composes them, with faults and restarts, and keeps `unhealed`: the
stale copies nobody will correct. There are three ways into it: the process was
not subscribed yet, the process that owed the broadcast died, or a reload
failed.

### Catalog, Clicks and Scoring

A run is a job in one of the slots: it reads an offer and writes it at another
statement, sees the offers one by one, counts and prunes; several overlap, and a
run may break off or die. Health is two columns that successes and failures
write in whatever order. `Clicks` counts before it inserts. `Scoring` builds a
context from what is committed, takes the most severe action of the rules that
trigger, and stores evaluation and conversion afterwards; a scoring that fails
credits. The clicks of an address are scanned up to a limit, and beyond it the
answer is any that many of them; the limits (1000 clicks and 200 strangers in
`clicks.service.ts:477-478`) are constants.
`SHARED_DEVICE_ACCOUNTS` (shaped as `SHARED_IP_ACCOUNTS`) is left out, and both
velocities have one window.

### Throttles, SourceRanges, Intake, Backups, Desk

`Throttles`: counters per account, per source and per bucket, with reservations,
releases that may be lost, and windows that end at any time. `SourceRanges`:
`ipMatchesRange` against the blocks of IPv6: an IPv4 address or prefix stands for
its mapped form, and an address lies in a block if their leading bits agree. A
byte is its bits, so that masks and prefixes are about the same thing and no
power of two, which the prover does not know, comes in. `Intake`: the public endpoint with refusals, the unique key, the job,
and failures between any two statements; what processing makes of a row is
`Conversions`. `Backups`: the two scripts step by step, over days, dumps, files,
objects and receipts. `Desk`: the page of a request, a hold or an account, which
shows what it was loaded with while others change the record; `Buttons` are the
forms of the components, and a call of the API is one step, whose inside is
`Payouts`, `Conversions` and `Accounts`.

### Withdrawals, Lists, Consoles, Wall

`Withdrawals`: the form holds to the balance and settings it was loaded with; a
submission reads the settings again, counts the day's requests and commits, and
its answer may be lost. `Lists`: items and total are two queries; rows arrive,
leave, return and tie; the pager leads through; the reconciliation pages by key
in jobs that are tried again while attempts and stalls are left, and then fail;
one worker takes them (`concurrency: 1`). `Consoles`: setting forms with the version of each
scope, and provider cards with registration, switch and synchronization, over a
registry whose reload may fail. `Wall`: each process has a registry made of the
same build and an environment of its own; one run reads three rates and writes
its rows one by one; a visitor goes from the wall to the offer's page to the
redirect, served by different processes.

### Services and Screens

Parts that share no state do not interact, and a product of them would only
multiply states. So a behaviour of `Services` or of `Screens` has one `part`
that moves, chosen at the start, and the rest stands still. The sum is one run
in which every part is checked as it would be alone. Callers, tabs, consoles and
workers of different parts are the same model values, so that one permutation
is a symmetry of all of them.

## 3. Runs

| Run | Question |
|---|---|
| `RewardAccounting` | do the balances keep equal to the history, and rows act only on what they may, when two callers overlap? |
| `ActedOnOnce` (violation) | is each credit reversed and matured at most once? The comments in `reverse` and `mature` say so; the check precedes the lock, so no |
| `Payouts` | do points follow the request's status, whoever reviews it; does it implement the life cycle? |
| `PayoutsLive` | does every review end? |
| `Conversions` | is every event paid at most once, and is every step one of the life cycle, with jobs that stall, run twice, fail and crash? |
| `Chargebacks` | do status, points and reversal rows agree, for two chargebacks that may mean two conversions, beside a reviewer? |
| `ConversionsLive` | does every enqueued job end with its postback decided, and every reviewer let go? |
| `CompletedIsProcessed` (violation) | the processor's comment says no job completes over an unprocessed postback; a retry after `markFailed` does |
| `LocksInOrder` (violation) | a comment says a consistent lock order prevents deadlocks; a chargeback and a reviewer lock in opposite orders |
| `Propagation` | is every stale copy awaited, does every edit replace what its author saw, and do all processes converge, with broadcasts and connections lost? |
| `Services` | do catalog, clicks, scoring, throttles, ranges, intake, backups and the administrators' pages keep their promises under overlap and failure? |
| `Screens` | do accounts, sessions, withdrawals, lists, consoles and the wall, with pages that stand open? |

Properties of the passing runs, beside type invariants:

- Ledger: `Reconciles`, `OnlyDebitsOverdraw`. The only steps that leave a user
  with less than nothing withdrawable are debits and chargebacks.
- Withdrawals under review: `LockFollowsStatus`, `AuditTellsStatus`,
  `LockedIsUnderWay`, `ImplementsLifecycle`, `ReviewsEnd`.
- Events: `PaidOncePerPostback`, `CreditFollowsStatus`, `ReversalIsWhole`,
  `ProcessedHasConversion`, `ImplementsLifecycle`, `EnqueuedIsDecided`,
  `HoldIsReleased`.
- Accounts: `AnAdminAlwaysRemains` through demotions at once; `ForksOverlap`, a
  token has a second successor only of a rotation that read it before the first
  existed; `LinksDoTheirOwn`, passwords set and links spent on them are as many;
  `TrailTellsStanding`; `ClearedIsDead`, the cookie goes only when the token that
  was presented can never be exchanged again (of the token that a refresh has just
  issued, and a second 401 throws away, it says nothing).
- Copies: `StaleIsAwaited`, `EditsReplaceWhatTheySaw`, `Converges`.
- Catalog and wall: `PulledStaysPulled`, no run that saw an administrator's
  decision undoes it; `PrunedWasUnseen`; `HealthTellsStreak`; `WallKeepsItsWord`,
  what is shown has a page, can be started and pays what it said, unless it has
  changed since; `PricedTogether`, a run's rows are priced with one set of rates.
- Limits: `OvershootIsBounded`, `ThrottlesHold`, `VelocityHolds`, `CapIsKept`:
  each is passed by no more than what was under way at once; the velocity of an
  address counts the conversions for which its clicks were scanned whole, for a
  scan that is cut off bounds nothing.
- `RangesAgree`: a source is let in exactly when some block of the list has it,
  whichever form source and block are written in.
- Intake and backups: `IntakeKeepsItsWord`, `ReceiptsTell`.
- Pages: `PagesTellTheTruth`, `FormsTellTheTruth`, `ConsolesTellTheTruth`,
  `WalksMissLittle`, and `SweepSkipsNobody` for the sweep that pages by key: a
  balance is skipped only past the cursor of a job that failed for good before
  its page was done.

Every property has a mutant of the code that breaks it; the mutants stand in the
modules before the definitions they replace.

**Other disagreements the models show, or that were met while modelling**,
without a run of their own. The ledger, payouts and conversions:

- `execute` reads the request's status without a lock, so the provider may be
  asked to pay a request another administrator has just failed or paid
  (`payouts.service.ts:386-390`; the comment at 380-381 says the check prevents
  it, the next sentence concedes part of it).
- `review` reads the audit entry's `before` outside the row lock
  (`admin-payouts.service.ts:134`), so it can name a status the request no
  longer had. `AuditTellsStatus` is about the rest of the trail.
- `toCashMinor` rounds down and the whole amount is settled, while its comment
  (`payouts.service.ts:570-572`) says the remainder stays as points.
- A chargeback takes pending points first, whichever credit they belong to, so
  matured points that were charged back can still be withdrawn and another
  credit's maturation then drives `pending` below zero.
- `markQuarantined` and `markFailed` write whatever the state is: the second run
  of a stalled chargeback finds nothing left to reverse and quarantines the
  postback the first one processed.
- A chargeback of an inactive account is stored as HELD, not ATTRIBUTED as
  `planCredit`'s comment says, and then waits in the review queue.

Sessions and accounts:

- Two rotations that both read the token unused both succeed; `rotate`'s comment
  says a race is handled by revoking the family (`token.service.ts:125`).
  `ForksOverlap` bounds the window to the read. Likewise a session that a
  request issues or rotates on a read from before a reset or a suspension
  survives it.
- A stale tab that clears its session deletes the cookie a newer login has set.
  A refresh whose answer was lost ends in a logout when the old token is
  presented again.
- A 401 of the retried call clears the session although the refresh before it
  succeeded: the refresh token it has just issued is thrown away, and may be live
  (`api.ts:236-240`). The comments at `api.ts:194-196` and `api.spec.ts:349` say
  that a second 401 means the session is genuinely finished.
- The audit entry's `before` of setRole and setStatus is read outside the lock.
- `confirmEmail` can spend a link and crash before it verifies the address.
- A throttle's "exactly `limit`" fails across the end of a window: reservations
  of the old window are still under way, and their releases decrement the new
  one.

Configuration and registries:

- Two first writes of a row pass the precondition together, for there is no row
  to lock; the comment of `assertNotStale` claims the unique index tells one of
  them. `unset` can record an old value that is no longer the one it removed.
- A process hears nothing between its first read and its first subscription and
  does not resync then; one that dies owing a broadcast leaves others stale;
  `reloadAndBroadcast` publishes nothing if its own reload fails.
- `resolve` reads the PROVIDER row and the GLOBAL row in two reads and can
  combine values that were never in force together; the same holds of the three
  rates of a run.

Catalog, wall and providers:

- `offers.service.ts:72-76` says an offer an administrator pulled stays pulled.
  `upsertFromSync` finds and then upserts, so a run that read before the
  decision undoes it.
- Overlapping full runs write `lastSeenAt` backwards, so one can prune what the
  other has just seen (`offers.service.ts:118-121`).
- `offer-wall.service.ts:29` says every offer it returns is one a click would
  accept. A tracking URL with a placeholder nobody fills is accepted by the
  mapping, shown, and fails at every click; and registries of two processes may
  differ. A rate lowered until an offer pays nothing leaves its old row, with
  the old price, until a full run prunes it.
- Conversions are credited at the rates of the moment they are processed, not
  at the click's snapshot.
- `ProviderCard.svelte:268-273` says a synchronization of a disabled provider
  could only be refused; the API's `requestSync` does not ask. It writes its
  audit entry before the job is added.
- When the list of adapters fails to load, the page says that the build ships
  none. A provider whose adapter is broken can be enabled while its
  registration's reload is outstanding or failed. Two enables at once both pass
  and are both audited; the second of two creates ends in 500 rather than the
  conflict it has a code for.
- `isValidIpRange` accepts a mapped range with a prefix shorter than 96, which
  `ipMatchesRange` never matches (`ip-range.ts:96-99`).

Fraud and events:

- `findIdsByIpSince` reads at most 1000 clicks of an address, in no order. An
  address with more of them in the window may have its conversions counted as
  none, and the velocity rule stays silent however many pass. The comment at
  `clicks.service.ts:469-475` says the ceiling changes no decision, for the rule
  has already fired: so it is for accounts that share an identity while the
  threshold is below 200, not for conversions, which are counted after the cut.
- `FRAUD_RULES.IP_CONVERSION_VELOCITY` speaks of conversions within the window;
  the query counts conversions whose click is within it. Counts are read before
  the transaction, a scoring that fails is credited unscored, and the replay
  `rule-engine.ts:22-25` speaks of lacks the context, the minimum and the
  blocklist, which are not stored.
- A provider that reports pending and later confirms under one transaction id is
  answered as a duplicate. If the insert commits and its answer is lost, the
  provider is told 500, the row has no job, and its retry is a duplicate.
- `findBySource`, `requireById` and `configuration.get` use the pool while a
  transaction holds a connection (`conversions.service.ts:646`); workers that
  all hold one can wait for each other. The pool is not modelled.

Pages:

- `users.ts:75-84` says the API permits every status except the current one;
  `UsersService.canTransition` makes CLOSED final, so the page of a closed
  account offers changes that always conflict. A stale page can turn BANNED
  into SUSPENDED.
- `WithdrawForm` says the request was not submitted also when the commit's
  answer was lost; the controller's comment says that after an error nothing was
  locked.
- The "All" tab of the payout queue leads to a URL without a status, which is
  read as PENDING_REVIEW: it never shows all. A list whose open page has fallen
  past its end says that nothing is waiting, with no pager. Items and total are
  two reads, so a list can be left without its Next. Ties on `createdAt` can
  hide a row between two pages, as `wallOrderBy`'s comment says and mends for
  offers only.
- `SettingForm`'s link to reload drops the scope. Its `submitting` is reset
  before the page is updated, so that a second press is told of a change by
  someone else that was one's own. Without scripts a stale refusal reloads the
  new version under the text that was refused.

Backups:

- `backup.sh` moves a dump into place before it reads it back, so
  `backup-remote.sh`, which ships "verified dumps", can ship and receipt one
  that is not, or cannot be, read. `prune_tier`'s "the receipt goes with the
  object" is not what happens: receipts last as long as the local dump.
  `ship_tier`'s remark on modification times differs from what the drill below
  it does. After an outage health turns green with the oldest dump shipped.

### Bounds

Two callers, administrators and workers are enough for a check of one to be
passed by another, and each property relates at most two of them. `MaxRows` and
`MaxPoints` bound the history and the columns; they leave room for a credit, a
chargeback, a maturation and a withdrawal of the same points, and two users in
`RewardAccounting`. `MaxExecutions` bounds how often administrators ask the
provider about one request. In `Conversions` the ledger's bounds are never
reached: three events write at most six rows. One fault or crash may happen
between any two steps; one stall lets a job run twice at once. `MaxAttempts` is
2 where safety is checked and the code's 3 where liveness is.

`Propagation` has a process that serves two administrators of one row and one
manager of providers, and another that only reads: whoever is told and whoever
tells are different processes. Three changes make a copy stale twice while a
read is in flight, and one fault is a lost connection, a failed reload or a
restart.

`Services`, part by part:

- catalog: two offers, two runs at once, one administrator; a behaviour spends
  two runs, or a run and two decisions, or a run and two faults, or four
  clicks, or three clicks and a decision. Both thresholds of health are 1, the inverted setting.
- clicks: a limit of one for a user and of two for an address, two handlers.
- scoring: two workers and three conversions, of two users' clicks from one
  address; or of the first of three such clicks, which are one more than a scan
  returns; or of a click from nowhere. Both velocities have the threshold 0,
  and the rules ask for every action there is. No two of the facts a rule reads
  from the event and the account are out of the ordinary at once.
  Two users are never more strangers than a scan counts, so that limit (200 in the
  code) is a constant the theorem is for and the run does not reach.
- throttles: limits 1, 2 and 1, one lost command, two attempts at once.
- ranges: two bits to a byte, addresses of one byte and of three, which is the
  least with every kind of prefix: within, at and beyond the mapping's.
  A list is emptied before another is set, and each list is reached.
- intake: two events, three requests at once, five deliveries, two failures.
- backups: two days, two dumps, two mishaps; a day kept on the host, and up to
  two in the bucket.
- desk: two accounts, one request, one held conversion.

`Screens`, part by part:

- sessions: two users who are both administrators, two callers, four requests:
  a login and two rotations that overlap, with a demotion beside them; or a
  login, a rotation, and a reset with the link it asks for.
- withdrawals: two tabs, at most three points, a credit of one and a chargeback
  of two, and three happenings (edits, movements, faults).
- lists: pages of one row, three rows, one move; a sweep by one balance whose
  jobs have two attempts (three in `queue.module.ts:53`) and may stall once
  (BullMQ's default), and throw or stall twice in all: enough to fail for good
  either way, before the page is done and after the next one is enqueued. With
  three attempts and three mishaps the properties hold as well, in half as much
  time again.
- consoles: two tabs, a provider that works and one that is broken, four
  presses, one fault.
- wall: one provider, two offers, two API processes of which one lacks a
  credential, a worker, four builds, two changes, one run, one click.

`Conversions` and its derived runs, `Propagation`, `Services` and `Screens` set
CHECK_DEADLOCK FALSE: the system may stop when everything asked of it is done.
The other runs do not.

### Fairness

`PayoutsLive`: a transaction that holds its row goes on or rolls back (weak), and
PostgreSQL grants a row lock to its waiters in turn (strong on `LockRequest` and
`Refuse`). Administrators need not act. `ConversionsLive`: a run continues (strong, its
lock waits are granted in turn), a review continues, a free worker takes a
waiting job (strong: workers are free again and again), a job whose worker is
gone is found stalled. Archiving, enqueueing, the sweep and slow stalls have no
fairness. One fault is assumed, so that not every attempt meets one: a job
that stalls twice is failed by BullMQ with its postback still RECEIVED.

`Propagation`'s `FairSpec`: a request that was begun is served (weak, `Serve`
and `TellProviders`), and a process comes to whatever waits on its event loop
(weak, `Attend`): messages, reloads, and connections, which ioredis reopens
without giving up. Administrators need not act, and faults have no fairness.

## 4. Proofs

From the named assumptions on the constants only, for any numbers of users,
callers, administrators, requests, jobs, processes, tabs, rows, events, dumps.
Every safety property a passing run checks is proved.

- `RewardLedgerProofs`: what `Write` preserves, for every row the operations
  write, and what it does to sums over the history. The prover cannot do
  induction over an operator, so that a sum exists for every finite set is
  proved by the set of least size that lacks one (`Least`, from the library's
  well-foundedness of `<`), and so is that it does not matter which member comes
  first. Cited by the three modules below.
- `RewardAccountingProofs`: `TypeCorrect`, `ActionsMatch`, `RowsConserved`,
  `NoOverdraft`, `Reconciled`. The type invariant is inductive together with
  what each waiting caller has passed: rows are never removed, so a check that
  named a credit still names one when the caller writes. `Reconciles` is
  inductive with it: a step appends one row and adds that row to one balance.
- `PayoutsProofs`: `TypeCorrect`, `ResolvedOnce`, `Paired`, `PaidExecuted`,
  `AuditComplete`, `Reconciled`, `LockedUnderWay`, `Implements`. None is
  inductive alone. `IInv` adds `RowsPointBack` (rows act on earlier rows, so a
  new row cannot resolve a lock that does not exist yet) and `HandlersSound` (a
  handler that holds the request row is alone in holding it, its transition is
  still permitted when it commits, and one about to mark a request paid has been
  answered). With it, each action moves at most one request and at most one
  lock, which is also the step simulation. `LockedUnderWay` then needs the sum
  over the requests under way only to gain or lose the one that moved.
- `ConversionsProofs`: `PaidOnce`, `StatusTellsPoints`, `ReversalsWhole`,
  `ProcessedConverted`, `Reconciled`, `Implements`. The invariant says of each run, at each
  step it can stand at, what it read and what that still means: what it decided
  is what its event permits, the balance and the conversion it waits for, what
  the unique key lets it insert, which row it holds. A run whose job has been
  given to another is no exception, so a stalled job that works on needs no case
  of its own. The step simulation follows: all but three kinds of step leave
  conversions and ledger alone (`OthersStill`); the row that a commit, a review
  or the sweep writes acts on the credit of one conversion, for no two have the
  same (`CreditUnique`), and so moves the points of one postback (`PlaceKept`,
  `PlaceMoved`); and a sweep that comes after a chargeback is a stutter.
- `WebSessionProofs`: `AdminsRemain`, `ForksAreOverlaps`, `LinksDo`,
  `TrailIsTrue`, `ClearedWasDead`, `TypeCorrect`. The invariant adds
  `GripOnAdmins` (whoever decides holds the row of an active administrator,
  nobody else decides, and what was decided leaves one) and `Kinship` (a token
  with a successor is used, and every rotation under way had read before its
  token's successors were made). A token is dead for good once it is used,
  revoked or its account is closed to it, which is what an answer that clears a
  session rests on; one that was exchanged is used (`ClearedWasDead`).
- `PropagationProofs`: `EditsSound`, `StaleAwaited`. The invariant names every
  place the news of a change can be: the message, the publisher's backlog, the
  resync of a connection, the read under way that will see it was overtaken, the
  queue of reloads; and otherwise the copy is among `unhealed`.
- `ServicesProofs`, component by component. `HealthFollows`, `PulledStays` and
  `PrunedUnseen` (when runs started, what they have read and written, and what a
  request to pull has seen). `OvershootBounded`, `VelocitiesHeld` and
  `ThrottlesBound` count what passed the limit by what was under way, by
  injections into the handlers and workers; for the velocity of an address, what
  passed on a whole scan and the jobs whose scan was whole. `KeepsItsWord`: `OneRowEach` is the
  unique key, whoever is about to enqueue is alone with its row, and
  `FewStranded` counts the rows without a job against the failures.
  `ReceiptsTrue`, from what was read back (`FilesRead`) and what is being
  compared (`ComparingSound`). `PagesAreTrue`, an action property over records
  and a page of matching kinds. `RangesTrue`: a mapped address is parsed to the
  last bytes of its long form (`ParsedAs`), comparing whole bytes and then a
  masked one compares as many leading bits (`LeadingBits`), and the bytes that
  are dropped are the same in all mapped addresses. `ServicesHold` puts the
  components together.
- `ScreensProofs`, page by page. `WordKept` and `OneSetOfRates`: a row as it was
  read is the row of the same write, later writes count on, and what a run has
  still to write was mapped at its own rates. `CapKept` and `FormsAreTrue`: what a
  submission counted, and who was beside it. `ConsolesAreTrue`: a form's rows are
  the stored ones of as many edits ago, and none of a later version.
  `ListsInductive` and `WalksAreWhole`: a row's place is the number of rows ahead
  of it; a query returns a row that does not tie at its place; and of the rows
  that stayed, at most as many have slipped before the page's offset unseen as
  rows moved, because one row that leaves moves the others by one place.
  `SweepIsWhole`: each balance of the night is checked, or past the cursor of a
  page to come, or of a job that failed with no attempt through its page, or in
  the page at hand or past all of it; and if it is past all
  of it, the page is full (by the least user who is past a page's worth of
  others).

`ActionsMatchOrigin`, `RowsConserve`, `LocksAndRequestsPair` and `PaidWasExecuted`
are proved and no longer in a run. Most theorems of `ServicesProofs` and
`ScreensProofs` are about a component's own specification. `ServicesHold` and
`ScreensHold` state them of the specifications the two runs check: a step of one
part leaves the others' variables alone (`ServicesAlone`, `ScreensAlone`), and
clicks, which spend the offers' budget, keep what the catalog promises
(`CatalogAmidClicks`). `OvershootIsBounded` is stated there for the parts other
than scoring, which starts from clicks that are given.

Only model-checked: liveness (`ReviewsEnd`, `EnqueuedIsDecided`, `HoldIsReleased`,
`Converges`), for fairness and ENABLED are beyond the prover.

## 5. Plan

1. The adapter's parsing and signature, the connection pool, and the rounding of
   a payout to money (`payouts.service.ts:570-574`) against a reference.
2. `SHARED_DEVICE_ACCOUNTS` and two windows for the velocities in `Scoring`.

## 6. Not modelled

- Notifications send mail from a queue. A mail that is never sent is a link
  nobody spends, which `Accounts` has.
- Worker heartbeat and health endpoints: probes without state.
- Controllers, validation of data transfer objects, logging, wording of errors,
  the contracts package: no state. The sets of statuses and actions are mapped
  where they are read.
- The web application's rendering and the preview of a withdrawal's value.
- How the adapter checks a signature and parses a postback: outcomes of a
  delivery in `Intake`, of a payload in `Conversions`. How it normalizes a
  campaign and builds a click URL is in `Wall`.
- `restore.sh`, which is run by hand. Values of the configuration that its
  schema refuses, and the reload of a read that finds one.
