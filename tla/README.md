# Formal models of the ticket platform

TLA+ models of `src/`: a ticket-sale API (NestJS, PostgreSQL) with counters in
Valkey in front of the purchase transaction, a writer mode that moves the
inventory from one table to another under traffic, and a search index fed by
events. TLC checks small instances; TLAPS proves the main results for every
value of the constants.

Paths below are relative to the repository. `purchases.service` stands for
`src/src/purchases/purchases.service.ts`, and so on.

## 1. The system

| Component | State it keeps | Operations | Hard behaviour | What makes it correct |
|---|---|---|---|---|
| Purchase transaction (`purchases.service` `executePurchaseTransaction`, `inventory-writer-control`, triggers of the compatibility migration) | `ticket_inventory` (Event row), `ticket_type_inventory`, `purchases`, `inventory_writer_control` | purchase, replay of a request key, recovery after a lost unique-index race | concurrent READ COMMITTED transactions, two lock orders, lost COMMIT replies, writers of the previous release | no oversell; both tables agree; one decision per key; answers are on record; versions move up |
| Valkey counters (`inventory-cache.service`, `createPurchase*`) | counter and revision per Event and per type | reserve, release, sync (compare and set), init | reply lost after the script ran, resend, eviction, sync against reservations, a plan from another mode | a buyer is not refused by a counter that is short for no reason |
| Event creation (`events.service`) | the Event, its default type, its inventory | create, then initialise the counter | unconditional SET after COMMIT | same as both above |
| Writer-mode switch (`ticket-type-writer-mode-switch`, `switch-ticket-type-writer-mode`) | the control row | preflight, drain, check, update, check, commit, verify | running writers, timeouts, killed tasks, unknown COMMIT outcome | the mode changes over a drained and clean database only; exit codes are true; sales resume |
| Cutover readiness check (`ticket-type-cutover-readiness`) | none of its own | one snapshot of the database, live counters page by page | traffic between two reads | a green check has missed nothing; normal operation is green |
| Counter seed / reconcile CLI (`reconcile-inventory-counters`) | none of its own | seed, reconcile | snapshot older than the barrier, revision read, database read, compare and set | a seed touches the inactive namespace only; no later reservation is overwritten |
| Ticket Type resolver (`ticket-type-resolver.service`) | plans with a TTL, loads in flight | resolve, prime, invalidate | a load that ends after invalidate, shared failures | old loads stay out; one load per miss; bounded staleness |
| Domain events and projection (`domain-events.service`, `search-projection.worker`, `events-projection.store`) | one document per Event in OpenSearch, an SQS queue | publish, consume, apply | loss, duplicates, reordering, batch abort, unversioned messages | the document never goes back and ends up right |
| Rebuild and reconciliation (`inventory-rebuild.service`, `inventory-reconciliation.service`) | none of their own | rebuild, compare | two reads under traffic | converges; reports no false corruption |
| Repair CLI (`projection-repair.service`, `projection-repair.cli`) | none of its own | delete document, delete type, repair | check then act, lost answers | changes only damage; its report is true |
| Sessions (`refresh-tokens.service`, cleanup job) | `refresh_tokens` rows in families | issue, rotate, revoke, clean up | concurrent rotations, logout during rotation, deadlocks, batch deletion | one live token per family; unbroken lineage; history kept |
| Browser (`frontend/lib/api.ts`, cookies of `auth.controller`) | two cookies, one shared refresh per tab | call, refresh, retry, log in and out | calls that expire together, tabs that refresh together, lost replies | when the browser may be taken for a thief; calls settle |
| Rate limit (`rate-limit.service`) | a counter with expiry per key | enforce | two keys per request, window boundary, failing open | at most the limit per window while Valkey answers; waits are long enough |
| Controllers, guards, configuration, observability, pages, Terraform, scripts | none that other parts share | parsing, wiring, output | – | – |

How they interact. A purchase asks the resolver for a plan, reserves in the
counter the plan names, runs the transaction, settles the reservation (keep,
sync or release), and publishes a versioned `InventoryChanged`. The transaction
and `createEvent` hold the shared writer barrier; the switch takes it
exclusively. Triggers copy the active inventory table to the inactive one in
the same transaction. The worker applies published details to the index; the
rebuild reads the database and writes the same documents, and the repair CLI
removes what neither of them would. Before a switch the operators seed the
counters the new mode will use and run the readiness check, after it again. The
sessions and rate limits stand in front of all this and share no state with it.

The hazards this leaves are listed with their lines in `PROJECT.json`.

## 2. Modules

| Module | Role |
|---|---|
| `TicketSale` | abstract specification: types are offered, and a ledger row sells tickets or turns a request down, in one step |
| `InventoryTables` | the committed inventory tables, one step per commit: a second abstraction of the transactions, with versions |
| `PurchaseTransaction` | the transaction statement by statement, other writers and the switch; refines `TicketSale` and `InventoryTables` |
| `MCPurchaseTransaction` | instance for TLC |
| `InventoryCounters` | counters, scripts and purchase paths around a transaction that is one `TicketSale` step |
| `MCInventoryCounters` | instance for TLC |
| `InventoryProjection` | extends `InventoryTables` with publication, queue, workers, document, rebuild and reconciliation |
| `MCInventoryProjection` | instance for TLC |
| `CounterSeed` | extends `InventoryCounters` with the seed and reconcile tool and the switch's barrier |
| `WriterModeSwitch` | the switch tool, its database session, direct SQL and other writers |
| `CutoverReadiness` | the readiness check beside purchases, creations, seeds and the switch that follows it |
| `ProjectionRepair` | extends `InventoryProjection` with damage from outside and the repair CLI |
| `RefreshTokens` | rotations, revocations and the cleanup as row-locking transactions |
| `BrowserSession` | extends `RefreshTokens` with one browser: cookies, tabs, calls and forms |
| `TypeResolver` | the plan cache of one process, step by step between awaits |
| `RateLimit` | the two counters of one endpoint, script by script |
| `MC...` of each of these | instances for TLC |
| `SumTheorems` | facts about finite sums, by induction over finite sets without operator parameters |
| `PurchaseTransaction_proofs` | types, mode barrier, row locks, parity; versions, keys, answers, published details, both refinements, no oversell |
| `InventoryCounters_proofs` | types and coverage of the counters, later reservations; the seed and reconcile tool |
| `InventoryProjection_proofs` | committed states and versions, the document, the rebuild, the reconciliation; the repair CLI |
| `Cutover_proofs` | the switch: exit codes, clean switches; the readiness check: green checks, counters after a switch, postflights |
| `RefreshTokens_proofs` | lineage, one live token, history; the browser and its tabs |
| `TypeResolver_proofs` | old loads, shared loads, staleness |
| `RateLimit_proofs` | the limit per window, the wait |

### PurchaseTransaction

One Event. The committed tables are `mode`, `types`, `event`, `stock`,
`purchases`; what a transaction has written and not committed is in
`draftEvent`, `draftStock`, `result`. `pc` says which statement it has
executed:

    new -> begun -> admitted -> serialized -> resolved -> updated -> mirrored -> inserted -> created
                    (barrier)   (key lock)    (mode,     | (UPDATE   (trigger)   (INSERT)   (COMMIT)
                                               type)     |  ok)
                                                         -> soldout -> inserted
    inserted is also reached by a row that is rejected; a replay, 409, failure
    or unique violation leaves the sequence early.

Locks are not variables. Advisory locks and row locks are held from the
statement that takes them to the end of the transaction, so who holds what
follows from `pc` (`SharedBarrierHolders`, `HoldsRequestLock`, `HoldsEventRow`,
`HoldsTypeRow`). An action is enabled when its locks are free: that is the wait.
A deadlock would be two transactions disabled for ever; `Rollback` stays
possible, as in PostgreSQL, but is not assumed fair, so `EveryPurchaseEnds`
would fail.

| Action | Code |
|---|---|
| `Begin`, `AcquireSharedBarrier`, `AcquireRequestLock` | BEGIN and the two advisory locks, in this order |
| `Replay`, `Resolve` | writer mode, Event row, stored result of the key, Ticket Type |
| `UpdateActiveInventory`, `FindSoldOut` | the guarded UPDATE, or no row and the re-read |
| `MirrorInventory` | forward bridge (legacy) and reverse mirror (ticket_type) |
| `InsertPurchase`, `LoseInsertRace`, `RecoverReplay`, `RecoveryFails` | INSERT under `purchases_request_id_uq` and the catch branch |
| `Commit`, `CommitReplyLost`, `Rollback` | COMMIT with its two outcomes, any failure before |
| `CreateEvent`, `AddTicketType`, `OldReleasePurchase` | other writers, one step each: they hold their locks throughout and are visible at COMMIT only |
| `AcquireExclusiveBarrier`, `CommitSwitch`, `AbortSwitch` | the switch's transaction |

Abstractions: a request's buyer, Event and requestId are one key; ids and names
are model values; reads with no effect on the outcome are part of the step that
uses them. The UPDATE and the AFTER trigger are two steps although they are one
statement: the trigger waits for a second row lock, and that wait is where a
deadlock would be. A rejected purchase is decided when the UPDATE finds no row
and committed later; in between the stock may change, and the refinement shows
that the refusal is still justified then.

### InventoryCounters

`onSale`, `left`, `ledger` are the abstract sale; `present`, `counter`,
`revision` the Valkey keys (a revision that is absent reads as 0); `owed` is
history: tickets a call took, or failed to give back, without anyone knowing.
An attempt goes `new -> planned -> gated -> anchored -> syncing / releasing ->
ended`, or is `refused` by the counter.

A Lua script is one step. `...Unanswered` actions are scripts that ran without
a reply reaching the client, which sends the command again (ioredis,
`maxRetriesPerRequest: 1`) or gives up. `Forget` is an eviction or restart,
`SwitchMode` and `PlansExpire` let a plan be older than the mode. The branch for
a transaction that resolves another type than the plan is kept, although no
state reaches it with one writer release: a plan without a named type exists
only for a single type, and the transaction refuses to guess among several.

Promising too much is allowed: a sync may overwrite a reservation made before
its anchor was read, and a lost COMMIT reply gives tickets back that are sold.
The database then turns the buyer down. The direction that loses sales, a
counter that is short while tickets are left, is what the repository's
production-readiness item M-2 is about, and is what `CounterCoversStock` rules
out except for tickets in `owed`.

### InventoryTables and InventoryProjection

`PurchaseTransaction` commits to the tables what `InventoryTables` says
(`ImplementsTables`), so the projection is modelled on the committed tables and
needs no lock or statement. One Event, as documents of different Events share
nothing but batches.

| Variable | Code |
|---|---|
| `queue` | messages published and not deleted, in flight or not |
| `batch[w]`, `handled[w]` | what a worker received, and the message it has applied but not deleted |
| `doc` | the document's `ticket_types` (`stock`), `event_*` fields (`event`), the top-level quantities that searches show (`total`, `remaining`), and whether its metadata was written (`listed`) |
| `rebuild` | the step of the one rebuild, what it read, the bulk items to do |
| `past` | history: every committed state |

| Action | Code |
|---|---|
| `ListEvent`, `Purchase`, `OldReleasePurchase` | a commit and `publish`, which may lose the message; the previous release publishes no version |
| `ListType`, `Cutover` | commits that publish nothing |
| `Receive`, `Handle`, `Delete`, `AbandonBatch` | `pollOnce`: receive, apply, delete, and an error or a crash in between |
| `ReadAggregate`, `ReadTypes` | the two statements of `iterateAuthoritativeInventory` |
| `WriteMetadata`, `WriteType`, `FinishRebuild`, `AbortRebuild` | bulk items, the final refresh, a failure |

A commit and its publication are one step: a message published late, or after
another commit, is one that is received late, which the queue allows. A message
that EventBridge or SQS gives up, or that lands in the dead-letter queue, is one
that `Publish` lost. Redelivery, and duplicates of SQS, are messages received
again before they are deleted. A script is one step, since OpenSearch repeats an
update whose document has changed. A bulk item that fails stays to do while the
others are executed. The scripts are operators from document to document
(`GuardScript`, `LegacyScript`, `MetadataScript`); `Findings` is the
reconciliation's comparison, asked of every snapshot in `past` and the document
at any later time. Names, places and times of an Event and of a type never
change after creation, so they are one flag.

### CounterSeed

The tool runs `waiting -> paging -> seeding / listed -> ... -> targets -> read
-> compare -> done`; `refused` and `failed` are its exits 2 and 1. Its first
transaction is REPEATABLE READ, so `Begin` fixes `snapshot` and `snapMode` when
the statement that asks for the barrier starts, and `GetBarrier` comes whenever
the barrier is free. `Elsewhere` is every action of `InventoryCounters`; those
that change the database stop while a switch holds the barrier, those on Valkey
alone do not.

Two provisos are part of the properties, because the code needs them.
`SeedsInactive` is stated for a seed that no switch overtook while it waited
for the barrier (`waited`), see section 4. `ReconcileKeepsLater` excepts a
counter that Valkey dropped meanwhile (`lost`): a counter made anew starts at
revision 0 or 1 again and can meet the revision that was read.

### WriterModeSwitch

A task is one execution of the tool; its database `session` is apart from it,
so that a task can die with its transaction open and a COMMIT can take effect
without an answer. Exit codes are the CLI's (0 switched, 1 error, 2 not ready,
3 and 4 verified as switched or not after an unanswered COMMIT). The
verification is a session of its own and the second holder of the exclusive
barrier: `Verify` takes it (the lost transaction holds it to its end), `ReadMode`
reads the mode, `CommitRead` gives it back; between them the tool may fail or die.
`verifier` is who holds the barrier for that, `cut` that its connection is
silently lost (`Disconnected`), `VerifierEnds` that the server ends the session. The rows
themselves are two bits: `parity`, what the checks want under either mode, and
`typed`, stock of further types, which the legacy mode may not have. Direct SQL
may flip both around the table locks.

### CutoverReadiness

The database part of the check is a predicate per category of the SQL
(`DatabaseViolations`); the Valkey part is three passes of single reads,
`TypeCounter`, `TypeRevision`, `Scan`, `EventVersion`, `EventCounter`, with
keyset pages. It reads a snapshot, so direct SQL during a check is left to
after it. Distorted counters are put in place between checks; purchases, event
creation, seeds and evictions go on during them. A purchase is a reservation and
a transaction, without the lost calls of `InventoryCounters`. What OpenSearch
would add is a nondeterministic category: `InventoryProjection` models that
comparison. `still` follows the keys nobody has touched since the check began;
of those a green check must have said the truth. Of the others it cannot: the
counter may have moved since it was read. `upset` and `sound` are history too: a
switch is `sound` if, since its check began, nothing was changed by hand and no
broken revision was evicted. Either can leave a counter behind its row without
the check's noticing, and `NoFalseSoldOut` excepts it: the check has its snapshot,
and a purchase that meets a broken revision takes a ticket from the counter
without knowing of it, to give back nothing when it is refused.

### ProjectionRepair

`Damage` stands for a write around the guard: a quantity of a row changed
under its version (or made no number at all), a type of another Event in the
document, or a document of no Event. The repair reads the database and the
document in separate steps and then writes with one script; every call may fail,
and an answer may be lost (exit 1). Ids come from a reconciliation report, so
the document has held them. A row's name is part of its values. Details of the
previous release do not occur here, as they do not touch what is repaired. Two
limits of the tool follow from the model: an unreadable row of the current
version makes the repair refuse, or its script throw, until a newer version
arrives (`DamageIsRepaired` excepts it), and top-level quantities that alone are
wrong are not compared.

### RefreshTokens and BrowserSession

A token, its hash and its row are one number. A READ COMMITTED statement sees
what is committed when it starts (`StartRevoke` and `StartSweep` fix the rows
they will visit), visits them one by one, waits for each row's lock, and looks
again at what it finds (`RevokeRow`, `SweepRow`). Row locks follow from `tx`
(`Locks`). `Abort` is any failure, or PostgreSQL's choice of a deadlock's
victim. The cleanup relies on transactions being shorter than the retention:
`MaxOpen <= Retention` is an assumption of the module. The daily jobs of the API
tasks exclude each other by a session's advisory lock, which ends with the last
statement at the earliest, so `Sweep` is one job whose batches come at any time;
the number of batches and `minLockHoldMs` restrict it further and are left out.

`BrowserSession` adds one browser. A tab is its refresh request, of which it has
one at a time (`refreshPromise`); calls made in it wait for that one. Tabs share
nothing but the cookies. Replies set or clear both cookies as the controller
does, or are lost. Two variables are history: `lost`, and `crossed`, set when a
tab presents a token that another tab's refresh still carries.

### TypeResolver

One process, single-threaded: a step is what runs between two awaits. A load is
`query -> answered -> settled`, and its three continuations are apart: the
query's snapshot, the code after the await (`Settle`), and `finally`
(`Finally`). `Tick` lets nothing that was asked for take longer than
`MaxDelay`: how old a plan can get depends on it. `StalenessBounded` therefore
says TTL plus one delay, not TTL. Events are created only by
the process that primes its cache with them.

### RateLimit

A request runs its script for the IP key and then for the second key; others run
theirs in between. Clock ticks are fractions of a second, so that the rounding
of Valkey's TTL command is visible. Fail-open requests are not counted in
`admitted`: the code lets them pass on purpose. That ioredis sends a script again
after a lost reply is left out: a request counted twice only fills its window sooner.

## 3. Runs

| Run | Configuration | States | Properties |
|---|---|---|---|
| `purchases` | `MCPurchaseTransaction.cfg` | 542 420 | `StockMatchesLedger`, `MirrorParity`, `OneDecisionPerKey`, `AnswersAreOnRecord`, `ChangesAgree`, `ImplementsSale`, `ImplementsTables`, `EveryPurchaseEnds` |
| `counters` | `MCInventoryCounters.cfg` | 2 105 290 | `CounterCoversStock`, `LaterReservesKept` |
| `projection` | `MCInventoryProjection.cfg` | 123 376 | `DocumentOnRecord`, `RebuildCatchesUp`, `ReportIsRight`, `DocumentNeverGoesBack`, `EveryMessageLands` |
| `sessions` | `MCRefreshTokens.cfg` | 3 210 750 | `OneLiveToken`, `LineageIntact`, `HistoryKept`, `SuccessorsOfLive` |
| `browser` | `MCBrowserSession.cfg` | 246 490 | `ReuseHasCause`, `CookieIsCurrent`, `CallsSettle` |
| `counter_seed` | `MCCounterSeed.cfg` | 3 088 026 | `JobIsWhole`, `SeedsInactive`, `ReconcileKeepsLater` |
| `mode_switch` | `MCWriterModeSwitch.cfg` | 52 705 | `ExitIsTrue`, `SwitchIsClean`, `SalesResume` |
| `readiness` | `MCCutoverReadiness.cfg` | 1 917 222 | `GreenMissedNothing`, `NoFalseSoldOut`, `NormalOperationIsGreen` |
| `repair` | `MCProjectionRepair.cfg` | 276 075 | `ReportIsHonest`, `RepairHolds`, `RepairTouchesOnlyDamage`, `DamageIsRepaired` |
| `resolver` | `MCTypeResolver.cfg` | 6 121 556 | `OldLoadsStayOut`, `OneLoadPerMiss`, `StalenessBounded` |
| `rate_limit` | `MCRateLimit.cfg` | 677 238 | `LimitPerWindow`, `WaitIsLongEnough` |
| `logout_race` | `MCLogout.cfg` | – | `LogoutEndsFamily` is violated, see section 4 |

What each property says stands above its definition.

**Bounds, and why they are enough.**

- `purchases`: two attempts and one purchase of the previous release (a property
  relates at most two transactions and one outside writer), two types so that
  the aggregate differs from a row, one key beside "no key" so that attempts
  share a key or not, quantities 1 and 2 against capacities 2 and 1 so that a
  request is met, met exactly and refused. `MaxInteger` is the sum of the
  capacities. The safety part is proved for all constants (section 5).
- `counters`: two attempts, two types and the Event's counter, each command sent
  at most twice, as the client does.
- `projection`: two types with one ticket in all, two workers, batches of one,
  versions up to 2: messages of both releases and modes, every subset of them
  lost, every order of receipts. A batch of more than one adds messages that are
  handled again, which an undeleted message does as well. Safety is proved for
  all constants.
- `sessions`: two requests at a time, used again and again, three tokens (a
  login and two rotations, or two families), time enough for one token to expire
  and be kept for its retention; the cleanup deletes one family at a time, so
  that it takes more than one batch.
- `browser`: two tabs, one with two calls that share its refresh and one with a
  single call, and one login page, up to six tokens; so a refresh is joined, two
  refreshes cross or follow each other, and the page logs in or out between them.
  The clock stands still and no cleanup runs, which `sessions` covers.
- `counter_seed`: one attempt, two types and one row per page, so that a job
  pages twice with a purchase, a switch and an eviction between any two of its
  steps.
- `mode_switch`: one task that activates and one that rolls back, a writer, a
  direct SQL session, one migration: two tasks at a time already wait for each
  other and for the writer. A second task that activates, so that one may take
  the other's switch for its own, makes 3 598 531 states; all three properties
  hold there too, in a few minutes, and the two safety properties are proved for
  any number of tasks.
- `readiness`: two Events, one of them with two types, one row per page, so that
  a page ends inside an Event. `MaxChanges = 1` is one purchase, one eviction or
  one change by hand in a behaviour, beside any number of created Events, added
  types, seeds, checks and switches. With three such changes on one type
  (3 997 303 states) and two on two types and pages of two (1 230 791) the
  properties hold as well; they are proved for any number.
- `repair`: one type and one of another Event, one worker, one damage (a quantity
  of 0 or no number). With two damages, 978 026 states, all four properties hold
  as well, which takes longer than a run should; the three safety properties are
  proved for any number. The writer mode is fixed: the CLI reads neither tables
  nor document through it, and it only decides which purchases write.
- `resolver`: one Event, so the bound on entries is in the model and no run
  meets it; two callers, three loads, a TTL of 2 ticks and a delay of 1 within 4
  ticks, so that an entry expires while a load is on its way.
- `rate_limit`: two requests at a time, limits 2 and 1, a window of 2 seconds of
  3 ticks within 7 ticks: more than one window, with one failing call of Valkey
  and one request beyond each limit.

INTEGER versions are unbounded numbers: 2^31 commits of one row are out of
reach. Quantities are bounded by `MaxInteger`.

Symmetry is used in `counters`, `sessions`, `resolver` and `rate_limit`, over
requests and attempts only; none of them checks a liveness property. Deadlock is
checked in `purchases`, `projection` and `repair`. In the others the system may
really stop: attempts, loads, calls and tasks are finite there and nothing has
to happen after the last of them.

**Fairness**, and where the code justifies it:

- `purchases`: WF of what an open transaction does next, as the API awaits each
  statement; SF of `AcquireSharedBarrier`, as PostgreSQL serves a lock queue in
  order and a sequence of switches cannot overtake a waiting writer for ever; WF
  of `CommitSwitch \/ AbortSwitch`, as the switch sets `lock_timeout`,
  `statement_timeout` and an idle timeout. Nothing is assumed of faults, of
  `Begin`, of other writers or of switches being started.
- `projection`: WF of `Receive`, as a worker polls again whatever the last poll
  ended with; SF of `Handle` and `Delete`, as SQS delivers a message again until
  it is deleted and a repeated call succeeds at last. If it never does, the
  message ends in the dead-letter queue and counts as lost. Nothing is assumed
  of `AbandonBatch`, of publications or of the rebuild.
- `browser`: WF of a transaction's next statement, SF of a row lock, which is
  granted in queue order, WF of the deadlock's victim (`deadlock_timeout`), WF
  of every reply arriving or failing (a `fetch` settles) and of a page's script
  going on. `CallsSettle` therefore holds over lost replies and deadlocks.
- `mode_switch`: WF of the server ending a switching session, which sets
  `idle_in_transaction_session_timeout`, or completing its COMMIT. The verifying
  session sets only `lock_timeout` and `statement_timeout`, and neither the pool
  nor the database has an idle timeout. There the fairness is that a tool that
  runs and is connected goes on (`ReadMode`, `CommitRead` or `VerifyFails`), and
  that the server notices the closed connection of one that has ended; nothing is
  assumed once the connection is cut. No other step of the tool is fair, and it may
  be killed at any of them.
- `repair`: an operator who keeps starting what is left to repair (SF), a CLI
  that goes on to its end (WF), which is an exception when the script throws, and
  calls that otherwise stop failing at some time. Nothing is assumed of the
  worker, the rebuild or the purchases.

**Mutants.** Each property has a mutated definition, kept before the original and
marked *Mutant*, under which TLC finds it violated: a decrement without its row
lock, a barrier released early, an unconditional sync, a rotation that does not
look at the locked row again, a seed of the namespace in use, a page cursor that
skips the rest of an Event, a `finally` that removes another load's entry, a
counter without expiry.

## 4. Findings

`logout_race`: a logout is one UPDATE over its family. It sees the rows
committed when it started; if a rotation of the family has not committed yet,
the UPDATE waits for the rotated row, revokes it, and never sees the successor.
The session can be refreshed after a logout that reported success
(refresh-tokens.service 208, 213).

Other places where code and comment part are provisos in the properties that
hold without them:

- The catch branches of a purchase give a reservation back "only if the
  transaction was not decided" (purchases.service 239, 444, 729), but `COMMIT`
  can throw after it took effect. `InventoryCounters` has that step; the counter
  then promises too much, which costs a query and no ticket.
- A refresh token used twice is taken for a theft (refresh-tokens.service 6,
  139). Two tabs of one browser may refresh with the same cookie, and the single
  flight is per tab: the second is revoked with the whole family.
  `ReuseHasCause` allows for this case (`crossed`) and for a lost reply, and
  for nothing else; TLC reaches a revocation with either one alone.
- The counter seed takes its snapshot before it holds the barrier
  (reconcile-inventory-counters 230; the comment at 22 has them the other way
  round): the first statement of the REPEATABLE READ transaction is the one that
  waits. A switch that commits in between leaves the tool seeding the namespace
  that has just become active. `SeedsInactive` excepts a seed that waited.
- Nor is a seed alone in its namespace (comment at 285): cached plans of the
  other mode, and the initialisation after `createEvent`, write there. A
  reconcile meets them as a changed revision.
- The switch verifies an unanswered COMMIT by reading the mode again (323, 330).
  Another operator's switch before that reading makes exit 4 wrong; and a task
  whose session was ended before its COMMIT takes another task's switch to the
  same mode for its own, and ends with exit 3. `ExitIsTrue` is stated for tasks
  that were `alone` since they checked the mode.
- The switch sets an idle timeout so that no silent client keeps the barrier
  (161–172). The verification after an unanswered COMMIT takes the same barrier
  (343–351) without one: if its connection is lost without a word between the two
  awaits, purchases wait until the server notices by other means (TCP keepalive).
  `SalesResume` excepts exactly this (`cut`); without the exception TLC finds
  `Verify`, `Disconnected`, `Killed`.
- A plan is stale for up to the TTL plus the delay of its query, not the TTL
  (resolver 163, events.service 154, ADR-0032).
- Valkey's TTL rounds; a TTL of 0 makes the rate limit tell a client the whole
  window (rate-limit.service 134, 149): long enough, longer than needed.

## 5. Proofs

All theorems hold for every value of the constants that meets the named
assumptions, which are these: the default type is a type and the "no ..." values
are outside their sets, and null is no row; quantities are positive, capacities fit INTEGER, attempts
of the two releases differ; where a property is about sums or counts
(`InventoryCounters`, `RateLimit`, `CutoverReadiness`) the sets involved are finite;
an Event has one default type, as `createEvent` makes it; there is a user;
tokens have a lifetime, and no transaction outlives the retention
(`MaxOpen <= Retention`). Only `OneTabNeverCrosses` has a hypothesis more, one tab,
without which it is false (section 4).

**Purchase transaction.** The safety invariants are not inductive by
themselves. The chain is

1. `TypeInv`: types, that a request past `Begin` was parsed, and that an
   inserted row is the attempt's own;
2. `ModeInv`: the exclusive barrier excludes admitted transactions, so the mode
   that was read stays current (`WriterModeStaysHeld`), and the types resolved
   stay on sale;
3. `RowLocksExclusive`: two transactions never hold the same row;
4. `StockInv`: parity, and for every draft: it was computed from the committed
   row that its lock still protects. Together `RowInv` (`RowInvariant`), from
   which `ParityHolds` and `VersionsOnlyAdvance` follow;
5. `LedgerInv`: an inserted, uncommitted row has a key that no committed row and
   no other uncommitted row has, because of the index (`KeysDecidedOnce`,
   `AnswersRecorded`);
6. with 4 and 5, each step is a `TicketSale` step or a stutter
   (`SaleImplemented`), and remaining plus sold stays the total (`NoOversell`),
   where `SumTheorems` takes one term out of a sum;
7. `ChangesInv`: published details agree with the tables at their versions
   (`ChangesConsistent`);
8. with 4 and the drafts' versions, each step is an `InventoryTables` step or a
   stutter (`TablesImplemented`). The projection's theorems rest on this: they
   are about the committed tables.

**Counters.** `CounterInv` strengthens `CounterCoversStock` with what an attempt
at each step may hold (`InFlight`), with what a type offered and a counter not
yet initialised have in common (`Offered`), and with what a sync in flight will
write (`Pending`): the remaining quantity it carries covers the tickets left,
because no step adds tickets to a type that is on sale. Each script then moves
tickets between counter, reservations and `owed`
(`BalanceKeepsCover`), or replaces the counter by a value that covers the stock
alone.

`LaterReservesStay` has an invariant of its own, `Anchored`: as long as a type's
counter is there, no anchor is ahead of its revision, and an attempt that holds
a reservation has an anchor of its own time. A sync that overwrites compares the
revision with its anchor, so whatever was reserved after that has moved it away.

**Seed and reconcile**, on top of that, with pages of any size. `SeedInv` is three
facts. `JobInv`: what lies behind the cursor is exactly what has been handled (or
listed), a page starts after the cursor and leaves out no row before its last, so
the job that ends has met every row (`JobsAreWhole`). `SeedModeInv`: a job that
holds the barrier shares it with no switch, so a seed that was not overtaken while
it waited has seen the mode that stays until it ends (`SeedsStayInactive`).
`CompareInv`: the revision of a counter that stays never falls behind the one read
before the database, and each reservation moves it past that, so the comparison in
the script keeps it (`ReconcileKeepsReserves`).

**Projection** (any number of workers, types, purchases; any order). The argument
is about versions as names of committed states:

1. `Commits`: every commit moves the Event's version up, and the version of each
   type's row that it changes; the reverse mirror and creation included;
2. `History` (`CommitKeepsHistory`): hence the Event's version identifies a
   committed state, a type's version a row of that type, and nothing on record
   is beyond the tables;
3. the scripts: rows are replaced by later ones only, and the quantities shown
   follow the versioned ones (`VersionedApplied`, `LegacyApplied`,
   `MetadataApplied`);
4. `IInv`: the messages and the rebuild hold rows on record, and the types a
   rebuild read are not from before the aggregate it read (`SourceInv`); the
   document holds rows on record, and what a rebuild has written has reached it
   (`DocumentInv`).

From this follow `DocumentRecorded`, `NoContradiction` (two rows on record with
one version are one row), `NeverBack`, `RebuildRepairs` and `ReportRight`. The
last one says why the report may leave the top-level quantities out: they follow
the versioned ones in every state.

**Projection repair**, on top of that, with any number of damages. `SourceInv`
says nothing of the document, so it survives damage. What takes the place of
`DocumentInv` is what a repair relies on: an Event that does not exist sends no
message, and a type of another Event is in none, so nothing brings back what was
deleted (`OnlyDamageIsTouched`, `RepairsHold`); the snapshot a repair holds is on
record, and since versions identify committed rows, a row of the snapshot's
version that differs from it was never committed, and one that agrees with it
agrees as long as only rows on record replace it. `ReportsStayHonest` follows
from what a run keeps of its own writes. The proof corrected one property:
`RepairTouchesOnlyDamage` once took a second damage, at the time a run was about
to write, for a step of the run.

**Writer-mode switch** (any number of tasks, writers and sessions of direct SQL).
`TaskInv` says of each task what its session holds (`SessionInv`, `LockInv`), what
its checks have established and nobody can have undone since (`Ready`), and what
its exit code or its way to one promises (`Verdict`); `Drained`, that the
exclusive barrier has one holder, to switch or to verify, and leaves no writer
admitted. So the mode cannot change between a verification's read and its end. `EverySwitchIsClean` follows from
`Ready` at the COMMIT, `ExitStaysTrue` from `Verdict`.

**Readiness check** (any Events, types and capacities, pages of any size, any number
of changes). `ReadinessInv` (`ReadinessInvariant`) has these parts:

1. `PageInv`: a page has the first rows beyond the cursor and, unless it was full,
   all of them; so whatever lies behind the cursor has been read (`CheckSees`);
2. `Orderly`: tables without violations, put positively (`GreenMeansOrderly`); sales,
   creations and added types keep them so, sums included (`OrdinaryKeepsOrder`);
3. `GreenInv`: of the keys nobody touched, what was read still holds. At the end
   everything is behind the cursor (`GreenChecksMissNothing`);
4. `SwitchInv`: of the counters of the other namespace, touched or not. One that
   was read as its row covers its row ever since (`CoverKept`), because rows only
   fall and every script leaves its counter right, except a reservation that meets a
   broken revision. That leaves the revision broken (`Sure`), and none breaks of
   itself (`NoNewBroken`); the check reads a type's revision after its counter and
   an Event's before, so one that ends green has ruled it out;
5. `SoundInv`: the switch hands this over to the namespace now in use, where it
   lasts (`SwitchesTurnNobodyAway`);
6. `CalmInv` and `QuietInv`: in normal operation a counter in use is its row less
   what the purchase under way holds, no counter is above its total, and a check
   that nobody disturbed reads exactly that (`PostflightsAreGreen`).

The proof corrected `NoFalseSoldOut`: step 4 fails when a broken revision is evicted
between the purchase and the check's reading of it, and TLC then found the
behaviour, of four changes, more than the run's bound.

**Sessions.** `Chain`: beside `LineageIntact`, a family has one token without a
successor, so one that can be live (`OneTokenLives`). It survives because a
rotation keeps its row's lock from the check to the COMMIT (`TxInv`), locks
exclude each other (`LocksExclude`), rows inserted and not committed differ
(`OwnSuccessors`), and the cleanup takes whole families that are too old for any
open transaction to extend (`SweepInv`, where `MaxOpen` comes in).
`LineageStaysIntact`, `HistoryIsKept` and `SuccessorsHaveLiveParents` follow from
the same invariant.

**Browser, with any number of tabs.** A revocation that has the end of a chain has
the whole chain (`RevokedTogether`): the window of `logout_race` leaves a live end
behind, never a revoked one with a live past. A granted token that has not
reached the browser is nowhere else (`Undelivered`). Until a reply is lost or two
refreshes cross (`Undisturbed`), the refreshes in flight carry different tokens
(`SoleTokens`), none of them used by another (`HonestTab`), and a cookie whose token
is used belongs to the refresh that is about to replace it (`UsedIsAnswered`).
`Honest` joins the three; `BrowserIsNoThief` and `CookieStaysCurrent` follow. With
one tab nothing crosses (`OneTabNeverCrosses`): a request that is not under way
carries no token (`IdleIsEmpty`).

**Resolver.** `EntryInv` bounds how old a cached plan is, `LoadInv` says which
loads may still write one, `TokenInv` that no two loads share a token and that
the load an Event's misses share is younger than the Event's last invalidation. From these `OldPlansStayOut`,
`MissesShareOneLoad` and `PlansAreRecent`.

**Rate limit.** `LimitHolds`: a request that the script has counted and whose
answer is to come keeps its place in the window's count (`RequestInv`), so the
admitted and the pending together never exceed the counter. `WaitSuffices`: the
windows a request exceeded end within the wait it is told, but for the half
second that Valkey's TTL may round away (`OverBy`).

**Model-checked only**: everything temporal (`EveryPurchaseEnds`,
`EveryMessageLands`, `CallsSettle`, `SalesResume`, `DamageIsRepaired`: liveness is
beyond the provers). The other way round,
`TypeOK` of the proved modules, `WriterModeHeld`, `VersionsAdvance` and
`GuardNeverThrows` are proved and listed in no run. The theorems hold of `Spec`
(`SeedSpec`, `RepairSpec`), and so of every specification that adds fairness.
The inductive invariants of `RefreshTokens`, `BrowserSession`, `RateLimit`,
`CounterSeed`, `ProjectionRepair` and `CutoverReadiness` and the `Anchored` of
`InventoryCounters` were checked by TLC on the instances of section 3 before they were proved.

## 6. Not modelled, and the plan

Modelled in part:

- Event creation: `createEvent` is one step, its counter another. Lists and the
  search fallback only read.
- Schema migrations: the triggers and constraints they leave behind are in the
  models; their order is not, as they run once under an advisory lock. The
  readiness queries of the migrations are one-off checks of the same rows.
- Rebuild and reconciliation: one rebuild at a time, one Event. Documents of no
  Event and titles and places, which never change, are left out; `repair` has
  the former.
- Web frontend: the API client's shared refresh and its retry; pages and
  rendering are not.
- Cutover readiness: without the parser of old evidence, which nothing calls,
  and with the catalogue query as one condition. A call that fails ends the check
  with exit 1 (`CheckFails`).

Not modelled: search queries and the index migration (a read with a fallback,
idempotent mapping calls); controllers, guards, users and configuration (parsing
and wiring, no shared state); observability (output only); Terraform and
operations scripts. Details of the previous release do not occur in
`ProjectionRepair`, and an unset `VALKEY_URL` (no limit, no counter) in none of
the modules.

Next: a second Event in `resolver`, for the bound on entries.
