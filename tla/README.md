# A verification of the m365-copilot2xapi gateway

TLA+ models of the gateway in `backend/`, the TLC runs that check them and the
theorems TLAPS proves about them. The paths below are relative to
`src/backend/internal/` unless they say otherwise; line numbers of every
definition are in `PROJECT.json` under `map`.

The gateway accepts requests in the API formats of several vendors, picks one of
many upstream accounts, forwards the request and bills the client key that sent
it. Several processes may share one database (PostgreSQL) and one runtime store
(Redis); a single process can do with SQLite and memory
(`infra/config/config.go:594-612`).

## 1. Inventory

### 1.1 The parts that carry the program's own logic

| Component | State it keeps | Operations | Hard because of | Correct when |
|---|---|---|---|---|
| **Client-key billing store** (`infra/persistence/relational/client_key_repository.go`, `audit_repository.go`) | `client_keys.billing_limit/billed_usage/reserved_usage`, `billing_reservations`, `request_audits` | `ReserveBillingUsage`, `CreateBatch` with its settlement, `CleanupExpiredBillingReservations`, `Update`, `Delete` | expiry inside the reserving transaction, retried batches, several cleaners, saturation of 64 bits | the counter is the sum of the rows, every audit is billed once, the limit holds under concurrency |
| **Audit writer** (`application/audit/service.go`) | `queue`, `queueSpace`, `queueWaiters`, the batch of `run`, timers, `stopped`, `configChanged` | `Create`, `tryEnqueue`, `enqueueAcknowledged`, `run`, `persistBatch`, `Close`, `UpdateWriterConfig` | a hand-made wake-up protocol, deadlines against late commits, unknown commits, drain against callers | accepted records are decided, an answered caller's record is durable, nobody is left asleep |
| **Ledger readiness** (same file) | `ledger*` fields, `dropped` | `recordLedgerFailure/Success/Drop`, `updateQueuePressureLocked`, `CheckLedgerReady`, `UpdateLedgerConfig` | several overlapping causes of one mark, read and written by different goroutines | the gate closes only after a real grace period and opens when the cause is gone |
| **Client keys** (`application/clientkey/service.go`) | `activeBilling`, the authentication cache, rate windows | `ReserveBillingWithTTL`, `ReleaseActiveBilling`, `CleanupExpiredBilling`, `Authenticate`, `Acquire` | the marker is set after the transaction, the cleaner works from a snapshot | a running request keeps its reservation, markers do not leak |
| **Gateway** (`application/gateway/service.go`) | the state of one request: attempts, reservation, finalization budget | `prepare`, the attempt loop, `finalize`, quality retry | retry against time-outs, streaming after the first byte, finalization detached from the request | each request leaves one record, each acquired lease is returned |
| **Account selector** (`application/gateway/selector.go`) | layered snapshots with generations, health overrides, quota consumption, waiters for a lease | `loadLayeredCandidates`, `claimAccountSlot`, `acquirePinnedCapacity`, `ApplyInvalidation`, `MarkFailure/Success` | loads outside the lock, remote events in any order, lost wake-ups, sticky sessions | a snapshot older than an invalidation is not kept, a newer cooldown is not undone, a freed slot wakes a waiter |
| **Invalidation** (`application/invalidation/service.go`) | pending coalesced events | `Notify`, `RunPublisher`, `RunSubscriber` | best effort, coalescing | an instance that missed events recovers by expiry |
| **Credentials** (`application/account/service.go`, `credential_scheduler.go`) | tokens and their expiry, failure marks, single flight, distributed lock | `ensureCredential`, `acquireRefreshLock`, `recordCredentialRefreshFailure`, `RunCredentialRefresh`, `Update`, import | three single-flight keys for one account, lease shorter than a slow refresh, one-time refresh tokens, whole rows saved over newer ones | one exchange at a time, a token presented once, no outcome of an old exchange condemns a newer login, a dead account leaves the pool |
| **Runtime stores** (`infra/runtime/memory`, `infra/runtime/redis`) | leases, sticky bindings, locks, windows | acquire, release with a retry queue, expire | expiry against release, lost answers, a crash of the holder | never more leases than the limit, each returned once |
| **Batch executor and result cache** (`pkg/batch`, `pkg/resultcache`) | slots of nested pools; values and loads in flight | `Pool.Do`, `Cache.Get/Set/Delete` | slots held while waiting for others; one load shared by many | no pool blocks itself, no caller fails for another |
| **Settings, administrator sessions, media uploads, egress** | revision; refresh tokens; one-time tickets; node health | optimistic update, rotation, consumption, probes | replays and concurrent updates | one winner, no replay |

### 1.2 The other parts

Account import and cleaning jobs, the model registry, the M365 provider and its
connection pool, the proxy scraper, the tunnel protocols, the HTTP handlers, and
the web front end are I/O, formats, or plain create/read/update/delete. They are
listed in `PROJECT.json` with the reason each is left out. The quota refresh
queue is left out for a reason of its own: `RunQuotaRefresh`, the loop that takes
refreshes from it, has no caller.

### 1.3 How billing's parts meet

```
 request ── CheckLedgerReady ──> readiness (audit service)
    │
    ├── ReserveBillingWithTTL ──> client keys ── ReserveBillingUsage ──> store
    │                               └ activeBilling marker
    ├── upstream attempts
    └── finalize (5 s) ── Create ──> queue ── run/persistBatch ── CreateBatch ──> store
                             ^ ack                  │
                             └──────────────────────┤ commit observer / drop observer
                                                    └──> ReleaseActiveBilling
 cleaner (start, every 10 min) ── snapshot of activeBilling ── scan ── per-key tx ──> store
```

The reservation is the shared resource: the request makes it, the writer's
transaction settles it, the cleaners of all processes and the next reservation
of the same key may remove it once it has expired. The marker in
`activeBilling` is all that keeps a process's own cleaner off a request that
still runs or whose record is still queued; the two observers are the only ones
to remove it. The hazards of this traffic, and of the parts that are not
modelled, are listed in `PROJECT.json` under `hazards`.

### 1.4 How selection's parts meet

```
 request ── routing snapshots (base, overlay, health overrides) ──> candidates
    │            ^ invalidations of this process and of others
    ├── session binding (shared store) ──> the account to prefer
    ├── claim: slot in the shared store, then the row is read again
    │      full ──> wait: notice of this process | 100 ms poll | deadline
    ├── credential: refresh when due ── single flight, lock, exchange, write
    ├── attempt ── error ──> slot returned, account excluded or cooled, next
    └── stream ends ──> slot returned ── notice; store away ──> retry queue
```

`RoutingCache` is the first line, `AccountLeases` the rest but the credential,
which is `AccountCredential`. The three meet in the account's row: its health,
its limit, its tokens and its marks.

## 2. The modules

| Module | What it is | EXTENDS / INSTANCE |
|---|---|---|
| `BillingStore` | tables and transactions of billing | – |
| `BillingLedger` | request, markers, writer, cleaners, crashes over the store | extends `BillingStore`; instance of `BillingPromise`, and of `WriterPromise` for each process |
| `BillingPromise` | abstract: what becomes of one request's money | – |
| `WriterPromise` | abstract: what the writer of one process promises to its callers | – |
| `AuditQueue` | the queue of the writer, channel by channel | instance of `WriterPromise` |
| `LedgerReadiness` | the readiness gate | – |
| `RoutingCache` | the selector's snapshots, generations and health overrides | – |
| `AccountCredential` | the tokens of one account: refresh, rotation, failure, edit, import | – |
| `AccountLeases` | the slots of the accounts: selection, wait, session affinity, attempts, return | – |
| `BillingSums` | facts about the sum of a function over a finite set | extends `BillingStore` |
| `BillingMoneyProofs` | theorems about the sums of `BillingLedger` | extends `BillingLedgerProofs`, `BillingSums` |
| `BillingLedgerProofs`, `AuditQueueProofs`, `LedgerReadinessProofs`, `RoutingCacheProofs`, `AccountCredentialProofs`, `AccountLeasesProofs` | theorems | extend the module they are about |
| `MCLedger`, `MCQueue`, `MCReadiness`, `MCRouting`, `MCCredential`, `MCLeases` | constants for TLC | extend the module they check |

### 2.1 `BillingStore`

One transaction is one step. SQLite opens transactions with `_txlock=immediate`;
on PostgreSQL every transaction modelled here locks the client key's row before
it touches that key's reservations. `CanReserve`/`GrantReservation` is
`ReserveBillingUsage` with both attempts of `reserveBillingCapacity` and the
reclaim of expired rows between them; a refused call rolls back and is a step
that changes nothing. `SettleBatch` is `CreateBatch` for a valid batch: the fast
path (all or nothing inserted) and the row-by-row path have the same effect, and
a conflicting insert bills nothing. `ReleaseExpired` is the per-key transaction
of the cleaner, which reads its targets again under the key's lock.
Money is a natural number saturating at `MaxTicks`, as the code's `int64` does.

### 2.2 `BillingLedger`

`pc[e]` is the place of the one request that will write the audit record `e`:

    new ─Admit─> admitted ─ReserveGranted─> marking ─MarkActive─> running ─Finish─> recording
     │               │ ReserveSkipped ───────────────────────────> running            │
     └─> refused <───┘ (not ready, denied, or granted with the answer lost)           │
    recording ─Enqueue─> awaiting ─> acked | timedout | rejected                      │
       ├─WaitForSpace─> waiting ─> awaiting | dropped | lost                          │
       └─TurnedAway / BudgetSpent─> lost                                          crashed

- `ReserveGranted` and `MarkActive` are separate because `ReserveBillingWithTTL`
  marks after the transaction has returned (`clientkey/service.go:507-521`).
- `AckTimeout` leaves the record with the writer, as `createAcknowledged` does
  when its context ends.
- `CommitUnknown` is a commit whose answer is lost: the batch is tried again. A
  transaction that fails without committing changes nothing and is a stutter.
- `RejectRecord` is `ErrInvalidRecord`: one record leaves the batch, its loss is
  counted, the drop observer removes its marker, the rest is retried.
- `SnapshotProtected`, `ScanExpired`, `ReleaseTargets` are the three stages of a
  cleanup, with every other action free to happen between them and between two
  keys. `Oldest` leaves ties of expiry open.
- `Crash` loses markers, queue and batch; `Restart` begins with none of them.
- `Tick` carries the one assumption about time: a request and its finalization
  end before its reservation expires, because `textBillingReservationTTL` adds
  ten minutes to the sum of the request timeout and the finalization budget
  (`gateway/service.go:496-499`). It covers requests in flight only; queued
  records whose caller has gone may expire, and do.

`Admit` states the part of the readiness gate billing depends on (a process that
has lost a record admits nothing); `RefuseNotReady` may refuse at any time, so
every verdict of `LedgerReadiness` is covered.

### 2.3 `AuditQueue`

`BillingLedger` treats entering the queue as one step. `AuditQueue` opens it:
`queueWaiters` is loaded before `queueSpace` is posted to, a caller announces
itself, looks again and only then sleeps, and the select of a sleeping caller
may see a token, the stop or its deadline. `run` is followed through receive,
notification, append, timer, configuration change and the drain of its stop
branch. `Persist` is `persistBatch` from outside.

`WriterPromise` is what links the two. It knows a record's place only (outside,
queued, taken, decided, away, or gone with the process), who waits for an answer, and whether
the writer has been stopped or has returned: a record is let in only while there is
room and no stop, is taken one at a time, decided with its callers answered, and the writer
returns only when nothing is left. `BillingLedger` implements it for every process
(`WriterOf(i)`), with commits that are retried, batches decided in part, callers that
give up, crashes and restarts; there the writer's receive is one step. `AuditQueue`
implements it with a receive of several steps, sleeping callers, tokens and timers
(`Promise`; its process does not end, so it implements `LiveSpec`, which has no
`Die` and no `Start`). What `BillingLedger` takes for granted about entering the
queue is therefore what the detailed queue does.

### 2.4 `LedgerReadiness`

Each handler under `ledgerMu` is one action. `CountDrop` and `NoteDrop` are two,
because the counter is an atomic that is raised before the mutex is taken.
`UpdatePressure` is evaluated by every snapshot and check, as in the code. The
code reads the clock and the queue's length just before it takes the mutex; the
model reads them in the step. `troubleSince` is a history variable: the time the
ledger last went from no trouble (no failures, no pressure mark, no loss) to
some.

### 2.5 `RoutingCache`

The list of candidates for a model is put together from two layers. The load of
a list (`pc[m]`) goes through both:

    idle ─Begin─> base ─LookUp─> awaitBase ─(flight)─> overlay ─LookUp─> awaitOverlay ─(flight)─> check
                   └────────────── hit ──────────────> overlay ────────────── hit ───────────────> check
    check ─Assemble─> idle        check ─TryAgain─> base | combined ─Combined─> idle

A flight is one run of a `singleflight` function: `Depart` is its second look at
the cache, `Query` the database's answer, `Land` the comparison of generations
and the store, `Fallback` the reuse of the stale snapshot after a transient
error. Everyone in `Awaiting` gets the flight's result. `ApplyInvalidation` is
two steps, since it takes `healthMu` and then `candidateMu`; a write and its
event are steps apart, and `EventLost` stands for a remote event that never
arrives. `ClientKeyEvent` is the whole handler for an event of a client key,
which reaches the selector like any other. `Reused` is what becomes of the snapshot in
a `Fallback`: a new retry period, cut at the end of the stale life, which is not renewed.

What the model leaves out or joins: a generation and the snapshot it is compared
with are read in two sections in the code, which gives no outcome that the one
step does not have (the second section misses what an invalidation between them
dropped, and the load fails the comparison at its end). The comparison before
and after assembling is one step for the same reason. Global and provider
generations are one counter. Contents are revisions, so the combined query,
whose answer is not kept, is only a return. Eviction of snapshots for room
only removes; it is left out, like the in-place changes of `evictCandidate` and
the quota consumption. Health updates come one at a time, each announced twice
as the code does. The histories `applied`, `knownHealth` and `exposed` guard
nothing.

### 2.6 `AccountCredential`

One account, whose tokens are numbers in the order of issue: `valid` is the one
refresh token the provider accepts, `row` is what the database holds. A flight is
a single-flight key of one process:

    idle ─Call─> lock ─Lock─> send ─Exchange─> save ─Save─> idle
      │            │            └─Refuse | ReplyLost─> record ─Record─> idle
      └────────────┴──────────────────────────────────────┴──> mark ─> markSave ─> idle

- The first read of a flight is part of `Call`, the second one, under the lock,
  part of `Lock`; between them the caller waits for the lock. The access token
  of the first read is the only thing carried over (`seen`).
- There are three keys (`any`, `scheduled`, `manual`), so flights of one process
  overlap; what keeps them apart is the lock, which has a lease of two minutes.
- `Save` runs on a context of its own, so a caller that leaves does not undo an
  exchange; `GiveUp` is possible only before it. `SaveFails`, `ReplyLost` and
  `Crash` are the ways a replaced token can be lost for good; `lost` names them.
- `WriterGet`/`WriterSave` is every writer of whole rows outside a flight: an
  administrator's edit and the `MarkReauthRequired` of a request that was refused
  with 401. `stale` is set when such a save, or that of a flight's own mark,
  overwrites newer tokens or a newer mark.
- With a password every failure of the login that follows a refused refresh token
  is a plain error, so the answer is `other`: such an account is retried for ever
  and never marked.
- `ReleaseLost`: the release of the lock runs for at most three seconds and its error
  is ignored, so a lock may stay behind until its lease ends.
- `LeaseEnds` under a running holder (`lapsed`): `RefreshCredential` does not look
  at its context after its first check, and its two HTTP calls of up to 120 s each
  can outlive the lease.

Left out: `RefreshWithScope`, which has no caller, and the branch of
`recordCredentialRefreshFailure` that preserves an earlier permanent mark, which
no flight reaches since a blocked one does not exchange (a manual one clears the
mark by design).

### 2.7 `AccountLeases`

The way of a request through selection and attempts:

    idle ─Begin─> select ──(bound or pinned account)──> claim ─┐
                    └────────────> plan ─ClaimNext─────────────┤
                                    ^                          ├─(slot)─> hydrate ─> bind ─> send
      wait <─TakeNotice─ missed <───┴──(full, cooling)─────────┘             │ (row gone)      │
        └─Notified | Poll─> claim | plan        select <── next attempt ─────┴─────────────────┘

`at` is the account that is tried and `why` for what (the bound or pinned one,
the plan, or the bound one again while a slot of another is kept), `own` the
account a slot is held of. A slot in the shared store carries who will return it:
its request, the retry queue of a process, or nobody, until its lease expires.

- `Grant` is the acquire script, atomic in Redis. Its answer may be lost
  (`StoreFails`), which leaves a slot nobody knows of.
- `Return` is the release function: the script, or on an error the retry queue
  (`RetryReleases`), or nothing when that queue is full. The waiters of the own
  process are told in any case; those of others are not, and neither a retried
  return nor an expiry is announced. The 100 ms poll covers these.
- `claimAccountSlot` reads the row again under the slot: `Hydrated`, `StaleRow`.
- `completeNormalLease` binds the session, or keeps its slot and tries one of the
  account another request has bound meanwhile (`Bind`, `Rebound`, `SetBinding`).
  `Set` is a store call of its own and may overwrite a newer binding.
- The limit used is that of the list the request read (`lim`), which may be older
  than the row. Age of the list is an early `Begin`.
- `barred` joins the `excluded` of the attempts and the `staleCandidates` of the
  session; both only grow.
- A response that is handed to the client keeps the slot until its stream ends:
  it stays in `send` until `Finish`.
- A running holder's lease does not expire: the lease is longer than the request
  timeout (`app/application.go:155-165`). The clocks of processes are taken to agree.

The memory driver is the case of one instance and no faults.

Left out: the order the planner tries accounts in (any order here), the segmented
selector, which claims through the same function, and the direct `acquire` of
administrators' probes. A second attempt on the same account after its first 403
is unreachable, since no provider sets `RetryForbiddenAsEgress`.

## 3. What the runs check

| Run | Bounds | Question |
|---|---|---|
| `ledger_shared` | 1 key, 2 requests on 2 instances, limits 0/1/3, costs below and above the estimate, clock 2 | `ReservedMatchesRows`, `BudgetKept`: the counters stay right while the limit changes, the key is deleted, rows expire and are reclaimed by either side. `OwnCleanerSparesActive`, `RowsLeaveForCause`: a cleanup's snapshot does not go stale in a way that hurts. `KeepsPromise`: the detailed system refines `BillingPromise`. |
| `ledger_writer` | 1 instance, 2 requests, queue 1, batches of 1 or 2, valid and invalid records, one crash, shutdown, saturation of the sum | `BilledExactlyOnce`, `AckMeansDurable`, `AcceptedIsAccounted`, `KeepsWriterPromise`, `ProtectedUntilSettled`, `MarkersReclaimed`, `SettledHoldsNothing` |
| `ledger_live` | as above without shutdown, one crash, a cleanup that releases one row at a time | `AcceptedIsDecided`, `HoldsAreReleased` |
| `queue` | 3 callers, queue 1, batch size changing between 1 and 2 | `NoLostWakeup`, `KeepsWriterPromise`, `SleepersLeave`, `AcceptedIsAnswered`, `CloseReturns` |
| `readiness` | 16 policies, 2 failures, 1 loss, 4 instants, capacity 2 | `NoStaleOnset`, `RecoveredIsAdmitted`, `RefusalIsEarned` |
| `routing` | 2 models (interchangeable), 1 writer, a write to each layer, 1 health update, 2 tries, periods of 1, a stale life of 2, a query that lasts up to 1, clock 5, in two regimes (below) | `FreshCaches`: loads against invalidations. `AgeBounded`: expiry, repeated stale use, a late join and the list's own period added up; the bound is reached. `CooldownKept`: override against snapshots, fallbacks and base events. |
| `routing_cooldown` | expected to fail | `CooldownSurvives`, see section 6 |
| `credential` | 2 processes: a request's and a manual flight in one, the scheduler's in the other; 2 tokens, 1 fault, 2 strikes, 1 writer | `OneRefreshAtATime`, `LockStays`, `PresentedOnce`, `NoTokenStranded`, `GoodCredentialKept`, `DeadCredentialLeaves` |
| `leases` | 2 requests of one session at 2 processes, one of them perhaps pinned; 2 accounts with limits 1 and 2 (by default); 2 attempts, 1 fault or change | `LimitKept`, `SlotsAccounted`, `NotSentBack`, `SaturationKeepsBinding`, `EveryRequestEnds` |
| `credential_edit` | expected to fail | `PermanentClearedByExchange`, see section 6 |
| `ledger_lost` | expected to fail | `LostIsObserved`, see section 6 |
| `readiness_observe` | expected to fail | `ObserveNeverPauses`, see section 6 |

Why these bounds suffice for the cases they are meant for: two requests of one
key are the least that can compete for a budget, share a batch (so that an
invalid record has a neighbour and a batch is partly stored by an earlier
commit) and compete for one slot of the queue and one row of a cleanup. Two
instances are the least at which one cleaner meets rows it has no marker for.
The estimate of 2 against limits 1 and 3 gives a grant, a refusal, and a refusal
turned into a grant by reclaiming; costs 1 and 3 lie below and above it, and 3+3
saturates `MaxTicks = 5`. Clock 2 with a lifetime of 1 lets a row expire, be
reclaimed and be followed by another. In `queue` three callers with a queue of
one and a batch of two are more than the writer's side can hold, so that two may
sleep at once. In `ledger_writer` the two requests are interchangeable (symmetry;
no liveness is checked there). Deadlock checking is off for the ledger and the
queue: all requests may have ended, all processes may be closed.

In `routing` a write to each layer gives a load two chances to be overtaken and
so a way through both tries to the combined query. Two lists share the base layer, and
`Bounds` explores their states in two regimes. `Busy`: up to clock 2 the load of one
list at a time meets every write, event, loss and health update. `Long`: up to clock
5 both lists load at will, nobody writes, the accounts are read at 0 and every later
query for them goes unanswered, while a query for an overlay takes no time. Reading
at 0 loses nothing, since only differences of time matter, and a second reading only
makes accounts younger. In this regime the accounts live through the snapshot's own
period (to before 1), repeated reuse while it is stale (to before 3), a query that
departs at 2 with the snapshot in reserve, takes 1 and is joined late by the other list,
and that list's own period, which ends at 4: the last instant that `AgeBounded`, with
its limit `readAt + 5`, allows. With a limit one smaller the run fails, and the clock
alone would let a list assembled at 5 last until 6. The late join is
what needs the second list: with one, the list's own load is the query's first, whose
time is the query's. That the last retry is cut at the end of the stale life needs a
longer `RetryTtl` to be seen; the theorem `AgeIsBounded` covers it.

Keys more than one at a time are not in the runs of the ledger: transactions of
different keys touch disjoint rows and the only step that spans keys, a batch
settling several, is a product of the single ones. The theorems of section 5
hold for any set of keys.

In `credential` two flights at the lock and one writer are the least that can
overlap in every way the three keys allow; `MaxBusy` keeps a third from starting
while two run. Two tokens are one rotation: a second one repeats the first with
other numbers, and the theorems of section 5 hold for any number. One fault is
any of: a lost reply, a failed write, a crash, an early end of a lease, an edit,
an import during an exchange. The properties name the faults they exclude
(`lost`, `stale`, `lapsed`), so that with one fault each exception occurs alone.

In `leases` an account of one slot and two requests give saturation, the wait and
the race for a session; with the second account the plan has somewhere to go.
One event (fault or change of an account) at any moment meets every place of a
request. `SaturationKeepsBinding` needs both accounts listed, which is the case
the planner's fall-through would break.

### Fairness

`BillingLedger!Fairness` asks that goroutines of a running process proceed, that
callers reach their deadlines (every context there has one), that the cleanup is
called periodically, that time passes, and that an ended process is started
again. Requests need not arrive and administrators need not act. A commit
eventually succeeds when it is retried for ever (`persistBatch` has no limit of
attempts) – without this the property would be about a database that is down.
Scan and release need strong fairness, since a cleanup that fails ends
(`CleanupReturns`) and the next one starts afresh. `AuditQueue!Fairness` does
not assume that contexts end or that `Close` is called: `SleepersLeave` rests on
the wake-up protocol alone.

`AccountCredential!Fairness`: a flight that has begun goes on (every call in it
has a time limit), the scheduler's timer fires, and the time of a next try comes.
Requests and administrators need not act and writes may fail as often as the
bound allows. `AccountLeases!Fairness`: a request that has begun proceeds as long
as it can – it runs, upstream ends a call, or its poll fires – and the timers of
the store and of cooldowns fire. Deadlines of waits are not counted on:
`EveryRequestEnds` shows that the waits end by themselves, since no request
waits while it holds a slot another one waits for.

## 4. What the properties mean for the code

- `ProtectedUntilSettled` and `OwnCleanerSparesActive` together say why a
  marker is removed by the observers and not by the caller: a caller that stops
  waiting leaves a queued record whose reservation must survive.
- `AcceptedIsAccounted` is the obligation `Create` takes over once `tryEnqueue`
  has returned true, including retries after unknown commits.
- `BudgetKept` is the claim of the reservation scheme: the limit can be passed
  only by what requests cost beyond their estimate, never because two of them
  saw the same remaining budget. `MaxLimit` stands for the limit since an
  administrator may lower it below what is already reserved.
- `RowsLeaveForCause` says that the row of a request at work is taken neither by
  another request's reclaim nor by another instance's cleanup, though neither
  knows the request. It rests on time alone: a reservation lives ten minutes longer
  than the longest request, which is the guard of `Tick`.
- `NoLostWakeup` is the reason for the second look in `enqueueAcknowledged` and
  for the order of receive and `notifyQueueSpace`.
- `KeepsWriterPromise`, of the queue and of every process of the ledger, is the
  contract of `Create` in one formula: a record is never taken twice or dropped
  after it was let in, nobody waits for an answer that will not come because its
  record is no longer held, and `Close` returns on nothing but an empty
  writer. It is what an append past a full batch, an early return of
  the drain or an answer to the wrong batch would break.
- `NoStaleOnset` concerns a mark with three writers: failures, pressure and
  losses share `ledgerUnhealthySince`, and whichever ends last has to lift it.
- `FreshCaches` is the reason for generations: dropping snapshots at an
  invalidation does not stop a load already under way from storing what it read
  before. `AgeBounded` is what remains when events are lost: the accounts of a list are
  at most the base snapshot's two lifetimes, the time of a query and the list's own
  period old. The time of the query is not an accident of the model: a load compares
  with the time it began, but one that joins a query late is given, if the query
  fails, the stale snapshot which was usable when that query began. `CooldownKept` is
  the reason for the length of `routingHealthOverrideTTL`.
- `OneRefreshAtATime` and `PresentedOnce` are why the row is read again under the
  lock and its access token compared: the single-flight keys alone let three
  flights of one process exchange the same one-time token.
- `LockStays` is what remains of the exclusion once a refresh has outlived its lease.
  The code does not prevent the two exchanges that may then overlap; but the late
  flight must not release the lock of the one that follows, or one lapse would go on
  from flight to flight. The token of the lock, compared by the release script, is why.
- `NoTokenStranded` is why the write after an exchange has its own context. The
  exceptions it names are the ways the code can still lose an account's login.
- `GoodCredentialKept`: an old exchange's refusal must not condemn a token that
  was stored since. It holds because only the lock's holder records.
- `DeadCredentialLeaves`: an account whose refresh token was refused and whose
  access token has ended does not stay in the pool for lack of anybody who looks.
- `LimitKept` says what "at most `max_concurrent`" can mean when the limit is
  changed under way: among slots held together one was granted under a limit that
  allows all of them, so an excess comes from lowering the limit only.
- `SlotsAccounted` is the balance of the twenty-odd ways out of an attempt.
- `SaturationKeepsBinding`: parallel requests of one session do not throw it
  between accounts because its account is busy; it moves after a failure, or
  when an account was not on the list.

## 5. What is proved

The theorems hold for every value of the constants that the named assumptions
allow (`StoreAssumption`, `LedgerAssumption`, `ReadinessAssumption`,
`RoutingAssumption`, `QueueAssumption`, `CredentialAssumption`, `LeasesAssumption`,
and `EventsAssumption`: the requests are finitely many, and `LimitsAssumption`: the
limits an administrator may set have a greatest): any number
of keys, requests, accounts and instances, any queue and batch size, any limits
and any number of faults. `QueueAssumption` asks that the batch sizes a
configuration may set have a greatest; the code validates them against
`maxAuditBatchSize` (`infra/config/config.go:45`, 746).

`BillingLedgerProofs`, about `Spec` of `BillingLedger`:

1. `TypeCorrect`: `StructureOK`, the type invariant without the sums of money.
2. `RecordsSafe`: `RecordInv`. `AckMeansDurable` and `AcceptedIsAccounted` are
   not inductive: `NotifyCommitted` answers the callers of a batch, so one has to
   know that a batch in phase "notify" is stored (`NotifiedIsStored`); an
   awaiting caller's record must be with the writer (`AwaitedIsQueued`); the
   return of the writer needs that it only returns stopped and empty
   (`DoneIsStopped`); and nothing is stored before it was recorded
   (`UnrecordedIsUnstored`), nor queued and batched at once (`TakenOnce`).
   From it: `AcknowledgedIsStored`, `AcceptedIsNeverLost`, `ClosedIsQuiet`.
3. `RowsSafe`: `RowInv`. A cleaner deletes by a list it made in the past. Its
   targets may no longer be what they were, so the invariant says what it still
   knows (`CleanupKnows`): its targets avoid the snapshot, and a marked row
   missing from the snapshot expires after the cutoff, so the transaction's own
   look at the expiry leaves it alone. A row is marked only while its request is
   in flight, and such a row is not expired (`InFlightIsFresh`, which rests on
   the guard of `Tick`); before that the request holds nothing
   (`HoldsAfterAdmission`). From it: `SettledIsFree`, `HeldIsProtected`, `MarkersGo`,
   `OwnCleanerSpares`, and with the step lemmas `RowsLeave`.
4. `LedgerKeepsPromise`: refinement of `BillingPromise`. Every step moves the
   status of each request along the table `Moves` of the abstract specification
   (`StepMoves`), or leaves it.
5. `WritersFit`: queue and batch stay within what channel and batch size allow.
   `DownProcessesAreQuiet`: a process that is down holds no record and no request of
   its own is in flight (`ProcessInv`). `QueuedIsNew`: a record that waits in a queue
   is not stored (`QueuedIsUnstored`).
6. `LedgerKeepsWriterPromise`: refinement of `WriterPromise` by every process. It needs
   all of 5: a crash may decide what the writer had taken (the commit came through) but
   never a record that still waited, which is `QueuedIsUnstored`; and a restart must find
   nothing of the process's former life.

`BillingMoneyProofs`, about the sums of the same specification, from
`BillingSums`. A sum is a fold, a recursive function on the subsets of a set, and the
usual proofs about it are inductions, which the provers cannot instantiate.
`BillingSums` takes a least counterexample instead: a non-empty set of bad subsets of
a finite set has a least member, the function's equation relates that one to a
smaller, which is not bad. It states what the rest needs: any term may be taken out
first (`SumTakeOut`), disjoint sets add (`SumDisjoint`), a sum is covered by two
others whose terms cover its terms (`SumCovered`).

7. `ReservedIsExact`. Every step moves money in one of few ways (`MoneyStep`,
   `StepMoney`): a grant, a settlement, a release, a changed limit, a deleted key, or
   none. Rows of one key go and at most one comes (`RowsGo`, `RowsComeAndGo`), and
   the counter moves by the same amount. The counter is floored at zero in the code;
   the invariant `ReservedInv` shows that the floor is never met. It also says that
   a record that is not yet stored was not settled against anything
   (`UnsettledIsUnbacked`).
8. `BilledIsExact`. A settlement adds the records of the batch that are not stored
   yet, which are disjoint from those that are, and saturation commutes with adding
   (`SaturatedAdds`).
9. `BudgetIsKept`. A grant leaves billed plus reserved within the limit of the moment,
   which is no higher than `MaxLimit`. A settlement turns reserved into billed, and
   what a cost exceeds its reservation by is its overshoot (`SettleCovered`).
10. `LedgerTyped`: `TypeOK`, from 1, 7 and `WritersFit`.

`AuditQueueProofs`: `QueueInv` is `TypeOK`, `NoLostWakeup`, `QueuedOnce` and
`TakenWhileHandled`. `NoLostWakeup` counts: tokens, woken callers and a token about to
be posted are together at least the free slots while anybody sleeps. It is kept
because the writer announces a slot only after it has received, and a caller looks
at the queue again after it has announced itself; `TypeOK` is needed since it says
that `waiters` counts every caller that has announced itself, so the writer does not
read zero while one sleeps. From it `QueueTyped` and `NoWakeupIsLost`.
`RecordsHeldOnce` adds `HeldInv`: the batch has room for the record in hand
(`BatchHasRoom`), a record is in one place (`OnePlace`), the callers who
listen are callers whose records are held (`HandedOver`), and a writer that has returned
was stopped and has nothing (`DoneIsEmpty`). On it rests `QueueKeepsWriterPromise`, the
refinement step by step, and on that `QueuePromiseKept`, which is proved in the abstract
specification and carried down. `QueueNeverStuck`: while somebody sleeps, listens or
waits in `Close`, the guard of a step that fairness is stated for holds
(`NobodyIsStuck`). It is what the liveness properties of `queue` rest on beside
fairness, and holds for any number of callers. Its case that matters is the
sleeper with an idle writer: the count of `NoLostWakeup` then gives a token.

`LedgerReadinessProofs`: `OnsetSafe` is the inductive invariant that relates both
marks to the present trouble (a mark is not older than the trouble, and the mark
of a pressure that set both is lifted with it). From it `ReadinessTyped`, `UnhealthyIsCaused`,
`OnsetIsFresh`, `RecoveredIsOpen`, `RefusalTakesGrace`.

`RoutingCacheProofs`: `FreshCaches` speaks of what is stored; for an induction
one has to know the same of what is on its way. `RoutingInv` says that every value
with its generation, in a snapshot, a flight, a flight's reserve or a load, is
`Backed`: the generation is not ahead of its layer, and if it is the layer's own,
the value is as new as the last invalidation applied. An invalidation makes every
old generation unequal to the layer's, a query starts from a generation that
is not ahead, and whatever is kept was compared. `RoutingTyped`, `RoutingSafe`,
`CachesAreFresh` hold for any number of models and writers and any periods.
`AgesSafe` follows the accounts from the query that read them through snapshot,
flight, reserve and load to the list, and adds the periods up on the way
(`AgeIsBounded`). `CoolSafe` separates where accounts come from and what happens to
their protection: a step brings no accounts into play but those a query reads at that
moment (`HeldFrom`, `ListFrom`), and it does one of four things to the override and
the generation (`ControlStep`): nothing that matters, opening one of the named gaps,
applying a health update, which covers everything read so far, or completing an
invalidation of the base layer, after which nothing old is current. `CooldownIsKept`
follows from both.

`AccountCredentialProofs`: none of the four invariants is inductive. `Issued`
(nothing is newer than the last token issued), `OneRefreshAtATime`, `Tracking`
(what a flight read under the lock is still the row, unless one of the named
exceptions has happened), `Succession` (a used token is neither the valid one nor,
without exceptions, the row's) and `NoTokenStranded`, `GoodCredentialKept` together
are. `PresentedOnce` follows from `Tracking` and `Succession`; `LockStaysSafe` is shown
step by step from the types. Two more invariants
concern what liveness needs. `LockIsReturned`: the lock's holder is a flight at work,
so each of the ways out of a refresh gives the lock back. `CondemnedStaysScheduled`: a
mark is never without the time of the next look; the row alone does not suffice, since
older copies are saved over it, so the invariant is about every copy that may still
be saved (`CondemnedIsScheduled`).

`AccountLeasesProofs`: the invariant is `TypeOK`, `Placed` (the record of a request
fits its place: only a request at "hydrate" tries an account while it may hold
another), `SlotsAccounted` and `LimitKept`. Each action is a move of the record
and an effect on the slots; `Shrinks` (slots are removed, or pass from a request
to a retry queue or to nobody) and `Grows` (one slot granted below its limit) are
the only effects, and the lemmas about them carry `LimitKept` through. The two
action properties follow from `Placed` step by step. The rounds of a request are
an induction of their own: `Effect` names the four things a step may do to its
attempts and its barred accounts (end, go on, select, begin the next attempt), one lemma
per action shows that it has one of them (`RequestGoes`), and `EffectSound` that
each keeps `RoundOK`, by which the account at hand is not barred before
it is selected. From it `RoundsCounted` and `EachAccountIsSentOnce`. `NoHoldAndWait`
follows from `Placed` and `SlotsAccounted`: whoever waits for a slot has none. These
are what `EveryRequestEnds` rests on beside fairness: a wait holds up nobody, and
the rounds are bounded by the accounts.

The proofs follow the shape of `Next`: one lemma for the requests, the writer,
the cleaner, the process, the administrator and the clock, one step per action
in each; effects of the store's transactions are stated as lemmas first
(`GrantEffect`, `SettleEffect`, `ReleaseEffect`, `DeleteEffect`, ...).

### Only model-checked

- All liveness properties, since they rest on fairness and ENABLED. Safety facts
  they depend on are proved: `QueueNeverStuck`, `LockIsReturned`,
  `CondemnedStaysScheduled`, `RoundsCounted`, `NoHoldAndWait`.
- What is shown to fail: the properties of the runs that end in a violation.

Every invariant and every action property of the passing runs is proved, and so are the
refinements. Three that no run checks are proved as well: the type invariants of
`LedgerReadiness` (`ReadinessTyped`) and `AccountCredential` (`CredentialTyped`), and
`CloseLeavesNobodyWaiting`
(`ClosedIsQuiet`), which `KeepsWriterPromise` implies.

## 6. Where a document and the code disagree

- **Lost without notice** (`ledger_lost`). `SetDropObserver` "registers a
  callback for records that can no longer enter the writer"
  (`application/audit/service.go:177-178`). `createAcknowledged` returns at once
  when the context has already ended or the service has stopped, and `tryEnqueue`
  refuses after the stop; in these cases the observer is not called and the drop
  is not counted. The record is lost, and the marker keeps this process's
  cleaner off the expired reservation until the process ends (another request of
  the same key, or another process, can still reclaim it). The stages before
  `Create` sum to 3.25 s of the 5 s budget, so the first case needs a stage that
  overruns its own context; the second needs a request that ends while the
  process shuts down.
- **Edits undo marks** (`credential_edit`). "A true permanent failure can only be
  cleared by a successful exchange" (`application/account/service.go:985`). `Update`
  (623-653) and `MarkReauthRequired` (739-751) read an account and save all of
  its columns and all of its credential's (`account_repository.go:889-964`), with
  neither lock nor version. An edit that was read before a failure was recorded
  takes its mark away; one that was read before a rotation brings the replaced
  refresh token back (`stale` in the properties of `credential`).
- **Observe mode** (`readiness_observe`). The manual (`README.zh-CN.md:470`) says
  observe only reports. After a loss `CheckLedgerReady` refuses in either mode.
  The function's comment and `config.example.yaml:121` agree with the code.

- **Cooldowns cleared by the way** (`routing_cooldown`). Health overrides are to
  be kept "through the snapshot's normal and stale lifetimes"
  (`application/gateway/selector.go:55-58`). `ApplyInvalidation` clears them before
  it looks at the event's layer, and it gets every event
  (`app/application.go:287-290`): a changed client key names neither provider nor
  account and so clears the override of every account; an overlay event, such as
  that of `UpsertModelQuotaBlock`, clears its account's. The base snapshot without
  the cooldown stays, and the account is offered again until the snapshot expires,
  30 s later or, with database errors, up to 5.5 minutes. `CooldownKept` shows that
  this, and the moment between the two halves of a base invalidation, are the only
  gaps within a snapshot's lifetime. A list assembled from a
  stale snapshot in its last moments also outlives the override by its own 30 s.

Observations that are no findings: a failure below the threshold during queue
pressure can keep `ledgerUnhealthySince` after the pressure is gone, until the
next successful write (`NoStaleOnset` still holds, since the failure is trouble);
the database schema's CHECKs on audit rows and the provider list of the domain
name different providers; the cached billing check of `Authenticate` is advisory,
the reservation decides. An in-flight refresh overwrites a login that was imported
meanwhile. The quality guard's fallback returns the slot of a withheld stream
(`gateway/service.go:1599-1604`) and may deliver that stream later (1650-1657): for
that time the account serves one stream more than its slots say. The shared loads
of the selector (`selector.go:1278`, `selector_plan.go:244`) run under the context of
the request that began them, so its cancellation fails the others that joined;
the comment of `resultcache.Cache.Load` says waiters are not tied to the first
request's life, which holds for their waiting only. Nobody sets the revision of
a health event, so two such events rank by their publishers' clocks.

## 7. What is not modelled, and why

In the components that are:

- `CancelBillingReservation` and the best-effort `Record` have no caller outside
  tests; the reservations of media tasks (`video_usage_`) are never created.
- The restart of `run` after a panic (`runSupervised`): the batch of the old run
  is lost there; no reachable panic is known.
- `recordQualityDegraded` writes a record of its own with a fresh id and no cost.
- Retention deletes old `request_audits`; a replay after the retention period
  would bill again, but no record is retried for that long.
- Statement-level interleaving on PostgreSQL: transactions are atomic here, from
  the row lock argument of section 2.1.
- Coalescing of routing events before they are published: it makes a remote event
  lost or late, and a lost one is modelled. Several health events at once: their
  rank is that of wall clocks.
- The quality guard: it looks into answers, and apart from the fallback named in
  section 6 it returns slots as the other ways out of an attempt do.
- The credential's device sessions, import formats and listings; the sync of
  accounts, which writes no field the modelled parts decide on.

Components left out as a whole are in `PROJECT.json` with status `not_modelled`.
Their state changes are single atomic operations of a store (administrator
sessions, upload tickets, runtime settings with their conditional update and a
reconciliation every 30 s), or they have none that another part reads (registry,
HTTP handlers, formats), or they are mostly network I/O and heuristics (egress,
proxies, provider). The batch executor's pools nest in one order.
`RunQuotaRefresh` has no caller.

## 8. What a continuation would take up

1. The quality guard's kept stream inside `AccountLeases`, with a property that
   counts streams beside slots.
2. Statement-level settlement on PostgreSQL as a refinement of `BillingStore`.
