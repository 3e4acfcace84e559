# tokenLedger in TLA+

A specification, model-checking and proof development for the Python library
`tokenledger` (`src/tokenledger`): an in-process ledger that wraps LLM clients,
records what each call cost, and holds the calls to budgets. It is one process
with threads and asyncio tasks; its only durable state is a JSONL file or an
SQLite database.

The modules cover what decides what is charged and what is refused (the two
stores, the budgets, the request pipeline, manual recording, the wallet, the
circuit breaker, the rate limiter) and the threads around it (the webhook
notifier, the chain of hooks with the live server, the system monitor). Each has
a TLC run, and machine-checked proofs of every safety property it checks.

| Module | Models | Proofs |
|---|---|---|
| `MemoryStore` (`MCMemoryStore`) | `core/store.py`, class `MemoryStore`, and the spend `core/budget.py` reads from it | `MemoryStoreProofs` |
| `RequestPipeline` (`MCRequestPipeline`) | `core/interceptor.py` `_track_request` and what it calls, with `core/budget.py` and the contracts of `ext/differentiators.py` | `RequestPipelineProofs` |
| `BudgetScopes` (`MCBudgetScopes`) | `core/budget.py`, `core/scopes.py`, and the copies of their rules in both stores and `core/analytics.py` | `BudgetProofs` |
| `ClientWrapping` (`MCClientWrapping`) | `core/interceptor.py` `_wrap_attr`, `wrap_*`, `unwrap` | `InterceptorProofs` |
| `CircuitBreaker` | `core/interceptor.py` `_check_circuit`, `_record_result` | `InterceptorProofs` |
| `ProviderCall` | `core/interceptor.py` `TokenBucket`, `_check_rate_limit`, `_call_with_retry` and their async twins | `ProviderCallProofs` |
| `SqliteStore` (`MCSqliteStore`) | `ext/sqlite_store.py` | `SqliteStoreProofs` |
| `ManualRecording` (`MCManualRecording`) | `core/ledger.py` `record_usage`, `usage`, `track` | `ManualRecordingProofs` |
| `Wallet` (`MCWallet`) | `core/wallet.py` | `BudgetProofs` |
| `Outbox` | what a notifier promises (abstract) | |
| `WebhookNotifier` | `ext/notifier.py`, shown to implement `Outbox` | `BackgroundProofs` |
| `HookChain` | the chain of `on_record` hooks: `ext/logging_adapter.py`, `ext/opentelemetry.py`, `ext/live_server.py` | `BackgroundProofs` |
| `LiveServer` (extends `HookChain`) | `ext/live_server.py` | `BackgroundProofs` |
| `SystemMonitor` | `core/system.py`, class `SystemMonitor` | `BackgroundProofs` |

One module of proofs extends `Wallet` and `BudgetScopes`, one `CircuitBreaker` and
`ClientWrapping`, one `WebhookNotifier`, `LiveServer` and `SystemMonitor`: the names these
define are kept distinct.

## Inventory

**In-memory store** (`core/store.py`). State: a `deque(maxlen)` of records, the
running totals per `scope:id`, the budgets, the retention age and the time of
the last retention pass, the persist file and its `.bak`. Operations: insert,
compact/apply_retention, set/delete budget, clear, load at construction. Every
method holds the store's RLock, so methods are atomic to other threads; what is
hard is the order of the steps inside a method when the process dies or a write
fails, and long sequences of legal calls that leave ring, totals and file in
disagreement. Correct means: no spend charged twice, none lost to a "never"
budget, ring and totals agree, one write failure costs only what it cut.

**Request pipeline** (`core/interceptor.py`). State: what each call in flight is
doing; it shares the store, the breaker, the rate limiter and the contracts.
`_track_request`: read the budgets, check the breaker, take a token, call the
provider with retries, record the answer (or wrap a stream that records when it
ends), insert, then enforce budgets after the fact and charge the contracts.
No lock spans two steps. Correct means: racing calls overspend only a bounded
amount, no overrun goes unreported under `strict_budget`, every answer paid for
is recorded once.

**Circuit breaker** (`core/interceptor.py:438-457`). State: a dict per provider
(`state`, `failures`, `since`), with no lock. Correct means: it opens on
consecutive failures only, and does not stay open.

**Budget enforcer** (`core/budget.py`, `core/scopes.py`). Stateless apart from
average output ratios; reads the store: running totals for "never" budgets, a
scan of the records for the others. Which budget a call or record belongs to is
decided in five places. Correct means: nothing still inside a window silently leaves
the spend, a call is charged to what it was checked against, and whatever a spend is
read from says the same.

**Cost contracts** (`ext/differentiators.py:179-224`). An accumulated spend per
contract under a lock; charged by the pipeline and by manual recording.

**Manual recording** (`core/ledger.py`: `record_usage`, `usage`, `track`). The
same checks as the pipeline in another order; `usage` and `track` decide what
is recorded when something raises. What is hard: `record_usage` can raise at five
places, and the decorator answers by recording again. Correct means: one call is
billed once, overruns are told, contracts see every record.

**Wallet** (`core/wallet.py`). A user budget with a debit check, a one-shot
low-balance alarm, refill and reset; only the comparison in `debit` is under its
lock. Correct means: top-ups add up, overdrafts are bounded, one alarm per cycle.

**Rate limiter** (`TokenBucket`, `core/interceptor.py:48-98`). Tokens and a
timestamp under a lock; the caller sleeps outside it; the bucket of a provider is
made by whoever finds none. **Retries** (`_call_with_retry`) repeat a request with a
doubled delay and go past the limiter. Correct means: calls let through are
bounded, every call returns.

**SQLite store** (`ext/sqlite_store.py`). The tables `records` and `budgets`, and
beside them in memory the running totals and the budgets in force. Methods hold
the store's lock, but each thread has its own connection, so a write that fails in
one thread can leave a transaction that another thread, or the same one later,
runs into. Correct means: what a call returned from is in the database and
charged, and the totals in memory follow the tables.

**Webhook notifier** (`ext/notifier.py`). A batch under a lock, a timer, a throttle;
posts happen outside the lock. Correct means: a record is posted at most once,
never dropped before it is posted, never left in the batch with no timer; batches
are a throttle interval apart.

**Live server** (`ext/live_server.py`), **logging adapter**
(`ext/logging_adapter.py`), **OpenTelemetry** (`ext/opentelemetry.py`). Chains of
`on_record` hooks, each calling the one it found; a bounded queue per subscriber, a
thread per connection, a `stop()` that puts end markers with the lock held. Correct
means: the hooks that are attached run, in order; `stop()` returns.

**System monitor** (`core/system.py`). A collector thread with start, stop and a
join that times out; `start` and `stop` take no lock, snapshots do. Correct means:
samples stay in order, no second collector, and after the last stop none.

**Client wrapping** (`core/interceptor.py:318-416`). Methods of a client are replaced by
tracked ones; what was there is kept by the client's address, for `unwrap`. Several
ledgers may wrap one client. Correct means: a call is recorded by each ledger that has it
wrapped, once, and by no other.

Sequential and without shared state: analytics, pricing, estimator, extractor,
verifier, record building, export, the CLI and provider detection.

Interaction: the pipeline calls the enforcer (which reads the store), the
breaker, the rate limiter and the provider; it inserts into the store, calls the
`on_record` hook (notifier, live server, loggers, chained), reads the store
again through the enforcer and charges the contracts. `TokenLedger.record_usage`
does the same from application threads. Wallets set and read budgets of the same
store.

## How the modules correspond to the code

### MemoryStore

`mem.ring` is `self.records`, `mem.totals` and `mem.entry` are
`self.running_totals`, `cycle` the `reset_cycle` of each entry of `self.budgets`,
`maxAge` and `lastCheck` the retention settings, `file` the persist file (`lines`
what is readable in it, `tail` whether it exists and ends in a newline, `bak` the
readable lines of `.bak`), `log` the history of records passed to insert.

* A record is its insertion number. Deque, file and totals are bags of such
  numbers: the deque and the file keep insertion order, so a bag determines them;
  a total is the sum over its bag, and a bag says exactly what a sum may hide (a
  record counted twice and another not at all). The one exception in order is a
  plain file reloaded with a duplicate, where both copies are neighbours.
* `entry` distinguishes a key that is missing from one whose dict is empty, as
  `_restore_never_totals` can leave it: `agg["requests"] += 1` raises KeyError on
  the latter (`InsertRecordRaises`), with the record already in the ring and in
  the totals of the dimensions before it. `Rank` is the order of that loop.
* The clock counts days. The hourly throttle of the retention scan becomes "not
  twice at the same tick". Records carry any timestamp up to now. Timestamps that
  do not parse (never pruned) are left out.
* A write call that does not complete is OSError (logged and swallowed, the method
  goes on) or a crash (`alive' = FALSE`). `Attempt`, `RewriteDisk`, `AppendToDisk`
  enumerate what each stage leaves: the file renamed away, opened and empty, a
  prefix of its lines, a line without newline. A cut encrypted blob decrypts to
  nothing; a temporary file that was not renamed changes nothing.
* `CurrentSpend` is what a budget is charged with. "never" reads the totals, except on
  the keys in `Scanned`, those of `user_project`, which have no total and are scanned from
  1970 on. Every other reset cycle is a scan from its window's first day, which is some
  day up to today: `FullRingForgets` speaks of all of them.
* `owed` is history: the records whose insert returned and that no eviction, retention
  pass or `clear` has taken from the ring since. A record that a crash or a reload loses
  stays owed. What counts as kept is what the next `_load_from_disk` can read, the lines of
  the file: nothing reads `.bak`. `spoiled` is history too: a rewrite after a trim was cut
  short, or a start had the wrong key.
* After a crash `mem` keeps what was lost until `LoadFromDisk` or, with a wrong
  key, `LoadWithWrongKey` (MAC or Fernet failure: nothing is loaded, and the next insert
  replaces the file by what is in the ring).

### RequestPipeline

A member of `Calls` is a place for one call in flight, used again and again: a
thread or task in `_track_request`, or an open stream its caller has left behind.
`pc` is where it is, `req` its metadata, `left` what its running loop (over
applicable budgets before, over matching budgets after) has not looked at yet,
`at` the contract it checks next, `cost` the price of its record. `spent[b]` is
`_calculate_current_spend`; reading one budget, inserting, and checking one
contract are the atomic steps, since each takes a lock of its own.

* Whether breaker, provider and retries give an answer is `NoAnswer`/`Answer`.
* The estimate is any member of `Estimates` at each read, so the learned output
  ratio (`update_model_stats`) is covered.
* Budgets are read in any order; the code's order is one of them. Limits do not
  change during a run.
* `NewWindow` is a daily, weekly or monthly roll-over. A call that straddles it has
  its record counted in the window it is stored in: the code stamps a record right
  before it inserts it. One stamped just before midnight and inserted just after
  counts for neither window, which is less than what is modelled.
* `_finalize_and_store` is `StoreNothing` (unknown model blocked, ghost record not
  kept), `StoreRecord` or `StoreFails`, then `WithinMargin`/`Overrun` per budget,
  then `CheckContract` per contract. The 5% margin is exact: `spent * 20 > limit * 21`.
  A budget with limit 0 is exempt after the fact, as in the code.
* `told[b]` is history: some call charged to `b` got the callback in this window.
* `HookRaises` is an `on_record` hook that raises, right after the insert: the call is
  over. `raised` remembers it. `CallbackRaises` is an `on_budget_exceeded` that raises
  during enforcement: that is logged, the loop ends, and the call goes on.

### CircuitBreaker

`state`, `failures` and `age` (now minus `since`) are the dict of one provider. In
mode `"asyncio"` each of the two methods is one piece (`MayRun`); in mode
`"threads"` every read and write is a step, `failures += 1` is a load (`Fails`) and
a store (`Add`), and `"open"` is written (`Trip`) before `since` (`Stamp`).
`failures` stops at the threshold and `age` one tick past the timeout; since the
code only asks `>= threshold` and `> timeout`, no behaviour is lost by that.
`streak` and `failed` are history. A cancelled task (`BaseException`) records no
result: `Cancelled`.

### SqliteStore

`db` is what is committed, `draft` what the connection with an open transaction
sees, `holder` the thread of that connection, `mem` and `cycle` the running totals
and the reset cycles of `self.budgets`, `owed` the history of writes that returned.

* A row is its `record_id`. The same one may be inserted again (INSERT OR REPLACE),
  so a total counts how often each record was added.
* The lock makes a method one action. `Writes` lists how its statements and commit
  may end: committed; refused; rolled back by SQLite; or failed with the
  transaction left open after some of its statements, since only the batch rolls
  back by itself. While a transaction is open, no other thread can write; its own
  thread's next commit takes the left-over rows along.
* A failed write may have changed memory already: `set_budget` and `delete_budget`
  change `self.budgets` first, a batch adds to the totals row by row.
* A refused first statement leaves Python's deferred BEGIN open without the write
  lock. That only makes that thread's reads older until its next commit, and a
  later write of it may be refused again, which `Refused` allows at any time; it is
  left out, as are `":memory:"` databases, where each thread has its own tables.
* A budget row that is not JSON is skipped at start; it cannot come from
  `set_budget`, and is left out.

### BudgetScopes

Five places decide on their own which budget a call or a record belongs to:
`ScopeKeys` is the look-up of `_get_applicable_budgets` before the call,
`MatchesScope` is `matches_scope`, `TotalKeys` the dimensions of both stores' running
totals, `Selected` the SQL of `get_windowed_spend`, and `ReportedSpend` what
`analytics.py` reads. `CurrentSpend` is `_calculate_current_spend`, `WindowStart` the
start of a day, week or month. `records` is what `get_records` returns, `totals` the
running totals, `rules` the budgets, `Built` the record `build_record` makes of a
request, and `CostOf` a sum of `cost_usd`. A step sets a budget, makes a call that is
admitted (and recorded, billable or as an error), records a refusal, or passes
midnight. `indexed` tells the store with a query from the one with a scan.

* One call at a time: what calls overspend together is in `RequestPipeline`; evictions,
  prunes and faults are in the stores' modules.
* An identifier is the sequence of its parts between colons, as `split(":")` gives
  it, so that `user_project` keys can be told from each other. `Proper` leaves out
  budgets that could not mean anything: unknown scopes, blank identifiers.
* Left out: the `month` dimension of the totals, ghost records, rounding.

### ClientWrapping

`held[p]` is what the client's attribute at path `p` holds: the ledgers whose tracked
functions a call passes, outermost first, so that a ledger that is there twice records a
call twice. `saved[l]` is `_original_methods[id(client)]` of a ledger's layer, in order.
`Wrap` is any `wrap_*` method, a sequence of paths each tried with `_wrap_attr`: `New`
are the places in it that are not found among the originals, saved in that order. `Unwrap`
restores in order until an attribute cannot be set. `NextClient` is the client being
collected, unless something saved keeps it alive (`Anchored`), and another one made at its
address. `Kind` tells plain attributes from those that are missing, properties without a
setter ("frozen") and properties with one ("managed"). `orderly` is history: every
unwrap found its own functions outermost and could restore all of them.

* Left out: `wrap_proxy`, which changes no client; threads that wrap at the same time.

### ManualRecording

`call[c]` is what a caller is in: `record_usage` directly, a `usage()` block or a
decorated function; `pc` goes "body" (the wrapped code), "check" (budgets),
"hook" (insert done, `on_record` next), "contracts", "enforce". The actions follow
`record_usage`: `UnknownModel`, `BudgetHasRoom`/`BudgetExceeded` per budget,
`GhostDropped`, `StoreRecord` or `StoreFails`, `HookReturns` or `HookRaises`,
`CheckContract` per contract (before enforcement, unlike the pipeline),
`WithinMargin`/`Overrun` per budget, `Return`. `Raise` is what becomes of an
exception: it leaves `record_usage`; a block swallows it; the decorator's except
clause records the same call again as an error, if it was a success.
`made`, `billed`, `hookRaised` and `rolled` are history.

* Only successes run into enforcement: `_skip_budget_check` belongs to error records.
* A contract callback that raises ends the loop as a breach does. An
  `on_budget_exceeded` that raises is logged and the loop goes on (`CallbackRaises`):
  the pipeline's ends.
* Left out: the `system_context` argument error, prompt hashing, what the estimator
  or extractor raises, and records to which the caller gives a status.

### Wallet

`limit` is the user's budget, `spend` what it is charged with, `alerted` is
`_low_alerted`. Every read and write of the three is a step: `debit` reads the limit
("debit"), compares under the lock ("decide": `Approve`, `Exhausted`), tests the flag
and sets it ("test", "fire"); `refill` reads the limit, writes the new one, reads
limit and spend again and re-arms; `reset` reads, writes back and re-arms. `Record` is
the request that debit admitted: its record is charged, at any cost up to `TopCost`.
`NewWindow` is a roll-over of the window. `goal` is `new_limit`, `low` the
comparison with the threshold; the rest is history.

* `fired` counts alarms since the flag was last reset. It is at most the number of
  threads; that it stays at one needs that nobody comes between test and setting of the flag.
* Left out: others who set the same budget while the wallet exists, an
  `on_low_balance` callback that raises.

### WebhookNotifier and Outbox

`batch` is `_batch`, `timer` and `due` are `_batch_timer`, `age` is now minus
`_last_send`, `out[a]` the batch that a thread has taken. `Threads` call `on_record`;
`Timers` are threads of timers that have fired, which `cancel()` does not stop: a
flush of theirs may meet another batch and another timer. `FlushEmpty`,
`FlushThrottled` and `Take` are the three ways through `_flush_batch` under the lock;
`Stamp` sets `_last_send` after it. `PostSlack`, `PostGeneric` and `PostRaises` are
the two posts, each of which may fail.

`Outbox` has `pending`, `posted` and `failed`; a record is enqueued once, and batches
of pending records are settled. The refinement maps `pending` to the batch and all
batches taken, so a record that is dropped, posted twice or left in the batch for ever
breaks it.

* Left out: payloads, records that cost nothing (ignored by the code), and
  `on_budget_exceeded`/`on_budget_threshold`, which post at once and keep no state.
  A process that exits drops what is in its batch: the timers are daemon threads.

### HookChain and LiveServer

`installed` is `interceptor.on_record`, `next[h]` the hook that `h` calls: a captured
variable of the log and span hooks, the attribute `_original_on_record` of the
server. `previous` is the log adapter's `_PREVIOUS` entry. "app" is a hook the
application installed before. `Attach`, `DetachHook`, `DetachAny`, `Instrument`,
`HookLive`, `UnhookLive` are the operations, by one thread. `stack`, `orderly` and
`tangled` are history: what should run, whether hooks came off newest first, and
whether the server was started while its hook was still in the chain. A second attach is
no disorder: `stack` has the new log hook in the place of the first one and of what was
installed in between, which is what the code does, and not what its documentation says
(`AttachKeepsHooks`, `DetachRestores`).

`LiveServer` adds the server: `ctl` is where a running `stop()` is, `subs` the
subscribers, `inbox[c]` the queue of a connection (`Cap` for 1000), `conn[c]` what its
handler thread does, `rpc`, `targets` and `depth` what a recording thread does in
`_publish`. `LockFree` is false while `stop()` holds the lock ("ending"); every other
use of the lock is one action. `MaxDepth` stands for Python's recursion limit. A handler
is "writing" the retry interval, a record or a heartbeat until its client has taken it
(`Written`) or is gone (`WriteFails`); neither ever has to happen.

* A queue that nobody reads any more is forgotten (`Unsubscribe`), also by
  publishers that still hold it: what they put there has no effect.
* Left out: `/stats`, authorization, log and span contents.

### ProviderCall

A tick is the time in which a bucket gains one unit, `Token` units make a token, and
`cap` is the rate in units: the only numbers that matter are how many units a caller
lacks and how long it sleeps. The code refills a bucket when it looks at it, the model
at every tick; both give min(rate, tokens + elapsed * rate). A bucket is named by the
caller that made it; `slot` is the provider's entry of `_rate_buckets`. `TakeToken`
and `SleepForToken` are `consume` under its lock, `WakeUp` the end of its sleep;
`Send`, `FailsTransiently`, `SendAgain`, `Answered` are the retry loop.

* `credit` and `allowance` are history: what a bound still allows, that is lowered by
  every call let through and grows with time up to its maximum, so that it is
  negative exactly if some interval saw too many calls.
* Left out: which errors are transient, `request_timeout`, and a changed
  `rate_limit_rps` (a bucket keeps the rate it was made with). A rate of 0 is left
  out too: `consume` divides by it and raises.

### SystemMonitor

`thread` is `_thread`, `stopFlag` is `_stop`, `holder` the thread in the lock, `last`
and `metrics` are `_last_snapshot` and the list, each sample named by its number.
`Users` call; `Collectors` are the `Thread` objects, each started at most once.
`start` is four steps (test, clear the flag, create, begin), `stop` four (set the flag,
test `_thread`, join, forget it), and `snapshot` reads `_thread` twice under the lock.
`Collect` or `ProbeFails` end the probing; `JoinTimesOut` is possible while somebody
probes, or after a start has cleared the flag.

* Left out: what is measured, and the reads `get_metrics` and `get_summary`. How often
  the collector wakes is not counted.

## Runs

Passing runs:

* `store` (a ring of 3, four inserts, the days 0 and 2, so that a retention of one day
  drops what is old). Without a file: two keys, of which the global one may be windowed,
  three kinds of record, negative, zero and one-day ages; the ring evicts, trims happen
  before and after budgets are set, inserts raise. With one, plain or encrypted: one key,
  never windowed, two damaged writes, two crashes; every write fault at every stage, two
  of them as long as no rewrite is cut and no budget is set, followed by reloads, with either
  key, and by further inserts. In place of both budgets a `user_project` budget that is never
  reset may be set (the key "pair"). `Small` in `MCMemoryStore` keeps the cases
  apart. `TypeOK`, `CountedAtMostOnce`, `RingIsCounted`, `FaultsAreContained`,
  `NeverTotalsMonotone`, `FullRingForgets`.
* `pipeline` (three places, four calls, a global and a user budget, two contracts,
  six configurations, one mishap): enough for two calls admitted together on the
  last of a budget while a third enforces, and for a place to be used twice.
  `OverspendBounded`, `NoSilentOverrun`, `EveryAnswerRecorded`,
  `ContractsChargedAlike`. The calls are interchangeable, and are a symmetry set.
  Deadlock is not checked: after `MaxCalls` calls the system is done.
* `breaker` (three callers, threshold 2, timeout 1, both modes): one caller trips,
  one is late, one comes to try. `OpensOnFailuresOnly`,
  `OpensOnConsecutiveFailures`, and under fairness `OpenEnds`.
* `sqlite` (two threads, a user's old record and a global recent one, two inserts,
  two faults, one restart, one day, a table capped at one row): a transaction left
  open by one thread meets writes of both, a second failure, compaction by age and
  by cap, and a restart; a "never" key emptied by a compaction makes inserts and
  batches raise. `TypeOK`, `ReturnedIsDurable`, `ReturnedIsCharged`,
  `NeverTotalsMonotone`. The threads are a symmetry set.
* `recording` (two callers, three calls, a global and a windowed user budget, two
  contracts, four configurations, one mishap): two callers are admitted on the last
  of a budget, a decorated call is recorded twice, a window rolls over between the
  two. `BilledOnce`, `OverspendBounded`, `SecondRecordOnlyForHook`,
  `NoSilentOverrun`, `EveryRecordReachesContracts`. The callers are a symmetry set;
  the system is done after `MaxCalls` calls, so deadlock is not checked.
* `wallet` (three threads, five operations, limit 3, estimates of 1 and 2, threshold one half): two refills
  overlap with a debit, two debits race for the alarm, a reset writes back a stale
  limit. `TopUpsAddUp`, `OverdraftBounded`, `AlarmOncePerLow`. The threads are a
  symmetry set; done after `MaxOps` operations.
* `notifier` (two recording threads, two timer threads, four records, batches of 1 and
  2, a throttle of two ticks): a full batch cancels a timer that has fired already, a
  throttled batch grows beyond its size, posts of two batches overlap and fail.
  `NothingStranded`, `ThrottleHolds`, and `ImplementsOutbox`, the refinement of
  `Outbox` with its liveness. Done after `MaxRecords` records.
* `live` (two log hooks, a span, the server, two recording threads, one connection with a
  queue of one, two records, four operations): the server is stopped while records
  are published and the queue is full, and hooks are taken off in every order,
  during a walk too. `AppHookRuns`, `ChainIsStack`, `StopReturns`. Deadlock
  is not checked: the system is done after the operations, and has the real deadlock
  `Stuck` described below.
* `provider` (two callers, rates of half a token, one token and one and a half a
  second, one retry): two buckets are made, both callers sleep at once, a call fails
  and is retried. `LimitBounded`, `CallReturns`. No bound is needed.
* `monitor` (two application threads, three collectors, two samples, two kept, five
  calls): a join times out, the next start clears the flag of the old collector, a
  second stop forgets the thread of the first. `InOrder`, `OneCollector`,
  `StoppedForGood`. Done after `MaxCalls` calls.
* `scopes` (three calls: of ordinary identifiers, of a second project with an agent, and of a
  user with a colon and a blank tenant; eight budgets of all kinds, an unknown scope
  and a three-part `user_project` among them; three days, the second a Monday, the third the
  first of a month; two records): every budget is set before, between or after the records it counts,
  and windows roll over in between. Two records make a budget full and try it once more.
  `SpendsAgree`, `ChargedOnlyWithRoom`, `FallsOnlyAtRollOver`. Done after `MaxRecords`
  records and `LastDay` days.
* `wrapping` (two ledgers, three overlapping wrappers, one frozen, one managed and one missing
  attribute, two clients at one address): every order of wraps and unwraps up to a nesting of
  three. `TrackedByWrappers`.

Bounds: `MaxInserts`, `MaxTime`, `MaxDamage`, `MaxCrashes` (store), `MaxCalls`,
`MaxMishaps` (pipeline, recording), `MaxCalls`, `MaxTime`, `MaxFaults`, `MaxRestarts`
(SQLite), `MaxOps` (wallet), `MaxRecords` (notifier), `MaxNotes`, `MaxOps` (live),
`MaxSamples`, `MaxCalls` (monitor), `MaxRecords`, `LastDay` (scopes),
`MaxClients`, `MaxNested` (wrapping). The breaker and `ProviderCall` need none. The proofs
remove them: they are parameters there, of any size. Only the stores' type invariants are
in runs, where they say that no bag of records goes negative; the others are proved.

Fairness. Everywhere a thread that is in the middle of a method is weakly fair, since
the scheduler runs every thread; nobody is ever required to call, with one exception.

* `breaker`: each caller's next step and the clock. That callers keep calling is a
  demand on the application, and a needed one: the breaker changes only when it is
  called.
* `notifier`: the clock, and every step of a thread inside `_flush_batch` or `_post`,
  which ends with its timeout. Nobody has to call `on_record`: timers do the rest.
* `live`: `stop()`, recording threads and handlers, as long as a handler does not write.
  Of a client nothing is assumed: `wfile.write` has no timeout, and a client may leave what
  it is sent unread for ever, fail at any time, or do neither.
* `provider`: the clock and each caller in the middle of a call; the provider
  answers somehow (`request_timeout`).
* `monitor`: threads inside start, stop, snapshot and the collector's loop. Weak
  fairness suffices for the lock because the application's calls are finitely many.

Every property has a mutant, a plausible mistake kept beside the definition it
replaces (the operators commented "Mistake"), that TLC finds violating it.

## Where documentation and code part

Each is stated as a definition of its module, which TLC refutes when it is checked
under the module's configuration; the runs are spent on what holds.

| Definition | Statement | What happens |
|---|---|---|
| `MemoryStore.TrimmedFileMatchesRing` | `store.py:508`: the rewritten file matches the ring | the newest record is written by the rewrite and appended again; a restart charges it twice |
| `MemoryStore.NeverBudgetChargesRing` | `docs/migrating.md:80`: never budgets are charged from totals that survive pruning | an empty totals dict is restored and every later insert for the key raises |
| `MemoryStore.NeverSpendSurvives` | `CHANGELOG.md:17`, `docs/migrating.md:80`: never budgets survive pruning, `compact()` keeps their cumulative spend | a never budget of `user_project` is charged by a scan of the ring (`budget.py:152-156`): retention and eviction take its spend away |
| `MemoryStore.EncryptedCrashKeepsFile` | `CHANGELOG.md:8`: encrypted persistence is atomic, a crash truncates nothing | the rewrite after a trim renames the file away and writes a new one in place. Nothing reads the `.bak`: a start after a crash in between finds no record at all, and the next trim overwrites the `.bak` |
| `Wallet.DebitsReserve` | `wallet.py:98-99`, `docs/api.md:125`, `CHANGELOG.md:29`, `README.md:40`: debit reserves the estimate, concurrent debits cannot both pass | debit compares and reserves nothing: debits pass together until one of them is charged. What does hold is `OverdraftBounded`: one largest record for each thread |
| `Wallet.AlarmOncePerCycle` | `README.md:334`, `docs/advanced.md:228`: the low-balance callback fires at most once per cycle | two debits test the flag before either sets it, and both fire. What does hold is `AlarmOncePerLow`: once for each thread |
| `Wallet.RefillAlwaysRearms` | `README.md:334`, `docs/advanced.md:229`: re-armed on `refill()` or `reset()` | a refill that leaves the balance below the threshold does not re-arm, as `docs/api.md:128` says |
| `RequestPipeline.ContractsSeeEveryRecord` | `interceptor.py:593`: contracts are enforced after every stored record | the post-hoc error leaves before them |
| `RequestPipeline.UnknownModelsRejected` | `README.md:520`: "block" rejects unknown models outright | after the answer was paid for |
| `SqliteStore.BatchIsOneTransaction` | `sqlite_store.py:186`: a batch is a single transaction | the totals of the rows before the failure are not rolled back |
| `CircuitBreaker.HalfOpenAllowsOneTrial` | `ARCHITECTURE.MD:433`: one trial request | every caller passes |
| `HookChain.AttachKeepsHooks` | `logging_adapter.py:50`: any previously installed hook still runs; `docs/advanced.md:271`: multiple attaches chain | a second attach calls the hook the first one found, and drops the first, and whatever was installed since, from the chain |
| `HookChain.DetachRestores` | `docs/advanced.md:272`: detaching restores the callback that was active before the attach | after a second attach it restores the one that was active before the first |
| `BudgetScopes.CheckedIffCharged` | `scopes.py:11`: all scope semantics stay consistent in one place | a call whose user or project has a colon in it is checked against a `user_project` budget of three parts that no record is ever charged to |
| `ProviderCall.RateKept` | `README.md:510`: `rate_limit_rps` is the maximum of requests per second per provider | a caller that has to sleep leaves the bucket empty, but the bucket fills while it sleeps, and the token it slept for is given to the next call as well: one caller in a loop makes two calls in the time of one token. What does hold is `LimitBounded`: one unit a tick for every bucket and one for every caller |
| `BudgetScopes.UserProjectReported` | `CHANGELOG.md:73`, `budget.py:141`: `user_project` spend is the intersection of user and project | `get_budget_utilization` (`analytics.py:201`) reads running totals for every budget that is never reset; nobody keeps any for `user_project`, and it reports that nothing was spent. The enforcer scans, and charges correctly |
| `ClientWrapping.WrappedIsTracked` | `README.md:77`: wrap once, tracking is now automatic | a layer remembers what it wrapped by the client's address for ever (`interceptor.py:341`). A client that gets the address of a collected one is taken for wrapped: the call returns it, and nothing it does is tracked |
| `ClientWrapping.DescriptorsRestored` | `CHANGELOG.md:19`: `unwrap()` restores class-level descriptors | it hands the property object to the property's own setter, so the attribute now holds it; a property without a setter makes `unwrap` raise half way |
| `SystemMonitor.CollectorCollects` | `system.py:201`: snapshot returns the last background-collected sample | the collector's own snapshot reuses the cached sample too: while a collector runs there is never a second one |

Three more are in no document but worth knowing. Two ledgers that wrap a client and
unwrap it in the same order, not the reverse, leave the first one's tracked function on
it: it goes on recording, and records twice if it wraps again. `stop()` of the live server can deadlock
(`LiveServer.Stuck`): it waits, with the lock held, for room in the full queue of a client
whose handler has failed and waits for that lock to unsubscribe, or is blocked writing, with no
timeout, to a client that no longer reads; every publisher then waits for the lock too. And a server that is
started again while its hook is still in the chain, behind one that was attached since,
makes the chain endless: every record ends in RecursionError (`tangled`).

## Proofs

All for every value of the constants that satisfies the named assumptions
(`StoreConstants`, `PipelineConstants`, `BreakerConstants`, `SqliteConstants`,
`RecordingConstants`, `WalletConstants`, `NotifierConstants`, `CallConstants`,
`ScopeConstants`, `WrappingConstants`, `HookNames`, `LiveConstants`, `MonitorConstants`).

* `MemoryStoreProofs`: `TypeCorrect`; `ChargedAtMostOnce`; `RingCharged`;
  `NeverSpendMonotone` (an action property). Lemmas say what each helper
  (`KeepNewest`, `Rebuilt`, `RestoreNeverTotals`, `ApplyRetention`, the writes)
  does to a bag. The inductive invariant `StoreInv` adds to the properties that an
  entry which is missing or empty has an empty total, and that outside plain files
  nothing in the ring or the file is numbered beyond the log; without these a new
  record could already be there when it is inserted, or a restored entry could hide
  a total that is charged again.
  `EachFaultIsContained`: of the records that are owed, those the file does not have, plus one
  for a torn last line, which dooms whatever is appended behind it, are at most one or two
  for each fault so far (`FaultsContained`). That is inductive with two facts more: an owed
  record in the file is in the ring, so that an encrypted rewrite loses none, and nothing in
  the file or the ring is numbered beyond the log. `OnlyEvictionForgets` (an action property) adds
  that the ring never holds more than its cap (`RingFits`), and that what a retention pass
  drops is as old as the retention says (`RetentionDrops`).
* `RequestPipelineProofs`: `PipelineTypeCorrect`; `OverspendIsBounded`;
  `OverrunNeverSilent`. The bound is not inductive by itself, since a call that
  read the budget long ago may store at any time. The inductive invariant `SpendInv`
  weighs the calls past the check of a budget: what is spent plus `TopCost` for each
  of them is at most the limit plus `TopCost` for every place. The check adds a
  call to the left side only when the budget had room.
  `AnswersAreRecorded`: what was paid is what is recorded plus what calls between answer
  and insert, and open streams, still hold (`AnswerInv`). `ContractsSeeTheStore`: the same
  for each contract up to the first breached one, with the calls that have not come to it;
  it needs that without `strict_budget` no budget keeps a call from the contracts
  (`ContractInv`).
* `SqliteStoreProofs`: `SqliteTypeCorrect`; `ReturnedStaysDurable`;
  `ReturnedStaysCharged`; `NeverSpendKept`. Durability is not inductive on what is
  committed: an open transaction may be committed later. The inductive invariant
  says that both `db` and `draft` keep what is owed, and, for the totals, that a key
  whose entry is missing or empty has a zero total, so that a rebuild lowers
  nothing. `WritesOutcome` says once what any way a method ends leaves behind.
* `ManualRecordingProofs`: `RecordingTypeCorrect`; `BilledOnlyOnce`;
  `RecordedOverspendIsBounded`; `RecordedOverrunNeverSilent`;
  `EnforcementRecordsOnce`. The first needs the story of each call (`Story`): a
  success that is still being checked has stored nothing, and a second record is
  an error, which is never billed. The bound is the pipeline's argument, with calls
  admitted before their body runs counted too. Silence needs `Tended`: over its
  margin a budget was told, or a caller is still to look; a caller whose record ghost
  mode dropped does not count. That enforcement never causes a second record rests on
  `Fair`: whoever enforcement raised in has on its list a budget over its limit, spend
  falls only with the window, and so the second record is refused.
  `RecordsReachContracts`: what is stored is, for each contract up to the first breached
  one, charged already or about to be by a caller that has not come to it (`Due`). It
  needs that callers elsewhere hold no cost (`AllBare`).
* `BudgetProofs`, of the wallet: `RefillsAddUp`; `OverdraftIsBounded`; and the types
  (`WalletTypeCorrect`). `TopUpInv` keeps what a refill is about to write between the
  first limit and that plus all refills, and exact while no two writers overlap.
  `OverdraftInv` weighs approved debits as `SpendInv` weighs calls, against the highest
  limit there was: a debit may compare with one that has been written over.
  `AlarmFiresOnce`: a thread that is to fire tested the flag before it was set, and once it
  is set no test succeeds until it is reset, so that alarms fired and threads about to fire
  are together no more than the threads (`FiredInv`). While nothing is disturbed, one thread
  at most is between testing and setting the flag, and a refill weighs the limit it has just written (`AlarmInv`); a low
  balance that it left low stays low until the next refill or roll-over, since spend only
  grows.
  Of the budgets' scopes: `EveryReaderAgrees`, `CheckedBeforeCharged`, `OnlyRollOverForgives`
  (the last two are action properties). All three rest on one invariant, `TotalsComplete`:
  the total of a key is the cost of all billed records whose dimensions have it. The
  agreement follows, since for a proper budget the dimensions are those that
  `matches_scope` accepts; the look-up before a call is shown to find at least the budgets
  that its record will be charged to (`ChargedIsChecked`); and a window that moves without
  rolling over is the same window (`WindowMoves`).
* `InterceptorProofs`, of the breaker: `BreakerTypeCorrect`; `TripNeedsFailures`, for threads
  too: neither the count nor a loaded count plus one exceeds the failures recorded,
  whatever updates are lost;
  `TripNeedsStreak`, for tasks: between methods `failures` is the streak, and the
  invariant says for the one caller inside a method how far it has come.
  Of client wrapping: `EachWrapperTracksOnce`. The property itself is not inductive, since
  `unwrap` puts back what was saved long ago. `Nested` adds that what a ledger has saved is
  exactly what its function has behind it on the attribute now, so that the outermost
  ledger's entry is the rest of the chain; `Kept`, that no layer has two entries for a path.
* `BackgroundProofs`, of the notifier: `BatchNeverStranded`; `ThrottleBreaksByRace`;
  `NotifierIsOutbox`, the safety half of the refinement. `Apart` says that batch,
  batches taken and what is settled share no record; `Watched` that a batch has a
  timer or somebody on the way to flush it; `ClockRight` that `age` is more than
  the time since the last batch was taken only while someone is about to stamp.
  Of the chain and the live server: `AppHookAlwaysRuns`; `ChainStaysAStack`; and the types
  (`LiveTypeCorrect`). Both rest on one invariant, `Chained`: from the installed hook a
  sequence without repetition leads to the application's (`Walk`), holds the log hook the
  adapter remembers and no other, and none that is still to be attached. Each call pushes a
  hook onto that sequence or drops some of its first ones, or, a second attach, does both; an
  orderly one does the same to `stack`, and `LogPlaceIs` says how many a second attach drops. `CallsWalk` says that what `CalledAfter` computes is such a sequence.
  Of the monitor: `SamplesStayInOrder`, since no sample that is kept is newer than `last`,
  which is what a collector or a reuse appends; `OnlyOneCollector`; and the types
  (`MonitorTypeCorrect`). The second is not inductive: a stop forgets a thread it could not
  join. `Controlled` says what each step of the one controlling thread knows, and counts
  the collectors other than the known one: no more than joins that timed out.
* `ProviderCallProofs`: `RateIsBounded`. Credit is at least what the buckets hold plus
  what sleepers have slept off (`LimitInv`), so a call let through never finds less
  than a token of it. Sums over callers are cardinalities of sets of units (`Heap`),
  since no installed prover does the induction that a fold would need. So are the sums of
  the other modules: of costs in flight, of records in a budget, of copies in the ring.

One proof attempt failed because the property was wrong. `FullRingForgets` used to say
that spend of the current day leaves a windowed budget only when the ring is full after the
step. In a larger instance than the run's that is false: an insert can evict a record of today
from a full ring, and retention then drop the newcomer, which is older. It now says what the
code does guarantee: what is forgotten is the oldest record of a ring that was full before the
insert, or past the retention. The run's days were spread so that retention and eviction meet
in it.

Every safety property of every run is proved. Only model-checked is liveness, which is out
of the provers' reach: `OpenEnds`, `StopReturns`, `CallReturns`, `StoppedForGood` and the
fairness of `Outbox` in `ImplementsOutbox`. So is ENABLED, on which none of the proofs
rests. No installed prover does induction over data either. Where a set of numbers needs its
greatest or least member, the proofs take it from the library's theorem that finite subsets are
well-founded (`HighestMember`, `HighestDay`, `LowestMember`); with the last, two functions
that satisfy the recursion of `CalledAfter` are shown to be one, so that what it computes
is known for the sequences in question.

## Not modelled, and why

Checksums, ciphers and JSON (conversions that the properties do not tell apart);
system probes, HTTP and the CLI (pure I/O); extractor, estimator, pricing, export, and
analytics but for the spend of a budget (sequential conversions, whose results the
pipeline takes from small sets); the other differentiators and the ledger's queries and settings (sequential,
no state of their own). What a
modelled component leaves out is listed in its section above.

## Plan

Done: `MemoryStore`, `RequestPipeline`, `CircuitBreaker`, `SqliteStore`,
`ManualRecording`, `Wallet`, `WebhookNotifier` with `Outbox`, `HookChain` with
`LiveServer`, `ProviderCall`, `SystemMonitor`, `BudgetScopes`,
`ClientWrapping`. Left, in this order:

1. A `Store` specification (spend per key) that `SqliteStore` and `MemoryStore`
   are shown to implement by a refinement mapping.
2. The composition of pipeline and store.
3. The pure pieces that are left: estimates and prices.
