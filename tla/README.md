# A TLA+ model of the web indexer

The repository is a web crawler with a search API: a dashboard server
(`server.ts`) forks a crawler (`crawler.ts`), the crawler keeps a frontier of
urls, the pages it saved and the urls it visited in SQLite or PostgreSQL, and
the server answers searches over the same database or over Elasticsearch.
Redis, Kafka and Elasticsearch are optional. This directory holds TLA+ modules
of the parts in which order, failure and time matter, TLC configurations that
check them on small instances, and proofs that TLAPS checks for instances of
every size. Paths below are relative to the repository root.

## 1. The system

| Component | State | Operations | Module |
|---|---|---|---|
| Circuit breaker, `src/circuit.ts` | state, three counters, time of the last failure | `execute`, `_onSuccess`, `_onFailure`, the monitor interval, `getStatus` | `CircuitBreaker`, `BreakerContract` |
| Crawl loop, `src/queue.ts` with `src/db.ts`, `src/db-pg.ts`, `src/db-adapter.ts`, `src/seeds.ts` | tables `frontier`, `visited`, `nodes`; `active`, `domainInflight`, cached counts, blacklist, cursor, robots cache | runs of `processNext`, handlers of a fetch, three intervals, start-up | `CrawlStore`, `CrawlLoop` |
| Full-text index, `src/db.ts`, `src/queue.ts` | `nodes_fts` | insert with each page, rebuild at start-up | `FullTextIndex` (extends `CrawlLoop`) |
| PostgreSQL transactions, `src/db-pg.ts` | committed rows, row locks, the pool | two transactions and two single statements, row by row | `PgTransactions`, `StoreContract` |
| Kafka queue, `src/kafka.ts`, `src/queue.ts` | `_seen`, `_localQueue`, the topic and its offsets | `init`, `enqueue`, `enqueueBatch`, the consumer, dead letters | `UrlQueue` |
| HTTP fetcher, `src/fetcher.ts` | one promise, one request and one timer for each redirect; bytes of the body | `fetchHtmlRaw` and its callbacks | `Fetch` |
| Supervisor, `server.ts` | the child, its restarts, its reported health, the shutdown | `setupWorker`, its event handlers and timers, `gracefulShutdown` | `Supervisor` |
| Tree and statistics channel, `src/tree.ts`, `src/queue.ts`, `server.ts` | messages under way, cached JSON and its gzip, the cached count | messages, gzip callbacks, `/api/tree` | `Dashboard` (extends `Supervisor`) |
| Search, `server.ts`, `src/elasticsearch.ts` | the read-only SQLite handle and its age, the breaker "database", whether Elasticsearch is connected | `/api/search`, `/health/ready` | `Search` |
| Rate limiting, `src/ratelimit.ts`, `src/redis.ts` | a fixed window for each client, a sliding window in Redis, a fallback window | two limiters, the clean-up interval | `RateLimiter` |
| Redis stores, `RetryStrategy`, container | | no caller outside the tests | not modelled |
| Migrations, metrics, logging, pages, configuration, scripts | | no state of the running system, or run by hand | not modelled |

How they interact. The supervisor forks the crawler and learns of its end by
events; the crawler sends it statistics and the tree, and takes nothing from
it. Inside the crawler everything runs on one thread: a run of `processNext`
takes a batch from the frontier and starts fetches, the handlers of a fetch
write to the tables and start the next run, and intervals refresh the counts,
seed the frontier, clear it and look at the disk. Every fetch, that of a
`robots.txt` too, goes through the breaker "http-fetch". The server reads the
crawler's database through its own handle, behind the breaker "database"; its
readiness probe uses the same handle and reads the state of all breakers,
which may change it. Requests pass the general limiter, searches a second one.

What is hard here: code that reads a variable, awaits, and then acts on what it
read (`domainInflight`, `active`, `domainsChecked`, `searchDb`); callbacks that
arrive late (fetch timers, exits of the child, failures that a breaker counts
in a later state); loops kept alive only by each other (`processNext` gives up
whenever others seem to be at work); crashes, after which only the tables are
left; and boundaries of counts and ages. `PROJECT.json` lists these hazards
line by line, each with the properties that watch it.

What makes each component correct, in a sentence: the breaker refuses while the
service is down and closes when it is up again; the crawl loop loses no url,
stalls for no reason and keeps to its limits; a fetch always settles, with the
beginning of one page; the supervisor has one crawler running until it is told
to stop; searches share one healthy connection; a limiter gives no client more
than its due and lets it come back; the index has every saved page; a write to
PostgreSQL is done entirely or not at all, and says which; a url given to the
queue is kept somewhere, and the consumer steps over no message; the tree that
is served catches up with the crawler and never goes back.

## 2. Modules

**`BreakerContract`** is the abstract promise of a breaker (when it may open,
probe and close); **`CircuitBreaker`** is the code, one action for each way
through `execute` and one for each way `fn` settles, and implements the contract
with `phase <- state` and `cooled <- failureAge >= RESET_TIMEOUT`. Time is the
age of the last failure, up to the timeout. A refused call is settled by one
action, as nothing can run in between.

**`CrawlStore`** has the three tables and the statements on them.
**`CrawlLoop`** has everything that works on them. A chain of runs is a member
of `Chain`, a fetch a member of `Req`; each is at the place of its next await.
With SQLite the wrapped statements are done at once and only a microtask is
awaited, so a run goes on to its next real wait before anything else runs
(`turn`); with PostgreSQL (`ASYNC`) anything may run at each await. The start
of a fetch and the last read before it are one step (`Launch`), as in the code.

* Abstractions. Links are those left after `isBlacklisted`. The several awaits
  of `addSeedBatch`, of the re-crawl and of the statistics are one step each.
  `Enqueue` joins the counters updated after a save with the insertion of the
  links. The PostgreSQL transactions are atomic, which `PgTransactions`
  looks into. A rejection that no handler takes is the action `Crash`. The
  counts are read again by `Refresh`, which keeps the old value of each one that
  fails, at the start too, as `CrawlState` swallows its errors. The cursor that
  `getMinId` gives at the start is there at once with SQLite; with PostgreSQL the
  answer may come when runs have moved on (`MinIdAnswered`). Eviction
  from the robots cache, the counts that are only reported and the dead
  `enqueueUrl` and `kafkaEnqueue` are left out. Row ids grow, up to `MAX_ID`.
  A fetch refused by the open breaker is one that fails. With SQLite it does so
  in microtasks (`circuit.ts:50`), so that its handlers can run between those of
  another run, which `turn` excludes; such interleavings are among those of the
  run with `ASYNC`.
* Bounds. `MAX_ID` (rows ever inserted), `MAX_FAULTS` (failing statements),
  `MAX_CRASHES`. A step that would pass one of them is not taken.

**`FullTextIndex`** is the crawl loop on SQLite with `nodes_fts`. `SaveIndexed`
takes the place of `Save`: the row is added, or silently not (`InsertFts`); a
page saved again has a second row, as in the code. While the process starts,
`DeleteIndex` is the first statement of the rebuild and `BootIndexed` the second
with the rest of the start; the process may end between them
(`CrashWhileStarting`). All other steps are those of `CrawlLoop`. `missed` and
`abandoned` remember rows that were not added and rebuilds that failed.

**`StoreContract`** is what the crawl loop relies on: its writes happen whole
and one by one. It knows the call each handler is in, and which urls were in the
frontier (`seen`) or out of it (`missed`) at some time since the call began: the
links of a batch are all added, but for those that were there already at such a
time, and a saved page leaves nothing in the frontier but what was out of it at
such a time. **`PgTransactions`** is the code, one action for each statement:
a job of a handler is a sequence of statements (`Statements`), executed on a
connection of the pool and committed together, or singly for a url given up.
External, and modelled as PostgreSQL documents it at READ COMMITTED: who waits
for whose row (`Blocked`), what a waiting DELETE finds, and the detector that
aborts one of a ring of waiting transactions. A fault aborts at any statement; a
commit may be lost before or after the server has done it. The refinement maps
the committed rows to the contract's tables and `job` to its `call`; what is
uncommitted is hidden. `seen` and `missed` are history variables, which no
action of the code reads.

**`UrlQueue`** is `KafkaUrlQueue` with the consumer that feeds the frontier.
Calls of `enqueue` and `enqueueBatch` overlap at the send; a send is written or
not, whatever is answered, and may be written twice. The consumer's group has an
offset for each partition; `outcome` remembers what became of a message: stored,
a dead letter, lost in a swallowed failure, or skipped by a start at the end of
the topic.

**`Fetch`** is one call of `fetchHtmlRaw`, with a promise, a request and a timer
for each depth of redirection. A redirected answer drains and goes on to report
errors and idleness. An exception in the response callback ends the crawler
(`crashed`). What the server sends, and when, is any sequence of node's events.

**`Supervisor`**: a child is a number; `alive`, `gone` and `unspawned` are the
operating system's side, `gone` holding the children whose exit event is still
to come. A fork may give a child, throw, or give a child that only reports an
error. Timers are untimed. A SIGKILL of the server itself is not modelled.

**`Dashboard`** is the supervisor with the channel from the crawler: the tree is
the number of pages it was built from, messages arrive in order and are cut off
when the crawler dies, compressions end in any order or fail. The count the
crawler sends is its own `nodeCount`, which a failing query leaves as it was
(`db.ts:128`), and which is 0 in a new crawler. It is about
SQLite, as with PostgreSQL no tree is ever sent (section 4). The five-second
restart timer fires after the channel is drained; otherwise timers are untimed.

**`Search`** composes two clients and the readiness probe with an instance of
`CircuitBreaker` (`dbBreaker`). A search is at its next await; the handle it got
stays with it while others may close it. `getSearchDb` is four operators: it
keeps, opens, opens badly (a pragma fails) or cannot open. The turn in which the
function given to the breaker throws is not interrupted (`Free`). A `close` that
throws (`server.ts:33`), leaving the handle to its finalizer, is not modelled.

**`RateLimiter`** is one client before both limiters. Times are ages; `Tick`
makes everything one unit older. A Redis pipeline is counted, answered with an
error for each command, or thrown, in the latter two cases executed or not. It
is one step: the commands of all requests go through one connection in order,
and a window is one of times of arrival, taken before the pipeline is sent. A
count stops one past its limit, where only the refusal matters; no request is
held back for it.
`passed` remembers what was let through in the last window, and by which means.
Requests are counted by age; how many those are (`Total`, the `zcard` of a key)
is the number of pairs of an age and a number up to its count, which needs no
recursion and can be reasoned about.

Operators named `<Definition>_<fault>` are slips one could make in the code at
that place. No specification uses them; each breaks one of the properties, as
`PROJECT.json` lists, which shows that the property depends on the code.

## 3. Runs

| Run | Instance | What it shows |
|---|---|---|
| `breaker_safety` | 3 callers, threshold 3, 2 probes, timeout 2 | counters, probe budget and admission are right however calls overlap; the contract is implemented; an open breaker is probed in the end |
| `breaker_overlap` | 2 callers, 3 probes | a service that never fails again is refused **for ever** when calls overlap (finding) |
| `crawl_sqlite` | 3 urls (2 seeds), one domain, 3 origins, 2 fetches, 3 runs, a redirect, one failing statement, one row not added to the index, one crash, the disk filling up, a frontier emptied at restart | no lost row, saved pages visited, an index that covers them |
| `crawl_pg` | 3 urls, all seeds, 2 domains of an origin each, a batch of 3, 2 runs suspended at each statement before one free slot, a redirect, robots.txt refusing a url or unanswered, one failing statement, one crash | no stall, no shut-out domain, work survives the crash, `CONCURRENCY` is overshot by less than the number of runs |
| `crawl_drain` | SQLite, 2 domains of an origin each, 3 runs, the disk filling up, no refilling, no faults | every url in the frontier leaves it |
| `crawl_robots` | SQLite, 2 origins, of the two urls of one of them one disallowed, no redirects, no faults | a disallowed url **is** fetched, by a run that overtakes another one's robots.txt (finding) |
| `fetch` | 3 redirects, chunks of 1 and 2 around a limit of 3 | promises are settled, answers are read one at a time and cut, not patched |
| `dashboard` | 3 restarts, every kind of fork, a shutdown at any time; 2 pages, a message of each type under way, counts that fail, 2 compressions, one failing | one crawler, honest readiness, restarts within the budget; the tree arrives, is never replaced by an older one (nor the count by a smaller one, other than 0), and in the end is the same for gzip clients |
| `search` | 2 clients, 3 connections, TTL and timeout 1, threshold 2 | one connection, ready for use, renewed in the end |
| `ratelimit` | limits 1 and 1, window 2, pipelines counted or thrown | what may pass in any window, and that a client is served again however often it asks while refused |
| `url_queue` | 2 overlapping calls, 2 urls, `_seenMax` 1, a partition of 2 messages, garbled and keyless messages, one crash | accepted urls are kept, no message is stepped over, and all get an outcome |
| `pg_transactions` | 2 handlers, 2 urls, pages with and without a redirect, links in both orders, 2 connections | writes are whole (links one by one would not do), success is never claimed falsely, the pool recovers |

Why these bounds are enough. Two concurrent fetches, three runs and three urls
let every pair of runs and fetches meet on one url, one domain and one origin,
with a third run to arrive late; a lap of the cursor takes two batches. With
PostgreSQL every statement suspends a run and two runs are what fits: they meet
at `robots`, both past the look at `active`. Three callers of a breaker with two
probes include a call that is too many and one left over from an earlier state.
Three redirects have a first, a middle and a last; chunks of 1 and 2 reach the
limit of 3 exactly and by stepping over it. Three restarts are enough for the
budget to be spent with an event still pending. Two clients and three
connections allow both clients to hold different connections that are closed
while a third is open. Two transactions over two urls in opposite orders are the
shortest ring; with both connections taken the pool is at its limit. Two
messages have one that holds up another, and one url remembered as seen has the
other evicted. Two pages give an older and a newer tree, two compressions the
wrong order. A window of two units has an inside and a boundary.

`CHECK_DEADLOCK FALSE` stands where the system may stop: a crawl whose bounds
are used up, a topic that is full, a fetch that is over, a server that has
exited. Symmetry under permutation of runs and fetches is used in the crawl runs
that check safety only; no liveness run uses it.

Fairness. Breaker: the monitor is a `setInterval` and the clock runs; for
closing, also that callers call again and their calls settle (each fetch has a
timeout). Crawl loop: a run comes to its next await, a database answers, a fetch
settles. That a fetch settles is `FetchSettles` of the run `fetch`, which itself
needs only that timers fire and promise handlers run, unless the process has
crashed. Dashboard: node delivers events and messages and runs timers, the
crawler's interval fires, compressions end. UrlQueue: the process is started
again, joining the group ends, messages are delivered. PgTransactions: the
database answers, its deadlock detector runs, the pool's timer fires. Search: the
clock runs, awaits end and users go on searching. Rate limiter: the clock runs
and the client goes on asking. No failure, fault or disk state is fair.

## 4. Findings

* `circuit.ts:58`. A call that arrives while the last permitted probe is running
  sends the breaker from HALF_OPEN to OPEN although nothing failed; under
  overlapping calls a healthy service can be refused for ever.
* `queue.ts:244`. The origin is put into `domainsChecked` before its robots.txt
  is awaited; another run takes a url of that origin past the empty cache. In
  the run's behaviour the fetch of a page of another origin ends meanwhile and
  starts that second run.

Met while modelling, and without a run: `DOMAIN_LIMIT` can be exceeded through
the stale read at `queue.ts:237`, and `CONCURRENCY` through the one at 222 (by
how much is `OvershootBounded`); a page queued for a re-crawl (depth -1), which
may have been reached only by a redirect, is fetched without a look at
robots.txt (`queue.ts:240`; the run `crawl_robots` has no redirects); the number
of pages on the dashboard falls to 0 while a restarted crawler cannot count them
(`db.ts:134`, `queue.ts:325`); `DOMAIN_MAX` is compared only when links are
enqueued; a full disk does not stop fetching; a url whose fetch failed is given
up where `README.md:222` promises retries; a page with a 4xx status is saved,
where `docs/ARCHITECTURE.md:68` has it only marked visited; `/api/search` with
PostgreSQL does not fall back to SQLite as in `README.md:225`; the errors of
single commands of a Redis pipeline read as a count of 0 (`redis.ts:75`), so
that with Redis down every request passes where `README.md:224` promises the
in-memory limiter; with Kafka down urls go to an in-memory queue that nothing
reads (`README.md:223` has it as a fallback), and a batch whose send fails is
kept nowhere (`kafka.ts:137`, 149); the rows a page has twice in `nodes_fts`
hide missing ones from the count that decides on the rebuild (`queue.ts:111`);
with PostgreSQL the crawler asks for `totalNodes`, which `db-pg.ts` lacks, and
sends no tree; a server that could not load a tree sends uncompressed bytes
labelled gzip until the first one is compressed (`server.ts:88`); a body that
reaches 512 KB exactly destroys the answer and is told of only by the timer.

## 5. Proofs

Every theorem holds for all values of the constants under the assumptions the
modules name: positive thresholds and limits, finite sets of callers where they
are counted, null values outside the sets they complete.

* **`CircuitBreakerProofs`**: type correctness, its safety properties and
  the refinement of the contract. The invariant adds that probes of a period
  are running calls, no more than the attempts counted, that attempts not in
  flight have succeeded and are counted in `successCount`, and that fewer
  successes than needed are counted while HALF_OPEN. Without it a spent budget
  with no probe left (`SpentBudgetHasProbe`) cannot be excluded.
* **`CrawlLoopProofs`**: type correctness, `NeverStalls`, `IdleDomainHasRoom`,
  `NodesAreVisited`, `WorkSurvivesCrash`, `NothingLost`, and how far
  `CONCURRENCY` may be overshot (`OvershootIsBounded`). The invariant ties
  `active` to the fetches in flight and bounds `domainInflight` of a domain by
  what fetches in flight or runs before their write will take off again: a run
  may write a stale value, but never more than one above what it read, so that
  with the last fetch the value is back below the limit (`CountersDoNotDrift`
  says so of both counters). Further conjuncts say where a run's item comes from
  and what a fetch at each place has done to the tables. Then the index:
  `IndexedLoopIsTheLoop`, by which all of this holds of `FullTextIndex` too;
  `IndexCoversPages`, whose invariant adds what is true before the crawler runs
  (after a `DeleteIndex` nothing is left, so that the rebuild is due again at the
  next start); and that no row added replaces another (`EveryRowIsCounted`), so
  that `ftsCount` counts a page that was saved twice two times.
* **`FetchProofs`**: type correctness, `PendingIsCovered`, `OneOpenRequest`,
  `KeepsThePrefix`. The requests of a fetch form a line: only its last one can
  be open, those before it drain or are over, nothing exists beyond it. So the
  promise a redirect hands on is always a fresh one, and what is settled stays
  settled (`ResultsAreFinal`). `SuccessIsTheLastAnswer`: a fetch that succeeds
  has the body of one answer, which was read to its end, and of no other; this
  is what makes it one step of `CrawlLoop`. The invariant says it of every depth
  of the chain (a promise that is ok leads over followed redirects to the
  answer), which is why no induction over the chain is needed.
* **`SupervisorProofs`**: type correctness and the five safety invariants that
  the run `dashboard` checks, of `Supervisor`, from the invariant that there is
  one thread of life at most: of a running child, an undelivered event and a
  pending restart timer no two exist at once, and forks are counted by the exits
  already handled. `Dashboard` implements `Supervisor`, and so has them too; and
  `CachesNeverGoBack` holds of it, from the invariant that of messages of one type
  under way the later are about no fewer pages than the earlier ones and than
  what is cached, or say 0: a crawler says 0 until a count of its own succeeds,
  and goes on from there. With it, no compression under way is of a newer tree
  than the one served (`GzipIsNeverAhead`).
* **`RateLimiterProofs`**: type correctness, `FixedWindowBudget` and
  `SlidingWindowBudget`, for every window and limit. It begins with lemmas about
  `Total`: what one request more and one unit of time do to it, and that it grows
  with the counts. The invariant of a fixed window splits what passed in the last
  window at the age of the record: the younger part is within the record's count
  and its limit, the older part within the limit too; a new record begins only
  when the old one is older than the window, so that a stretch of one window
  meets two records at most. The clean-up forgets only records that nothing in
  the window came from. What passed in memory, in Redis and in the fallback is
  accounted for apart. The invariant of the sliding window: of each age the key
  holds at least what Redis let through; commands executed but not answered only
  add to it.
* **`PgTransactionsProofs`**: type correctness (no more connections than the
  pool has), `DoneIsDone`, and the refinement of `StoreContract`, for any number
  of handlers and links. The invariant: everything a job has inserted so far is
  still its own uncommitted change or is in the table (in the frontier: was there
  at some time since the job began), and everything it has deleted is still its
  own change or was out of the frontier at such a time, whatever other
  transactions committed; `seen` and `missed` are up to date; only executed
  statements hold rows; and no job both inserts into and deletes from the
  frontier. So a commit, which makes all changes at once, leaves every row of the
  call accounted for, as the contract asks. Both rest on lemmas about the statements of each kind of job.
* **`UrlQueueProofs`**: type correctness, `EnqueuedIsSomewhere` and
  `HandledBeforeCommitted`. The invariant adds that every url seen or being sent
  was accepted, which of them each call still has to keep, that what a call has
  written is in the topic, and that every message the running consumer is
  through with has its outcome. `SeenIsASet` justifies the sequence that stands
  for the JavaScript Set: no url is in it twice.
* **`SearchProofs`**: type correctness, `OneConnection` and `OnlyConfigured`. The
  invariant: a connection whose pragmas failed is in `searchDb` only while
  `searchDbLastOpen` is 0, so the next `getSearchDb` closes it. The breaker is
  taken from its own proofs: `Search` implements `CircuitBreaker`
  (`BreakerIsABreaker`), so every theorem of `CircuitBreakerProofs` holds of the
  breaker in it, the contract included (`SearchKeepsBreakerContract`). With where
  each search is, this gives that a half-open breaker without budget waits for a
  search that is going on (`SpentBudgetAwaitsASearch`).

Most theorems are of the form `Spec => []P`, from an invariant that holds
initially and is kept by each action (one step of the proof per action); the
action properties follow from the invariant and one step, and a refinement from
the initial states and the steps, each of which is a step of the other
specification or leaves its variables alone.

Only model-checked. Liveness (`OpenIsEventuallyProbed`, `HealthyServiceCloses`,
`FrontierDrains`, `FetchSettles`, `CrawlerComesBack`, `HandleIsRenewed`,
`ServedAgainAndAgain`, `TreeArrives`, `GzipCatchesUp`, `MessagesArrive`,
`PoolRecovers`) is beyond TLAPS, as is ENABLED; of `HealthyServiceCloses` the
run shows that it fails. Every safety property that a passing run checks is also
proved. Some theorems state more than the runs check: what their properties rest
on (the counters of the crawl loop, the chain of promises of a fetch), and how
modules implement each other.

## 6. Plan, and what is not modelled

Done, in this order: the breaker and its contract; the crawl loop with its store;
the supervisor; the rate limiters; one fetch; the search with its breaker; then
the full-text index on top of the crawl loop, the channel on top of the
supervisor, the queue with its consumer, the transactions with their contract;
the proofs above with each.

Left to prove: an abstract queue that `UrlQueue` implements. Left
to model: `CrawlLoop` composed with the breaker "http-fetch". It would say
nothing new about the loop, to which a refused call is one more failed fetch.

Not modelled, and why:

* `RedisCircuitState`, `RedisDnsCache`, `RedisUrlDedup`, `RetryStrategy` and the
  service container have no caller in the program: there is no use of them that
  could be right or wrong.
* Of the queue, `dequeue`, `size` and `markProcessed`, and of the Elasticsearch
  client the indexing functions, have no caller either.
* The DNS cache warms the system's resolver; nobody uses its answers.
* Migrations are a script run by hand, file after file, with no part in the
  running system.
* Parsing of pages and of robots.txt, ranking, and the texts of queries, pages
  and logs are functions of text in which nothing is shared or ordered.
* The statements of searches, statistics and pages only read.
* A SIGKILL of the server is not in `Dashboard`: nothing of ours runs after it.
