------------------------------ MODULE CrawlLoop ------------------------------
(***************************************************************************)
(* The crawl loop of src/src/queue.ts: startCrawlLoop, the counters of     *)
(* CrawlState (src/src/db.ts, src/src/db-pg.ts) it steers by, and the      *)
(* start-up of initializeCrawl after a crash.                              *)
(*                                                                         *)
(* processNext is not one loop.  Every finished fetch starts it anew, so   *)
(* several runs of it (chains) are alive at once, and each run can be      *)
(* suspended at every await.  A step of this module is what JavaScript     *)
(* runs between two awaits.  With PostgreSQL every statement is awaited,   *)
(* and anything may happen meanwhile.  With SQLite a statement has run     *)
(* when it is awaited, so a run keeps the event loop (`turn') until it     *)
(* waits for the network, a timer or setImmediate.                         *)
(***************************************************************************)
EXTENDS CrawlStore, FiniteSetsExt

CONSTANTS
  Chain,            \* runs of processNext that may be alive at once (bound)
  Req,              \* fetches that may be in flight at once (bound)
  Nobody,           \* no handler holds the event loop; no url, no row
  CONCURRENCY, DOMAIN_LIMIT, DOMAIN_MAX, MAX_NODES, MAX_FRONTIER,
  QUEUE_LOW_WATER, FRONTIER_MAX,   \* config.ts
  BATCH,            \* rows getBatch returns at most
  RECRAWL_BATCH,    \* pages re-crawled when the frontier is empty
  BLACKLIST_MIN,    \* attempts before a domain can be blacklisted
  SEEDS,            \* seed urls
  Domain, Origin,   \* the domains and the origins of Url
  DomainOf, OriginOf, \* of each url; DomainOf is Nobody if it does not parse
  Links,            \* the crawlable links of each page (isBlacklisted filtered)
  Redirects,        \* where else a fetch of each url may end
  Disallowed,       \* urls their origin's robots.txt disallows
  RobotsAnswers,    \* whether fetching robots.txt succeeds: a set of BOOLEANs
  DISK_FILLS,       \* the disk may become too full
  MAX_FAULTS,       \* bound: statements and transactions that fail
  MAX_CRASHES       \* bound: crashes of the crawler process

ASSUME LoopAssumption ==
  /\ IsFiniteSet(Chain) /\ IsFiniteSet(Req)
  /\ Chain \cap Req = {} /\ Nobody \notin Chain \cup Req \cup Domain \cup Url
  /\ ASYNC \in BOOLEAN /\ DISK_FILLS \in BOOLEAN
  /\ {CONCURRENCY, DOMAIN_LIMIT, DOMAIN_MAX, MAX_NODES} \subseteq Nat \ {0}
  /\ {MAX_FRONTIER, QUEUE_LOW_WATER, FRONTIER_MAX, BATCH, RECRAWL_BATCH,
      BLACKLIST_MIN, MAX_FAULTS, MAX_CRASHES} \subseteq Nat
  /\ SEEDS \in SUBSET Url /\ Disallowed \in SUBSET Url
  /\ DomainOf \in [Url -> Domain \cup {Nobody}] /\ OriginOf \in [Url -> Origin]
  /\ Links \in [Url -> SUBSET Url] /\ Redirects \in [Url -> SUBSET Url]
  /\ RobotsAnswers \in SUBSET BOOLEAN

\* An origin has one host, and getDomain takes the domain from the host.
ASSUME OriginAssumption ==
  \A u, v \in Url : OriginOf[u] = OriginOf[v] => DomainOf[u] = DomainOf[v]

VARIABLES
  \* CrawlState
  nodeCount, frontierCount,  \* table sizes, as of the last refresh
  domainNodeCount,           \* saved pages per domain, as last counted
  domainInflight,            \* fetches per domain, as recorded
  domainSuccess, domainFail, domainBlacklist,
  diskPaused, recrawlAttempted,
  \* the loop's closure, and the robots cache of src/src/fetcher.ts
  frontierCursor, active, domainsChecked, robotsKnown,
  run,       \* the runs of processNext
  fetch,     \* the fetches
  \* the process
  up,        \* the crawler is running
  minIdAsked, \* getMinId, sent when the loop started, has not answered yet
  turn,      \* the handler holding the event loop, or Nobody
  finished,  \* history: a run stopped at MAX_NODES since the start
  faults, crashes

queue == <<frontier, nextId>>
counts == <<nodeCount, frontierCount, domainNodeCount>>
health == <<domainSuccess, domainFail, domainBlacklist>>
flags == <<diskPaused, recrawlAttempted>>
robots == <<domainsChecked, robotsKnown>>
memory == <<counts, health, flags, robots, frontierCursor>>
limits == <<active, domainInflight>>
process == <<up, minIdAsked, finished, crashes>>
vars == <<tables, memory, limits, run, fetch, process, turn, faults>>

NoRow == [url |-> Nobody, depth |-> 0, id |-> 0]

\* A run of processNext: where it is, the rows of its batch still to look
\* at, the row it looks at, domainInflight as it was before robots.txt.
Places == {"off", "scheduled", "yielded", "query", "recrawl", "reseed", "scan",
           "judge", "robots", "drop"}
RunRecord == [pc : Places,
              batch : SUBSET Row, item : Row \cup {NoRow}, held : Nat,
              startedAny : BOOLEAN]
Fresh(place) == [pc |-> place, batch |-> {}, item |-> NoRow, held |-> 0,
                 startedAny |-> FALSE]

\* A fetch: how far its handlers are, its row, where its page was found.
FetchRecord == [phase : {"none", "fetching", "saved", "marked", "settled"},
          row : Row \cup {NoRow}, finalUrl : Url \cup {Nobody}]
NoFetch == [phase |-> "none", row |-> NoRow, finalUrl |-> Nobody]

Fetching == {q \in Req : fetch[q].phase # "none"}
PagesOf(d) == {u \in nodes : DomainOf[u] = d}
InFlight(d) == {q \in Fetching : DomainOf[fetch[q].row.url] = d}

-----------------------------------------------------------------------------
(* The event loop.                                                         *)
Free == up /\ turn = Nobody               \* a new callback can run
Continues(x) == up /\ turn \in {x, Nobody} \* x resumes after an await
Await(x) == turn' = IF ASYNC THEN Nobody ELSE x  \* x awaits a statement
Sync(x) == turn' = x                      \* x goes on without an await
Yield == turn' = Nobody                   \* x ends, or waits for the world

Works == UNCHANGED faults                 \* a statement succeeds
Fault == faults < MAX_FAULTS /\ faults' = faults + 1   \* or throws

\* deleteFromFrontier, with its failure swallowed
Delete(url) ==
  \/ Works /\ frontier' = Without(frontier, {url})
  \/ Fault /\ UNCHANGED frontier

-----------------------------------------------------------------------------
(* processNext                                                             *)
At(k, place) == run[k].pc = place
Go(k, place) == run' = [run EXCEPT ![k].pc = place]
Leave(k, place) == run' = [run EXCEPT ![k] = Fresh(place)]

\* Called: the limit on pages is checked before anything else.
Start(k) ==
  /\ Free /\ At(k, "scheduled")
  /\ \/ nodeCount >= MAX_NODES /\ Leave(k, "off") /\ finished' = TRUE
     \/ nodeCount < MAX_NODES /\ Go(k, "yielded") /\ UNCHANGED finished
  /\ UNCHANGED <<tables, memory, limits, fetch, up, minIdAsked, crashes, turn, faults>>

\* The rows of getBatch: the first BATCH of those after the cursor.
NextBatch ==
  LET after == {r \in frontier : r.id > frontierCursor} IN
  {r \in after : Cardinality({s \in after : s.id < r.id}) < BATCH}

\* After setImmediate: the run gives up, or asks for a batch.
Enter(k) ==
  /\ Free /\ At(k, "yielded")
  /\ \/ active >= CONCURRENCY /\ Leave(k, "off") /\ Yield
     \/ /\ active < CONCURRENCY
        /\ run' = [run EXCEPT ![k].pc = "query", ![k].batch = NextBatch]
        /\ Await(k)
  /\ UNCHANGED <<tables, memory, limits, fetch, process, faults>>

\* The batch arrives, and the cursor moves to its end.
GotRows(k) ==
  /\ Continues(k) /\ At(k, "query")
  /\ \E last \in run[k].batch :
       /\ \A r \in run[k].batch : r.id <= last.id
       /\ frontierCursor' = last.id
  /\ run' = [run EXCEPT ![k].pc = "scan", ![k].startedAny = FALSE]
  /\ Sync(k)
  /\ UNCHANGED <<tables, counts, health, flags, robots, limits, fetch,
                 process, faults>>

\* Or it is empty: the cursor goes back to the start, and a loop with
\* nothing in flight refills a frontier that runs low.
Rewound_never == frontierCursor

Rewound == 0

GotNothing(k) ==
  LET low == active = 0 /\ frontierCount < QUEUE_LOW_WATER
      again == low /\ nodeCount > 0 /\ ~recrawlAttempted
  IN
  /\ Continues(k) /\ At(k, "query") /\ run[k].batch = {}
  /\ frontierCursor' = Rewound
  /\ recrawlAttempted' = IF low THEN again ELSE recrawlAttempted
  /\ \/ active > 0 /\ Go(k, "scan") /\ Sync(k)
     \/ active = 0 /\ ~low /\ Leave(k, "scheduled") /\ Yield
     \/ again /\ Go(k, "recrawl") /\ Await(k)
     \/ low /\ ~again /\ Go(k, "reseed") /\ Await(k)
  /\ UNCHANGED <<tables, counts, health, diskPaused, robots, limits, fetch,
                 process, faults>>

\* Pages drawn at random are put back in the frontier, to be fetched again.
Recrawl(k) ==
  /\ Continues(k) /\ At(k, "recrawl")
  /\ \E targets \in SUBSET nodes :
       /\ Cardinality(targets) = Min({nodeCount, RECRAWL_BATCH, Cardinality(nodes)})
       /\ Insert(frontier, targets, RECRAWL)
  /\ Leave(k, "scheduled") /\ Yield
  /\ UNCHANGED <<visited, nodes, memory, limits, fetch, process, faults>>

\* addSeedBatch: some seeds, those not visited.
SeedBatch == \E some \in SUBSET SEEDS : Insert(frontier, some \ visited, 0)

Reseed(k) ==
  /\ Continues(k) /\ At(k, "reseed")
  /\ SeedBatch
  /\ Leave(k, "scheduled") /\ Yield
  /\ UNCHANGED <<visited, nodes, memory, limits, fetch, process, faults>>

-----------------------------------------------------------------------------
\* The next row of the batch.  isVisited is awaited, except for a row to
\* re-crawl.
Known(r) == r.depth # RECRAWL /\ r.url \in visited

SlotFree_always == TRUE

SlotFree == active < CONCURRENCY

Pick(k) ==
  /\ Continues(k) /\ At(k, "scan") /\ SlotFree
  /\ \E r \in run[k].batch :
       /\ \A s \in run[k].batch : r.id <= s.id
       /\ run' = [run EXCEPT ![k].pc = IF Known(r) THEN "drop" ELSE "judge",
                             ![k].item = r, ![k].batch = @ \ {r}]
       /\ IF r.depth = RECRAWL THEN Sync(k) ELSE Await(k)
  /\ UNCHANGED <<tables, memory, limits, fetch, process, faults>>

\* The row leaves the frontier, and the loop goes on with the next one.
Drop(k) ==
  /\ Continues(k) /\ At(k, "drop")
  /\ Delete(run[k].item.url)
  /\ run' = [run EXCEPT ![k].pc = "scan", ![k].item = NoRow]
  /\ Await(k)
  /\ UNCHANGED <<nextId, visited, nodes, memory, limits, fetch, process>>

\* The row is fetched: the counters are set before fetchHtml's first await.
Launch(k, inflight) ==
  LET item == run[k].item IN
  /\ active' = active + 1
  /\ domainInflight' = [domainInflight EXCEPT ![DomainOf[item.url]] = inflight + 1]
  /\ \E q \in Req \ Fetching :
       fetch' = [fetch EXCEPT ![q] =
                         [phase |-> "fetching", row |-> item, finalUrl |-> Nobody]]
  /\ run' = [run EXCEPT ![k].pc = "scan", ![k].item = NoRow, ![k].held = 0,
                        ![k].startedAny = TRUE]
  /\ Sync(k)
  /\ UNCHANGED visited

\* The row is given up if robots.txt is known to disallow it.
Forbidden(item, known) ==
  item.depth # RECRAWL /\ OriginOf[item.url] \in known /\ item.url \in Disallowed

Decide(k, inflight, known) ==
  \/ ~Forbidden(run[k].item, known) /\ Launch(k, inflight)
  \/ /\ Forbidden(run[k].item, known)
     /\ MarkVisited(run[k].item.url)
     /\ run' = [run EXCEPT ![k].pc = "drop", ![k].held = 0]
     /\ Await(k)
     /\ UNCHANGED <<limits, fetch>>

\* isVisited has answered no.  The domain may be given up, or at its limit.
GivenUp(url) == DomainOf[url] = Nobody \/ DomainOf[url] \in domainBlacklist

HasRoom(url) == domainInflight[DomainOf[url]] < DOMAIN_LIMIT

Reject(k) ==
  LET url == run[k].item.url IN
  /\ Continues(k) /\ At(k, "judge")
  /\ \/ GivenUp(url) /\ Go(k, "drop")
     \/ /\ ~GivenUp(url) /\ ~HasRoom(url)
        /\ run' = [run EXCEPT ![k].pc = "scan", ![k].item = NoRow]
  /\ Sync(k)
  /\ UNCHANGED <<tables, memory, limits, fetch, process, faults>>

\* Its origin's robots.txt may have been asked for already, by any run...
Accept(k) ==
  LET item == run[k].item IN
  /\ Continues(k) /\ At(k, "judge") /\ ~GivenUp(item.url) /\ HasRoom(item.url)
  /\ item.depth = RECRAWL \/ OriginOf[item.url] \in domainsChecked
  /\ Decide(k, domainInflight[DomainOf[item.url]], robotsKnown)
  /\ UNCHANGED <<queue, nodes, memory, process, faults>>

\* ... or it is asked for now, and awaited with domainInflight in hand.
AskRobots(k) ==
  LET item == run[k].item IN
  /\ Continues(k) /\ At(k, "judge") /\ ~GivenUp(item.url) /\ HasRoom(item.url)
  /\ item.depth # RECRAWL /\ OriginOf[item.url] \notin domainsChecked
  /\ domainsChecked' = domainsChecked \cup {OriginOf[item.url]}
  /\ run' = [run EXCEPT ![k].pc = "robots",
                        ![k].held = domainInflight[DomainOf[item.url]]]
  /\ Yield
  /\ UNCHANGED <<tables, counts, health, flags, robotsKnown, frontierCursor,
                 limits, fetch, process, faults>>

RobotsAnswered(k) ==
  /\ Free /\ At(k, "robots")
  /\ \/ TRUE \in RobotsAnswers /\ robotsKnown' = robotsKnown \cup {OriginOf[run[k].item.url]}
     \/ FALSE \in RobotsAnswers /\ robotsKnown' = robotsKnown
  /\ Decide(k, run[k].held, robotsKnown')
  /\ UNCHANGED <<queue, nodes, counts, health, flags, domainsChecked,
                 frontierCursor, process, faults>>

\* The loop ends.  A run that started nothing comes back only if no fetch is
\* left to start another.
ComesBack_never(k) == FALSE

ComesBack(k) == ~run[k].startedAny /\ active = 0

EndScan(k) ==
  /\ Continues(k) /\ At(k, "scan")
  /\ run[k].batch = {} \/ ~SlotFree
  /\ Leave(k, IF ComesBack(k) THEN "scheduled" ELSE "off")
  /\ Yield
  /\ UNCHANGED <<tables, memory, limits, fetch, process, faults>>

-----------------------------------------------------------------------------
(* A fetch: the handlers chained to fetchHtml's promise.                   *)
In(q, phase) == fetch[q].phase = phase
Proceed(q, phase) == fetch' = [fetch EXCEPT ![q].phase = phase]

\* recordDomainFail: the domain is given up when more than nine in ten of
\* at least BLACKLIST_MIN attempts failed.
Hopeless(ok, failed) ==
  ok + failed >= BLACKLIST_MIN /\ 10 * failed > 9 * (ok + failed)

RecordFail(d) ==
  /\ domainFail' = [domainFail EXCEPT ![d] = @ + 1]
  /\ domainBlacklist' = IF Hopeless(domainSuccess[d], domainFail[d] + 1)
                        THEN domainBlacklist \cup {d} ELSE domainBlacklist
  /\ UNCHANGED domainSuccess

\* The page arrived and its transaction committed...
Save(q) ==
  /\ Free /\ In(q, "fetching") /\ fetch[q].row.depth # RECRAWL
  /\ \E url \in {fetch[q].row.url} \cup Redirects[fetch[q].row.url] :
       /\ SaveNode(url, fetch[q].row.url)
       /\ fetch' = [fetch EXCEPT ![q].phase = "saved", ![q].finalUrl = url]
  /\ Await(q)
  /\ UNCHANGED <<memory, limits, run, process, faults>>

\* ... or the transaction failed, and the row stays where it is.
SaveFails(q) ==
  /\ Free /\ In(q, "fetching") /\ fetch[q].row.depth # RECRAWL
  /\ Fault
  /\ RecordFail(DomainOf[fetch[q].row.url])
  /\ Proceed(q, "settled") /\ Await(q)
  /\ UNCHANGED <<tables, counts, flags, robots, frontierCursor, limits, run, process>>

TooDeep(depth) == depth + 1 > MAX_DEPTH

\* The links of a saved page that the counters let through.
Welcome(q, pageCount) ==
  IF \/ TooDeep(fetch[q].row.depth) \/ nodeCount >= MAX_NODES
     \/ frontierCount >= MAX_FRONTIER \/ diskPaused
  THEN {}
  ELSE {u \in Links[fetch[q].finalUrl] :
          DomainOf[u] # Nobody =>
            pageCount[DomainOf[u]] < DOMAIN_MAX /\ DomainOf[u] \notin domainBlacklist}

\* After the commit: counters, then the links as one transaction, whose
\* failure is ignored.
Enqueue(q) ==
  /\ Continues(q) /\ In(q, "saved")
  /\ domainNodeCount' = [domainNodeCount EXCEPT ![DomainOf[fetch[q].finalUrl]] = @ + 1]
  /\ domainSuccess' = [domainSuccess EXCEPT ![DomainOf[fetch[q].row.url]] = @ + 1]
  /\ \/ Works /\ Insert(frontier, Welcome(q, domainNodeCount'), fetch[q].row.depth + 1)
     \/ Fault /\ UNCHANGED queue
  /\ Proceed(q, "settled") /\ Await(q)
  /\ UNCHANGED <<visited, nodes, nodeCount, frontierCount, domainFail,
                 domainBlacklist, flags, robots, frontierCursor, limits, run, process>>

\* markVisited, then deleteFromFrontier, in one try: a failed mark skips the
\* delete.
Mark(q) ==
  \/ Works /\ MarkVisited(fetch[q].row.url) /\ Proceed(q, "marked")
  \/ Fault /\ UNCHANGED visited /\ Proceed(q, "settled")

\* A re-crawled page arrived: neither saved again nor searched for links.
Recrawled(q) ==
  /\ Free /\ In(q, "fetching") /\ fetch[q].row.depth = RECRAWL
  /\ Mark(q) /\ Await(q)
  /\ UNCHANGED <<queue, nodes, memory, limits, run, process>>

\* The fetch failed: an HTTP or network error, a timeout, or the breaker
\* refused it.  The url is given up.
FetchFails(q) ==
  /\ Free /\ In(q, "fetching")
  /\ RecordFail(DomainOf[fetch[q].row.url])
  /\ Mark(q) /\ Await(q)
  /\ UNCHANGED <<queue, nodes, counts, flags, robots, frontierCursor, limits,
                 run, process>>

Unlist(q) ==
  /\ Continues(q) /\ In(q, "marked")
  /\ Delete(fetch[q].row.url)
  /\ Proceed(q, "settled") /\ Await(q)
  /\ UNCHANGED <<nextId, visited, nodes, memory, limits, run, process>>

\* finally: the fetch is over, and processNext is scheduled once more.
Released_never(n) == n

Released(n) == IF n > 0 THEN n - 1 ELSE 0

Finally(q) ==
  /\ Continues(q) /\ In(q, "settled")
  /\ active' = active - 1
  /\ domainInflight' = [domainInflight EXCEPT ![DomainOf[fetch[q].row.url]] = Released(@)]
  /\ \E k \in Chain : At(k, "off") /\ Go(k, "scheduled")
  /\ fetch' = [fetch EXCEPT ![q] = NoFetch]
  /\ Yield
  /\ UNCHANGED <<tables, memory, process, faults>>

-----------------------------------------------------------------------------
(* The intervals.                                                          *)
Counted == [d \in Domain |-> Cardinality(PagesOf(d))]

\* refresh, or fullRefresh, which counts the pages per domain as well.  A
\* failure is swallowed, and what was to be counted keeps its old value.
Refresh ==
  /\ \/ /\ Works
        /\ nodeCount' = Cardinality(nodes) /\ frontierCount' = Cardinality(frontier)
     \/ /\ Fault
        /\ nodeCount' \in {nodeCount, Cardinality(nodes)} /\ UNCHANGED frontierCount
  /\ domainNodeCount' \in {domainNodeCount, Counted}

\* Every 5 s: refresh (every sixth time fullRefresh), and seed a frontier
\* that, by the counts there are, runs low.
Stats ==
  /\ Free
  /\ Refresh
  /\ IF frontierCount' < QUEUE_LOW_WATER /\ nodeCount' < MAX_NODES /\ ~diskPaused
     THEN SeedBatch ELSE UNCHANGED queue
  /\ recrawlAttempted' = (recrawlAttempted /\ frontierCount' = 0)
  /\ UNCHANGED <<visited, nodes, health, diskPaused, robots, frontierCursor,
                 limits, run, fetch, process, turn>>

\* Visited rows are cleared out of the frontier (SQLite only).
ClearProcessed ==
  /\ Free /\ ~ASYNC
  /\ frontier' = Unprocessed(frontier)
  /\ UNCHANGED <<nextId, visited, nodes, memory, limits, run, fetch, process,
                 turn, faults>>

\* The free disk space is looked at.
DiskCheck ==
  /\ Free /\ DISK_FILLS
  /\ diskPaused' \in BOOLEAN
  /\ UNCHANGED <<tables, counts, health, recrawlAttempted, robots,
                 frontierCursor, limits, run, fetch, process, turn, faults>>

-----------------------------------------------------------------------------
(* The process.                                                            *)
NoCount == [d \in Domain |-> 0]

Init ==
  /\ StoreInit
  /\ nodeCount = 0 /\ frontierCount = 0 /\ domainNodeCount = NoCount
  /\ domainSuccess = NoCount /\ domainFail = NoCount /\ domainBlacklist = {}
  /\ diskPaused = FALSE /\ recrawlAttempted = FALSE
  /\ domainsChecked = {} /\ robotsKnown = {}
  /\ frontierCursor = 0 /\ active = 0 /\ domainInflight = NoCount
  /\ run = [k \in Chain |-> Fresh("off")] /\ fetch = [q \in Req |-> NoFetch]
  /\ up = FALSE /\ minIdAsked = FALSE /\ turn = Nobody /\ finished = FALSE
  /\ faults = 0 /\ crashes = 0

\* A crash (a rejection nobody handles, a signal, no memory left) keeps the
\* tables and nothing else.
Crash ==
  /\ up /\ crashes < MAX_CRASHES /\ crashes' = crashes + 1
  /\ nodeCount' = 0 /\ frontierCount' = 0 /\ domainNodeCount' = NoCount
  /\ domainSuccess' = NoCount /\ domainFail' = NoCount /\ domainBlacklist' = {}
  /\ diskPaused' = FALSE /\ recrawlAttempted' = FALSE
  /\ domainsChecked' = {} /\ robotsKnown' = {}
  /\ frontierCursor' = 0 /\ active' = 0 /\ domainInflight' = NoCount
  /\ run' = [k \in Chain |-> Fresh("off")] /\ fetch' = [q \in Req |-> NoFetch]
  /\ up' = FALSE /\ minIdAsked' = FALSE /\ turn' = Nobody /\ finished' = FALSE
  /\ UNCHANGED <<tables, faults>>

\* cleanupFrontier: a frontier that is too large is emptied (on PostgreSQL
\* the statement is never sent), any other loses its visited rows.
Cleaned ==
  IF Cardinality(frontier) <= FRONTIER_MAX THEN Unprocessed(frontier)
  ELSE IF ASYNC THEN frontier ELSE {}

\* getMinId's answer: the cursor goes just before the first row.
RewoundToFirst(rows) ==
  \/ rows = {} /\ UNCHANGED frontierCursor
  \/ \E first \in rows :
       /\ \A r \in rows : first.id <= r.id
       /\ frontierCursor' = first.id - 1

\* createBackend counts, initializeCrawl cleans up and plants the seeds,
\* startCrawlLoop asks for the first row and calls processNext.
Boot ==
  /\ ~up /\ up' = TRUE
  /\ Refresh /\ (Works => domainNodeCount' = Counted)
  /\ Insert(Cleaned, SEEDS, 0)
  /\ minIdAsked' = ASYNC
  /\ IF ASYNC THEN UNCHANGED frontierCursor ELSE RewoundToFirst(frontier')
  /\ \E k \in Chain : Go(k, "scheduled")
  /\ UNCHANGED <<visited, nodes, health, flags, robots, limits, fetch, finished,
                 crashes, turn>>

\* On PostgreSQL the answer may come after batches that moved the cursor on.
MinIdAnswered ==
  /\ Free /\ minIdAsked /\ minIdAsked' = FALSE
  /\ \/ Works /\ RewoundToFirst(frontier)
     \/ Fault /\ UNCHANGED frontierCursor
  /\ UNCHANGED <<tables, counts, health, flags, robots, limits, run, fetch, up,
                 finished, crashes, turn>>

ChainStep(k) ==
  \/ Start(k) \/ Enter(k) \/ GotRows(k) \/ GotNothing(k) \/ Recrawl(k)
  \/ Reseed(k) \/ Pick(k) \/ Drop(k) \/ Reject(k) \/ Accept(k)
  \/ AskRobots(k) \/ RobotsAnswered(k) \/ EndScan(k)

FetchStep(q) ==
  \/ Save(q) \/ SaveFails(q) \/ Enqueue(q) \/ Recrawled(q)
  \/ FetchFails(q) \/ Unlist(q) \/ Finally(q)

Next ==
  \/ \E k \in Chain : ChainStep(k)
  \/ \E q \in Req : FetchStep(q)
  \/ Stats \/ ClearProcessed \/ DiskCheck \/ Crash \/ Boot \/ MinIdAnswered

Spec == Init /\ [][Next]_vars

(* A run of the code always comes to its next await, a timer fires, a      *)
(* fetch settles (fetchHtmlRaw has a timeout) and a database answers.      *)
FairSpec ==
  /\ Spec /\ WF_vars(Boot)
  /\ \A k \in Chain : WF_vars(ChainStep(k))
  /\ \A q \in Req : WF_vars(FetchStep(q))

-----------------------------------------------------------------------------
TypeOK ==
  /\ StoreTypeOK
  /\ nodeCount \in Nat /\ frontierCount \in Nat
  /\ domainNodeCount \in [Domain -> Nat] /\ domainInflight \in [Domain -> Nat]
  /\ domainSuccess \in [Domain -> Nat] /\ domainFail \in [Domain -> Nat]
  /\ domainBlacklist \in SUBSET Domain
  /\ diskPaused \in BOOLEAN /\ recrawlAttempted \in BOOLEAN
  /\ frontierCursor \in Nat /\ active \in Nat
  /\ domainsChecked \in SUBSET Origin /\ robotsKnown \in SUBSET Origin
  /\ run \in [Chain -> RunRecord] /\ fetch \in [Req -> FetchRecord]
  /\ up \in BOOLEAN /\ minIdAsked \in BOOLEAN /\ finished \in BOOLEAN
  /\ turn \in Chain \cup Req \cup {Nobody}
  /\ faults \in Nat /\ crashes \in Nat

(* The crawl never runs dry: unless it has stopped at MAX_NODES, some run  *)
(* of processNext is alive, or some fetch is in flight whose end starts    *)
(* one.  Runs give up whenever they see others at work (lines 192, 306);   *)
(* the count they go by must never outlive the last fetch.                 *)
NeverStalls ==
  up => finished \/ (\E k \in Chain : ~At(k, "off")) \/ Fetching # {}

(* A domain without a fetch in flight is never at its limit: the stale     *)
(* value a run writes to domainInflight after waiting for robots.txt can   *)
(* be wrong in both directions, but cannot shut a domain out for good.     *)
IdleDomainHasRoom ==
  \A d \in Domain : InFlight(d) = {} => domainInflight[d] < DOMAIN_LIMIT

(* CONCURRENCY is overshot by one fetch less than there are runs: a run    *)
(* looks at active before it waits for isVisited and robots.txt, and each  *)
(* run has one row at most past that look (queue.ts:222, 257).             *)
Claims == {k \in Chain : At(k, "judge") \/ At(k, "robots")}
OvershootBounded ==
  active + Cardinality(Claims) <= CONCURRENCY - 1 + Cardinality(Chain)

(* Every saved page is visited, whatever redirected to it: no later row    *)
(* for it is fetched as new.                                               *)
NodesAreVisited == nodes \subseteq visited

(* Work in hand can be lost with the process: every url a run looks at or  *)
(* a fetch asks for is still in the frontier, or visited, or of a domain   *)
(* given up.                                                               *)
Kept(url) == url \in UrlsOf(frontier) \cup visited \/ GivenUp(url)
InHand ==
  {run[k].item.url : k \in {j \in Chain : At(j, "judge") \/ At(j, "robots")}}
    \cup {fetch[q].row.url : q \in Fetching}
WorkSurvivesCrash == \A u \in InHand : Kept(u)

(* No url is forgotten, to come back as new with the next link to it: a    *)
(* row leaves the frontier only for a url that is visited by then, or of a *)
(* domain given up, or with a frontier that outgrew FRONTIER_MAX before a  *)
(* restart.  Visited is not fetched: a url whose fetch failed, or whose    *)
(* fetch the circuit breaker refused, is marked visited all the same       *)
(* (queue.ts:298).                                                         *)
NothingLost ==
  [][\A r \in frontier :
       r.url \in UrlsOf(frontier') \cup visited'
         \/ GivenUp(r.url)
         \/ (~up /\ Cardinality(frontier) > FRONTIER_MAX)]_vars

(* Every url in the frontier is dealt with eventually, although each batch *)
(* is taken only once per lap of the cursor and a run drops the rest of    *)
(* its batch when the fetches are used up.                                 *)
FrontierDrains == \A u \in Url : u \in UrlsOf(frontier) ~> u \notin UrlsOf(frontier)

(* ROADMAP.md:10 "robots.txt support": a url is never fetched that the     *)
(* robots.txt of its origin disallows.                                     *)
RobotsRespected == \A q \in Fetching : fetch[q].row.url \notin Disallowed
=============================================================================
