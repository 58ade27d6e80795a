------------------------------ MODULE Dashboard ------------------------------
(***************************************************************************)
(* The server and what its crawler tells it: the Supervisor together with  *)
(* the messages of src/src/tree.ts and src/src/queue.ts, the message       *)
(* handler and the caches of server.ts, and the answers of /api/tree.      *)
(*                                                                         *)
(* A tree is the number of pages it was built from.  The crawler sends one *)
(* at every interval, changed or not; the messages of one crawler arrive   *)
(* in order.  Each tree is compressed in the thread pool, and compressions *)
(* end in any order.  The back end is SQLite: with PostgreSQL the crawler  *)
(* asks for stmts.totalNodes, which db-pg.ts lacks, and never sends a tree.*)
(***************************************************************************)
EXTENDS Supervisor, SequencesExt

CONSTANTS
  MAX_PAGES,    \* bound: pages in the crawler's database
  MAX_WIRE,     \* bound: messages of each type under way
  MAX_ZIPS,     \* bound: compressions under way
  MAX_ERRORS    \* bound: compressions that fail

ASSUME DashboardAssumption ==
  {MAX_PAGES, MAX_WIRE, MAX_ZIPS, MAX_ERRORS} \subseteq Nat

VARIABLES
  pages,           \* pages in the crawler's database
  nodeCount,       \* the crawler's: the last count of them that did not fail
  wire,            \* messages sent and not yet received
  treeJsonStr,     \* the tree served as JSON
  treeGzipBuf,     \* the tree served to clients that accept gzip
  zips,            \* trees being compressed, in the order they came
  cachedNodeCount, \* from the last statistics
  errors           \* compressions that have failed

channel == <<pages, wire>>
caches == <<treeJsonStr, treeGzipBuf, cachedNodeCount>>
treeVars == <<nodeCount, channel, caches, zips, errors>>

NoTree == 0
Plain == -1   \* the bytes of NoTree, not compressed

(* CrawlState.refresh swallows a failing query, and leaves the old count.   *)
Refreshed(old, now) == {old, now}

(* createBackend, in a new crawler, of which there may be none.            *)
FirstCount == IF alive = {} THEN {0} ELSE Refreshed(0, pages)

(* Loading server.ts: loadTreeFromDb, which may fail, then setupWorker.    *)
DashboardInit ==
  /\ Init
  /\ pages \in 0..MAX_PAGES /\ wire = <<>>
  /\ nodeCount \in FirstCount
  /\ treeJsonStr \in {NoTree, pages}
  /\ treeGzipBuf = IF treeJsonStr = NoTree THEN Plain ELSE treeJsonStr
  /\ cachedNodeCount = 0 /\ zips = <<>> /\ errors = 0

-----------------------------------------------------------------------------
(* The crawler saves a page.  It counts them only for its statistics.      *)
Crawls ==
  /\ alive # {} /\ pages < MAX_PAGES
  /\ pages' = pages + 1
  /\ UNCHANGED <<vars, nodeCount, wire, caches, zips, errors>>

Send(type, count) ==
  /\ Cardinality({i \in DOMAIN wire : wire[i].type = type}) < MAX_WIRE
  /\ wire' = Append(wire, [type |-> type, count |-> count])

(* refreshTreeCache.  A failing query sends nothing.                       *)
SendTree ==
  /\ alive # {}
  /\ Send("tree", pages)
  /\ UNCHANGED <<vars, pages, nodeCount, caches, zips, errors>>

(* The statistics of startCrawlLoop, sent though the count may have failed. *)
SendStats ==
  /\ alive # {}
  /\ nodeCount' \in Refreshed(nodeCount, pages)
  /\ Send("stats", nodeCount')
  /\ UNCHANGED <<vars, pages, caches, zips, errors>>

-----------------------------------------------------------------------------
(* child.on("message"), which setupWorker registers for each child.        *)
Listens_once == crawlerWorker = 1

Listens == TRUE

ZipsWith_ifChanged(tree) == IF tree = treeJsonStr THEN zips ELSE Append(zips, tree)

ZipsWith(tree) == Append(zips, tree)

Receive ==
  LET msg == Head(wire) IN
  /\ Running /\ wire # <<>> /\ Len(zips) < MAX_ZIPS
  /\ wire' = Tail(wire)
  /\ IF Listens /\ msg.type = "tree"
     THEN treeJsonStr' = msg.count /\ zips' = ZipsWith(msg.count)
     ELSE UNCHANGED <<treeJsonStr, zips>>
  /\ cachedNodeCount' =
       IF Listens /\ msg.type = "stats" THEN msg.count ELSE cachedNodeCount
  /\ UNCHANGED <<vars, pages, nodeCount, treeGzipBuf, errors>>

(* The callback of zlib.gzip.                                              *)
Served_both(tree) == treeGzipBuf' = tree /\ treeJsonStr' = tree

Served(tree) == treeGzipBuf' = tree /\ UNCHANGED treeJsonStr

Compressed(i) ==
  /\ Running
  /\ zips' = RemoveAt(zips, i)
  /\ \/ Served(zips[i]) /\ UNCHANGED errors
     \/ /\ errors < MAX_ERRORS /\ errors' = errors + 1
        /\ UNCHANGED <<treeJsonStr, treeGzipBuf>>
  /\ UNCHANGED <<vars, nodeCount, channel, cachedNodeCount>>

(* /api/tree, for a client that accepts gzip or does not.                  *)
ApiTree(gzip) == IF gzip THEN treeGzipBuf ELSE treeJsonStr

-----------------------------------------------------------------------------
(* What a dying crawler has not yet written to the channel is lost.        *)
CrawlerEnds ==
  /\ \E p \in alive : ChildEnds(p)
  /\ \E n \in 0..Len(wire) : wire' = SubSeq(wire, 1, n)
  /\ nodeCount' = 0
  /\ UNCHANGED <<pages, caches, zips, errors>>

(* The channel is drained long before the five seconds are over.           *)
RestartAfterDrain ==
  /\ wire = <<>> /\ OnRestartTimer
  /\ UNCHANGED <<channel, caches, zips, errors>>
  /\ nodeCount' \in FirstCount'

ExitIsHandled ==
  /\ \E p \in gone : OnExit(p)
  /\ UNCHANGED treeVars

ForcedExit == OnForceTimer /\ UNCHANGED treeVars

DashboardNext ==
  \/ CrawlerEnds \/ RestartAfterDrain \/ ExitIsHandled \/ ForcedExit
  \/ /\ \/ \E p \in unspawned : OnError(p)
        \/ Shutdown \/ OnServerClosed \/ OnBackendsClosed \/ OnKillTimer
     /\ UNCHANGED treeVars
  \/ Crawls \/ SendTree \/ SendStats \/ Receive
  \/ \E i \in DOMAIN zips : Compressed(i)

(* As in Supervisor; and the crawler's interval fires, a message arrives,  *)
(* a compression ends.                                                     *)
DashboardSpec ==
  /\ DashboardInit /\ [][DashboardNext]_<<vars, treeVars>>
  /\ WF_<<vars, treeVars>>(ExitIsHandled)
  /\ WF_<<vars, treeVars>>(RestartAfterDrain)
  /\ WF_<<vars, treeVars>>(ForcedExit)
  /\ WF_<<vars, treeVars>>(SendTree)
  /\ WF_<<vars, treeVars>>(Receive)
  /\ WF_<<vars, treeVars>>(\E i \in DOMAIN zips : Compressed(i))

-----------------------------------------------------------------------------
(* No crawler will be there to send another tree.                          *)
Abandoned == isShuttingDown \/ forkFailed \/ crawlerRestarts > MAX_CRAWLER_RESTARTS

(* Every page is in the tree the server serves in the end, although the    *)
(* crawler may die before or while it sends one (tree.ts:32, server.ts:    *)
(* 155, 186).                                                              *)
TreeArrives ==
  \A n \in 1..MAX_PAGES : pages >= n ~> ApiTree(FALSE) >= n \/ Abandoned

(* The tree never goes back to an older one, across crawlers that die and  *)
(* trees compressed out of order (server.ts:155).  Nor does the number of  *)
(* pages, except to 0: a new crawler sends that for as long as its count   *)
(* fails (queue.ts:325, db.ts:128).                                        *)
CachesNeverGoBack ==
  [][/\ treeJsonStr' >= treeJsonStr
     /\ cachedNodeCount' >= cachedNodeCount \/ cachedNodeCount' = 0]_treeVars

(* Compressions that fail, or end in the wrong order and leave the older   *)
(* tree to gzip clients (server.ts:171), are made up for: the crawler      *)
(* sends its tree again and again, and in the end all are served the same. *)
GzipCatchesUp == <>[](ApiTree(TRUE) = ApiTree(FALSE) \/ Abandoned)
=============================================================================
