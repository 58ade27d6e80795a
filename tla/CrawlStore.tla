----------------------------- MODULE CrawlStore -----------------------------
(***************************************************************************)
(* The crawler's tables (src/src/db.ts, src/src/db-pg.ts): what survives a *)
(* crash.  A frontier row is a record with the id AUTOINCREMENT gave it;   *)
(* url is UNIQUE in frontier, so inserting a known url is ignored.  A page *)
(* is its url; the other columns, and the full-text index, are left out.   *)
(***************************************************************************)
EXTENDS Integers, FiniteSets, Functions

CONSTANTS
  ASYNC,      \* DB_BACKEND is "pg": every statement is a round trip
  Url,        \* urls the crawl may meet
  MAX_DEPTH,  \* config.ts MAX_DEPTH
  MAX_ID      \* bound: frontier ids are not handed out beyond it

RECRAWL == -1   \* the depth that marks a row re-crawled for its page

ASSUME StoreAssumption ==
  IsFiniteSet(Url) /\ MAX_DEPTH \in Nat /\ MAX_ID \in Nat

VARIABLES
  frontier,   \* rows [url, depth, id] waiting to be fetched
  nextId,     \* the next id of the frontier
  visited,    \* urls never to be fetched again
  nodes       \* urls of the saved pages

tables == <<frontier, nextId, visited, nodes>>

Row == [url : Url, depth : RECRAWL..MAX_DEPTH, id : Nat \ {0}]

UrlsOf(rows) == {r.url : r \in rows}

Without(rows, urls) == {r \in rows : r.url \notin urls}

StoreInit ==
  /\ frontier = {} /\ nextId = 1
  /\ visited = {} /\ nodes = {}

StoreTypeOK ==
  /\ frontier \in SUBSET Row
  /\ nextId \in Nat \ {0}
  /\ visited \in SUBSET Url
  /\ nodes \in SUBSET Url

\* insertFrontier / insertManyFrontier after `rows' has become the frontier:
\* the urls it lacks get the next ids, in any order.
Insert(rows, urls, depth) ==
  LET new == urls \ UrlsOf(rows) IN
  /\ nextId + Cardinality(new) <= MAX_ID + 1
  /\ \E place \in Bijection(new, 0..(Cardinality(new) - 1)) :
       frontier' = rows \cup
         {[url |-> u, depth |-> depth, id |-> nextId + place[u]] : u \in new}
  /\ nextId' = nextId + Cardinality(new)

\* The saveNode transaction for a page fetched as `orig' and found, after
\* redirects, at `url'.
SaveNode_forgetsTarget(url, orig) ==
  /\ nodes' = nodes \cup {url}
  /\ visited' = visited \cup {orig}
  /\ frontier' = Without(frontier, {url, orig})
  /\ UNCHANGED nextId

SaveNode(url, orig) ==
  /\ nodes' = nodes \cup {url}
  /\ visited' = visited \cup {url, orig}
  /\ frontier' = Without(frontier, {url, orig})
  /\ UNCHANGED nextId

MarkVisited_never(url) == UNCHANGED visited

MarkVisited(url) == visited' = visited \cup {url}

Unprocessed_all(rows) == {}

\* clearProcessed, and cleanupFrontier's DELETE.
Unprocessed(rows) == Without(rows, visited)
=============================================================================
