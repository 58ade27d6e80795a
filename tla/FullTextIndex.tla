---------------------------- MODULE FullTextIndex ----------------------------
(***************************************************************************)
(* The crawl loop with SQLite's full-text index, nodes_fts (src/src/db.ts, *)
(* src/src/queue.ts).  saveNode adds a row for every page it saves, also   *)
(* for one that has a row already, and swallows the failure to add one;    *)
(* initializeCrawl counts the rows and, if they are too few, deletes and   *)
(* writes them anew in two statements, between which the process may end.  *)
(***************************************************************************)
EXTENDS CrawlLoop

CONSTANT
  MAX_MISSES   \* bound: failures to add a row

ASSUME IndexAssumption == MAX_MISSES \in Nat

VARIABLES
  nodes_fts,   \* its rows: a page, and which of the page's rows this is
  emptied,     \* rebuildFtsIfNeeded has deleted the rows, and not yet more
  \* History, since the index was last rebuilt.
  missed,      \* pages saved without adding a row
  abandoned    \* a rebuild failed

index == <<nodes_fts, emptied, missed, abandoned>>

Entry(url, copy) == [url |-> url, copy |-> copy]
Copies(url) == {r \in nodes_fts : r.url = url}
ftsCount == Cardinality(nodes_fts)

IndexInit ==
  /\ Init
  /\ nodes_fts = {} /\ emptied = FALSE
  /\ missed = {} /\ abandoned = FALSE

(* insertFts, the last statement of saveNode: done, or failed unnoticed.   *)
InsertFts(url) ==
  \/ /\ nodes_fts' = nodes_fts \cup {Entry(url, Cardinality(Copies(url)))}
     /\ missed' = missed \ {url}
  \/ /\ Cardinality(missed) < MAX_MISSES
     /\ missed' = missed \cup {url}
     /\ UNCHANGED nodes_fts

SaveIndexed(q) ==
  /\ Save(q) /\ InsertFts(fetch'[q].finalUrl)
  /\ UNCHANGED <<emptied, abandoned>>

(* rebuildFtsIfNeeded: fewer rows than four fifths of the pages.           *)
TooFew_unlessNone == ftsCount > 0 /\ 5 * ftsCount < 4 * Cardinality(nodes)

TooFew == 5 * ftsCount < 4 * Cardinality(nodes)

Rebuilt == {Entry(u, 0) : u \in nodes}

(* Its first statement, while the process starts...                        *)
DeleteIndex ==
  /\ ~up /\ ~emptied /\ TooFew
  /\ nodes_fts' = {} /\ emptied' = TRUE
  /\ UNCHANGED <<vars, missed, abandoned>>

(* ... after which the process may end, leaving an empty index...          *)
CrashWhileStarting ==
  /\ emptied /\ emptied' = FALSE
  /\ UNCHANGED <<vars, nodes_fts, missed, abandoned>>

(* ... or the second one writes the rows.  A failure of either is caught,  *)
(* and not made up for before the next start.                              *)
BootIndexed ==
  /\ Boot /\ emptied' = FALSE
  /\ \/ ~TooFew /\ UNCHANGED <<nodes_fts, missed, abandoned>>
     \/ /\ emptied
        /\ nodes_fts' = Rebuilt /\ missed' = {} /\ abandoned' = FALSE
     \/ TooFew /\ abandoned' = TRUE /\ UNCHANGED <<nodes_fts, missed>>

(* The loop of a SQLite crawl, where getMinId has answered within Boot.    *)
LoopStep ==
  \/ \E k \in Chain : ChainStep(k)
  \/ \E q \in Req : SaveFails(q) \/ Enqueue(q) \/ Recrawled(q) \/ FetchFails(q)
                     \/ Unlist(q) \/ Finally(q)
  \/ Stats \/ ClearProcessed \/ DiskCheck \/ Crash

IndexNext ==
  \/ \E q \in Req : SaveIndexed(q)
  \/ DeleteIndex \/ CrashWhileStarting \/ BootIndexed
  \/ LoopStep /\ UNCHANGED index

IndexSpec == IndexInit /\ [][IndexNext]_<<vars, index>>

-----------------------------------------------------------------------------
(* A running crawler has every page in its index, but for pages whose own  *)
(* row failed and after a rebuild that failed (queue.ts:111 to 120,        *)
(* db.ts:89): an index found empty after a crash is always rebuilt.        *)
IndexCoversPages ==
  up => \A u \in nodes : Copies(u) # {} \/ u \in missed \/ abandoned
=============================================================================
