---------------------------- MODULE StoreContract ----------------------------
(***************************************************************************)
(* What the crawl loop (src/src/queue.ts) relies on when it writes to its  *)
(* tables: each of saveNode, insertManyFrontier, markVisited and           *)
(* deleteFromFrontier is seen by all others entirely or not at all, and no *)
(* url leaves the frontier that is not visited.  All that a call may miss  *)
(* are rows that come or go while it is under way: saveNode may leave one  *)
(* that was not there all the time, insertManyFrontier need not add one    *)
(* that was there for a time.  PgTransactions implements this.             *)
(***************************************************************************)
EXTENDS Functions

CONSTANTS Url, Handler

VARIABLES
  frontier, visited, nodes,  \* the urls of the committed rows
  call,                      \* what each handler is writing
  seen, missed               \* urls in, and urls out of, the frontier at some
                             \* time since the handler's call began

tables == <<frontier, visited, nodes>>

Init ==
  /\ frontier = {} /\ visited = {} /\ nodes = {}
  /\ \A h \in Handler : call[h].kind = "none" /\ seen[h] = {} /\ missed[h] = {}

\* saveNode: a page, and both its urls, that of the page and that of its row.
Save(h) ==
  LET urls == Range(call[h].urls) IN
  /\ call[h].kind = "save"
  /\ nodes' = nodes \cup {call[h].urls[1]}
  /\ visited' = visited \cup urls
  /\ frontier' \subseteq frontier /\ frontier \subseteq frontier' \cup urls
  /\ frontier' \cap urls \subseteq missed[h]

\* insertManyFrontier.
AddLinks(h) ==
  LET urls == Range(call[h].urls) IN
  /\ call[h].kind = "links"
  /\ frontier \subseteq frontier' /\ frontier' \subseteq frontier \cup urls
  /\ urls \subseteq frontier' \cup seen[h]
  /\ UNCHANGED <<visited, nodes>>

\* A failed fetch: markVisited, and then deleteFromFrontier.
MarkVisited(h) ==
  /\ call[h].kind = "giveUp"
  /\ visited' = visited \cup Range(call[h].urls)
  /\ UNCHANGED <<frontier, nodes>>

DeleteFromFrontier(h) ==
  /\ call[h].kind = "giveUp"
  /\ Range(call[h].urls) \subseteq visited
  /\ frontier' = frontier \ Range(call[h].urls)
  /\ UNCHANGED <<visited, nodes>>

TakesEffect ==
  /\ \E h \in Handler :
       Save(h) \/ AddLinks(h) \/ MarkVisited(h) \/ DeleteFromFrontier(h)
  /\ UNCHANGED call
  /\ \A h \in Handler :
       /\ seen'[h] \subseteq seen[h] \cup frontier'
       /\ missed'[h] \subseteq missed[h] \cup (Url \ frontier')

\* Calls begin, return, fail, and are cut off.
BeginOrEnd ==
  /\ UNCHANGED tables
  /\ \A h \in Handler :
       \/ UNCHANGED <<call[h], seen[h], missed[h]>>
       \/ seen'[h] \subseteq frontier /\ missed'[h] \subseteq Url \ frontier

Next == TakesEffect \/ BeginOrEnd

Spec == Init /\ [][Next]_<<tables, call, seen, missed>>
=============================================================================
