------------------------------- MODULE Search -------------------------------
(***************************************************************************)
(* /api/search (server.ts) and the read-only SQLite handle it shares with  *)
(* the readiness probe.  A search asks Elasticsearch if it is connected;   *)
(* what Elasticsearch cannot answer goes to PostgreSQL, or, through the    *)
(* "database" breaker, to SQLite.  The handle is opened on demand, kept    *)
(* for SEARCH_DB_TTL and given up by a failing probe.                      *)
(*                                                                         *)
(* A handler runs to its next await; handlers of requests that arrive      *)
(* together interleave there.  The two search services, the database       *)
(* file and better-sqlite3 are external: any call of theirs may fail.      *)
(***************************************************************************)
EXTENDS Integers, FiniteSets

CONSTANTS
  Request,            \* clients, one search at a time each
  Handle,             \* connections to the database file
  NoHandle,           \* searchDb = null
  SEARCH_DB_TTL,      \* in clock ticks, as RESET_TIMEOUT
  FAILURE_THRESHOLD, RESET_TIMEOUT, HALF_OPEN_MAX,  \* of dbBreaker
  MAX_FAILURES        \* bound: as in CircuitBreaker

ASSUME SearchAssumption ==
  /\ NoHandle \notin Handle
  /\ SEARCH_DB_TTL \in Nat
  /\ IsFiniteSet(Request) /\ MAX_FAILURES \in Nat
  /\ {FAILURE_THRESHOLD, RESET_TIMEOUT, HALF_OPEN_MAX} \subseteq Nat \ {0}

VARIABLES
  backend,        \* DB_BACKEND
  esConnected,    \* connected, in elasticsearch.ts
  searchDb,
  searchDbAge,    \* Date.now() - searchDbLastOpen, up to Never
  open,           \* connections that are open
  unready,        \* those of them whose pragmas could not be set
  search,         \* where the search of each client is, and the handle it got
  \* dbBreaker:
  state, failureCount, successCount, halfOpenAttempts, failureAge, call, probe, streak

breaker == <<state, failureCount, successCount, halfOpenAttempts, failureAge, call, probe, streak>>
connection == <<searchDb, searchDbAge, open, unready>>
vars == <<backend, esConnected, connection, search, breaker>>

dbBreaker == INSTANCE CircuitBreaker WITH Call <- Request

Never == SEARCH_DB_TTL + 1     \* searchDbLastOpen = 0
Answers == {"elasticsearch", "postgresql", "sqlite", "degraded", "error"}
Places == {"idle", "es", "pg", "opened", "throwing", "holding"} \cup Answers
At(c, place) == search[c].at = place
Go(c, place, db) == search' = [search EXCEPT ![c] = [at |-> place, db |-> db]]

(* An exception in a function the breaker calls is caught before anything  *)
(* else runs.                                                              *)
Free == \A c \in Request : ~At(c, "throwing")

Init ==
  /\ backend \in {"sqlite", "pg"} /\ esConnected = FALSE
  /\ searchDb = NoHandle /\ searchDbAge = Never
  /\ open = {} /\ unready = {}
  /\ search = [c \in Request |-> [at |-> "idle", db |-> NoHandle]]
  /\ dbBreaker!Init

(* connectElasticsearch: one ping, at the start.                           *)
ConnectElasticsearch ==
  /\ Free /\ ~esConnected /\ esConnected' = TRUE
  /\ UNCHANGED <<backend, connection, search, breaker>>

-----------------------------------------------------------------------------
(* getSearchDb: the handle, unless there is none or it is too old.         *)
Expired_never == FALSE
Expired == searchDb # NoHandle /\ searchDbAge > SEARCH_DB_TTL
Usable == searchDb # NoHandle /\ ~Expired

AgeWhenClosed_kept == searchDbAge
AgeWhenClosed == Never
AgeUnopened == IF Expired THEN AgeWhenClosed ELSE searchDbAge

StillOpen_leaks == open
StillOpen == open \ {searchDb}

Unused == Handle \ (open \cup {search[c].db : c \in Request})

Keeps == Usable /\ UNCHANGED connection

Opens(h) ==
  /\ ~Usable /\ h \in Unused
  /\ searchDb' = h /\ searchDbAge' = 0
  /\ open' = StillOpen \cup {h}
  /\ unready' = {}

\* A pragma fails: the connection is there, but getSearchDb returns null.
OpensBadly(h) ==
  /\ ~Usable /\ h \in Unused
  /\ searchDb' = h /\ searchDbAge' = AgeUnopened
  /\ open' = StillOpen \cup {h}
  /\ unready' = {h}

CannotOpen ==
  /\ ~Usable
  /\ searchDb' = NoHandle /\ searchDbAge' = AgeUnopened
  /\ open' = StillOpen /\ unready' = {}

CloseSearchDb ==
  /\ searchDb' = NoHandle /\ searchDbAge' = AgeWhenClosed
  /\ open' = StillOpen /\ unready' = {}

-----------------------------------------------------------------------------
(* The search of a client, from the first source on that is asked.         *)
Refused(c) ==
  /\ dbBreaker!RejectOpen(c) \/ dbBreaker!RejectSaturated(c)
  /\ Go(c, "degraded", NoHandle)
  /\ UNCHANGED connection

Admitted(c) ==
  /\ dbBreaker!AdmitClosed(c) \/ dbBreaker!AdmitProbe(c)
  /\ \/ Keeps /\ Go(c, "opened", searchDb)
     \/ \E h \in Handle : Opens(h) /\ Go(c, "opened", h)
     \/ /\ failureCount < MAX_FAILURES
        /\ CannotOpen \/ \E h \in Handle : OpensBadly(h)
        /\ Go(c, "throwing", NoHandle)

AskDatabase(c) ==
  /\ \/ backend = "pg" /\ Go(c, "pg", NoHandle) /\ UNCHANGED <<connection, breaker>>
     \/ backend = "sqlite" /\ (Refused(c) \/ Admitted(c))
  /\ UNCHANGED <<backend, esConnected>>

(* A search with words to search for; without any nothing is asked.        *)
Search(c) ==
  /\ Free /\ search[c].at \in {"idle"} \cup Answers
  /\ \/ /\ esConnected /\ Go(c, "es", NoHandle)
        /\ UNCHANGED <<backend, esConnected, connection, breaker>>
     \/ ~esConnected /\ AskDatabase(c)

\* searchPages: hits, or null for any error.
EsAnswers(c) ==
  /\ Free /\ At(c, "es")
  /\ \/ /\ Go(c, "elasticsearch", NoHandle)
        /\ UNCHANGED <<backend, esConnected, connection, breaker>>
     \/ AskDatabase(c)

PgAnswers(c) ==
  /\ Free /\ At(c, "pg")
  /\ Go(c, "postgresql", NoHandle) \/ Go(c, "error", NoHandle)
  /\ UNCHANGED <<backend, esConnected, connection, breaker>>

\* DatabaseError, in the turn of Admitted.
Throws(c) ==
  /\ At(c, "throwing")
  /\ dbBreaker!OnFailure(c)
  /\ Go(c, "degraded", NoHandle)
  /\ UNCHANGED <<backend, esConnected, connection>>

\* The handle comes back through two awaits: first the breaker sees it.
Returns(c) ==
  /\ Free /\ At(c, "opened")
  /\ dbBreaker!OnSuccess(c)
  /\ Go(c, "holding", search[c].db)
  /\ UNCHANGED <<backend, esConnected, connection>>

\* prepare().all() on it: a handle closed meanwhile throws, an open one may.
Queries(c) ==
  /\ Free /\ At(c, "holding")
  /\ \/ search[c].db \in open /\ Go(c, "sqlite", NoHandle)
     \/ Go(c, "error", NoHandle)
  /\ UNCHANGED <<backend, esConnected, connection, breaker>>

-----------------------------------------------------------------------------
(* /health/ready: checkDbHealth, whose SELECT 1 may fail, then the state   *)
(* of every breaker.                                                       *)
CheckDbHealth ==
  \/ backend = "pg" /\ UNCHANGED connection
  \/ /\ backend = "sqlite"
     /\ \/ Keeps
        \/ \E h \in Handle : Opens(h) \/ OpensBadly(h)
        \/ CannotOpen
        \/ CloseSearchDb

HealthReady ==
  /\ Free /\ CheckDbHealth
  /\ \/ dbBreaker!GetStatus
     \/ ~dbBreaker!Lapsed /\ UNCHANGED breaker
  /\ UNCHANGED <<backend, esConnected, search>>

Tick ==
  /\ Free
  /\ searchDbAge' = IF searchDbAge < Never THEN searchDbAge + 1 ELSE Never
  /\ \/ dbBreaker!Tick
     \/ failureAge = RESET_TIMEOUT /\ UNCHANGED breaker
  /\ UNCHANGED <<backend, esConnected, searchDb, open, unready, search>>

Monitor ==
  /\ Free /\ dbBreaker!CheckState
  /\ UNCHANGED <<backend, esConnected, connection, search>>

Step(c) == EsAnswers(c) \/ PgAnswers(c) \/ Throws(c) \/ Returns(c) \/ Queries(c)

Next ==
  \/ ConnectElasticsearch
  \/ \E c \in Request : Search(c) \/ Step(c)
  \/ HealthReady
  \/ Tick
  \/ Monitor

Spec == Init /\ [][Next]_vars

(* The clock runs, awaits end (both clients time out) and users search on. *)
FairSpec ==
  /\ Spec /\ WF_vars(Tick)
  /\ \A c \in Request : WF_vars(Step(c)) /\ WF_vars(Search(c))

-----------------------------------------------------------------------------
TypeOK ==
  /\ backend \in {"sqlite", "pg"} /\ esConnected \in BOOLEAN
  /\ searchDb \in Handle \cup {NoHandle}
  /\ searchDbAge \in 0..Never
  /\ open \subseteq Handle /\ unready \subseteq Handle
  /\ search \in [Request -> [at: Places, db: Handle \cup {NoHandle}]]
  /\ dbBreaker!TypeOK

(* However often the handle is closed by age or by a failing probe and     *)
(* opened again, well or badly, the server holds one connection: none      *)
(* stays open that searchDb has forgotten.                                 *)
OneConnection == open \subseteq {searchDb}

(* A search never works on a connection whose pragmas failed (it would     *)
(* not wait for the crawler's writes).  getSearchDb leaves such a one in   *)
(* searchDb, and only searchDbLastOpen, 0 since the last close, tells it   *)
(* from a good one.                                                        *)
OnlyConfigured ==
  \A c \in Request : At(c, "opened") \/ At(c, "holding") => search[c].db \notin unready

(* No connection is kept for good while searches reach SQLite, though the  *)
(* breaker turns many of them away.                                        *)
HandleIsRenewed == \A h \in Handle : searchDb = h ~> searchDb # h \/ esConnected
=============================================================================
