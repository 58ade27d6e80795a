---------------------------- MODULE SearchProofs ----------------------------
(***************************************************************************)
(* The connection of the search, for any number of clients and any options *)
(* of the breaker.  The argument: a connection whose pragmas failed is in  *)
(* searchDb only together with searchDbLastOpen = 0, which makes the next  *)
(* getSearchDb close it; what the breaker does is of no importance.        *)
(***************************************************************************)
EXTENDS Search, TLAPS

ConnectionOK ==
  /\ searchDb \in Handle \cup {NoHandle}
  /\ searchDbAge \in 0..Never
  /\ open \subseteq {searchDb} \ {NoHandle}
  /\ unready \subseteq {searchDb} \ {NoHandle}
  /\ searchDb = NoHandle \/ unready # {} => searchDbAge = Never

SearchOK ==
  /\ search \in [Request -> [at: Places, db: Handle \cup {NoHandle}]]
  /\ OnlyConfigured

Inv == ConnectionOK /\ SearchOK

(* At first there is no connection.                                        *)
LEMMA InitInv == Init => Inv
  BY SearchAssumption DEF Init, Inv, ConnectionOK, SearchOK, OnlyConfigured, At, Never, Places

(* getSearchDb returns a ready connection or none.                         *)
LEMMA KeepsReady == ASSUME Inv, Keeps PROVE searchDb \in Handle /\ unready = {}
  BY SearchAssumption DEF Inv, ConnectionOK, Keeps, Usable, Expired, Never

(* Whatever becomes of the connection, its part of the invariant stays.    *)
LEMMA ConnectionKept ==
  ASSUME Inv,
         \/ UNCHANGED connection
         \/ \E h \in Handle : Opens(h) \/ OpensBadly(h)
         \/ CannotOpen \/ CloseSearchDb
  PROVE  ConnectionOK'
<1> USE SearchAssumption DEF Inv, ConnectionOK, Never
<1>1. CASE UNCHANGED connection
  BY <1>1 DEF connection
<1>2. CASE CannotOpen \/ CloseSearchDb
  BY <1>2 DEF CannotOpen, CloseSearchDb, StillOpen, AgeUnopened, AgeWhenClosed, Usable
<1>3. ASSUME NEW h \in Handle, Opens(h) PROVE ConnectionOK'
  BY <1>3 DEF Opens, StillOpen
<1>4. ASSUME NEW h \in Handle, OpensBadly(h) PROVE ConnectionOK'
  BY <1>4 DEF OpensBadly, StillOpen, AgeUnopened, AgeWhenClosed, Usable
<1> QED
  BY <1>1, <1>2, <1>3, <1>4

(* A new connection is not one a search still holds.                       *)
LEMMA UnreadyIsUnheld ==
  ASSUME Inv,
         \/ UNCHANGED connection
         \/ \E h \in Handle : Opens(h) \/ OpensBadly(h)
         \/ CannotOpen \/ CloseSearchDb
  PROVE  \A c \in Request : search[c].db \in unready' => search[c].db \in unready
  BY DEF connection, Opens, OpensBadly, CannotOpen, CloseSearchDb, Unused

(* A search that goes on without a connection is of no concern.            *)
LEMMA GoesElsewhere ==
  ASSUME Inv, NEW c \in Request, NEW place \in Places \ {"opened", "holding"},
         Go(c, place, NoHandle),
         \A r \in Request : search[r].db \in unready' => search[r].db \in unready
  PROVE  SearchOK'
  BY DEF Inv, SearchOK, OnlyConfigured, At, Go

(* The search that is asked of the database, first or after Elasticsearch. *)
LEMMA AskDatabaseInv == ASSUME Inv, NEW c \in Request, AskDatabase(c) PROVE Inv'
<1>1. CASE Go(c, "pg", NoHandle) /\ UNCHANGED connection
  BY <1>1, ConnectionKept, UnreadyIsUnheld, GoesElsewhere DEF Inv, Places
<1>2. CASE Refused(c)
  BY <1>2, ConnectionKept, UnreadyIsUnheld, GoesElsewhere DEF Inv, Refused, Places, Answers
<1>3. CASE Admitted(c)
  <2>1. CASE Keeps /\ Go(c, "opened", searchDb)
    <3>1. UNCHANGED connection /\ searchDb \in Handle /\ unready = {} /\ unready' = {}
      BY <2>1, KeepsReady DEF Keeps, connection
    <3>2. ConnectionOK'
      BY <3>1, ConnectionKept
    <3>3. SearchOK'
      BY <2>1, <3>1 DEF Inv, SearchOK, OnlyConfigured, At, Go, Places
    <3> QED
      BY <3>2, <3>3 DEF Inv
  <2>2. ASSUME NEW h \in Handle, Opens(h), Go(c, "opened", h) PROVE Inv'
    <3>1. ConnectionOK'
      BY <2>2, ConnectionKept
    <3>2. unready' = {}
      BY <2>2 DEF Opens
    <3>3. SearchOK'
      BY <2>2, <3>2 DEF Inv, SearchOK, OnlyConfigured, At, Go, Places
    <3> QED
      BY <3>1, <3>3 DEF Inv
  <2>3. CASE (CannotOpen \/ \E h \in Handle : OpensBadly(h)) /\ Go(c, "throwing", NoHandle)
    BY <2>3, ConnectionKept, UnreadyIsUnheld, GoesElsewhere DEF Inv, Places
  <2> QED
    BY <1>3, <2>1, <2>2, <2>3 DEF Admitted
<1> QED
  BY <1>1, <1>2, <1>3 DEF AskDatabase

(* Every step keeps the invariant.                                         *)
LEMMA StepInv == Inv /\ [Next]_vars => Inv'
<1> SUFFICES ASSUME Inv, [Next]_vars PROVE Inv'
  OBVIOUS
<1>1. ASSUME UNCHANGED <<connection, search>> PROVE Inv'
  BY <1>1 DEF connection, Inv, ConnectionOK, SearchOK, OnlyConfigured, At
<1>2. ASSUME NEW c \in Request, NEW place \in Places \ {"opened", "holding"},
             Go(c, place, NoHandle), UNCHANGED connection
      PROVE  Inv'
  BY <1>2, ConnectionKept, UnreadyIsUnheld, GoesElsewhere DEF Inv
<1>3. CASE UNCHANGED vars \/ ConnectElasticsearch \/ Monitor
  BY <1>1, <1>3 DEF vars, ConnectElasticsearch, Monitor
<1>4. ASSUME NEW c \in Request, Search(c) \/ EsAnswers(c) PROVE Inv'
  BY <1>2, <1>4, AskDatabaseInv DEF Search, EsAnswers, Places, Answers
<1>5. ASSUME NEW c \in Request, PgAnswers(c) \/ Throws(c) \/ Queries(c) PROVE Inv'
  BY <1>2, <1>5 DEF PgAnswers, Throws, Queries, Places, Answers
<1>6. ASSUME NEW c \in Request, Returns(c) PROVE Inv'
  <2>1. At(c, "opened") /\ Go(c, "holding", search[c].db) /\ UNCHANGED connection
    BY <1>6 DEF Returns
  <2>2. ConnectionOK'
    BY <2>1, ConnectionKept
  <2>3. SearchOK'
    BY <2>1 DEF connection, Inv, SearchOK, OnlyConfigured, At, Go, Places
  <2> QED
    BY <2>2, <2>3 DEF Inv
<1>7. CASE HealthReady
  <2>1. UNCHANGED search /\ ( \/ UNCHANGED connection
                              \/ \E h \in Handle : Opens(h) \/ OpensBadly(h)
                              \/ CannotOpen \/ CloseSearchDb)
    BY <1>7 DEF HealthReady, CheckDbHealth, Keeps
  <2>2. ConnectionOK' /\ \A c \in Request : search[c].db \in unready' => search[c].db \in unready
    BY <2>1, ConnectionKept, UnreadyIsUnheld
  <2>3. SearchOK'
    BY <2>1, <2>2 DEF Inv, SearchOK, OnlyConfigured, At
  <2> QED
    BY <2>2, <2>3 DEF Inv
<1>8. CASE Tick
  BY <1>8, SearchAssumption DEF Tick, Inv, ConnectionOK, SearchOK, OnlyConfigured, At, Never
<1> QED
  BY <1>3, <1>4, <1>5, <1>6, <1>7, <1>8 DEF Next, Step

(* The strengthened invariant of the connection.                           *)
THEOREM Invariant == Spec => []Inv
  BY InitInv, StepInv, PTL DEF Spec

(* No connection stays open that searchDb has forgotten.                   *)
THEOREM ConnectionsDoNotLeak == Spec => []OneConnection
<1>1. Inv => OneConnection
  BY DEF Inv, ConnectionOK, OneConnection
<1> QED
  BY <1>1, Invariant, PTL

(* No search works on a connection without its pragmas.                    *)
THEOREM SearchesAreConfigured == Spec => []OnlyConfigured
<1>1. Inv => OnlyConfigured
  BY DEF Inv, SearchOK
<1> QED
  BY <1>1, Invariant, PTL

-----------------------------------------------------------------------------
(* The breaker of the search does what any circuit breaker does: each step *)
(* of the server is a step of CircuitBreaker or leaves the breaker alone,  *)
(* so what CircuitBreakerProofs proves holds of it.                        *)
Breaker == INSTANCE CircuitBreakerProofs WITH Call <- Request

LEMMA BreakerAssumed == Breaker!BreakerAssumption
<1>1. Breaker!IsFiniteSet(Request)
  BY SearchAssumption DEF Breaker!IsFiniteSet, IsFiniteSet
<1> QED
  BY <1>1, SearchAssumption DEF Breaker!BreakerAssumption

LEMMA UntouchedBreaker == ASSUME UNCHANGED breaker PROVE UNCHANGED Breaker!vars
  BY DEF breaker, Breaker!vars, Breaker!breaker, Breaker!counters

(* The actions that the server takes its breaker's steps from.             *)
LEMMA SameCalls ==
  ASSUME NEW c \in Request
  PROVE  /\ dbBreaker!RejectOpen(c) => Breaker!RejectOpen(c)
         /\ dbBreaker!RejectSaturated(c) => Breaker!RejectSaturated(c)
         /\ dbBreaker!AdmitClosed(c) => Breaker!AdmitClosed(c)
         /\ dbBreaker!AdmitProbe(c) => Breaker!AdmitProbe(c)
         /\ dbBreaker!OnSuccess(c) => Breaker!OnSuccess(c)
         /\ dbBreaker!OnFailure(c) => Breaker!OnFailure(c)
<1> USE DEF dbBreaker!breaker, dbBreaker!counters, Breaker!breaker, Breaker!counters
<1>1. dbBreaker!RejectOpen(c) => Breaker!RejectOpen(c)
  BY DEF dbBreaker!RejectOpen, Breaker!RejectOpen, dbBreaker!Lapsed, Breaker!Lapsed
<1>2. dbBreaker!RejectSaturated(c) => Breaker!RejectSaturated(c)
  BY DEF dbBreaker!RejectSaturated, Breaker!RejectSaturated, dbBreaker!BudgetLeft,
         Breaker!BudgetLeft
<1>3. dbBreaker!AdmitClosed(c) => Breaker!AdmitClosed(c)
  BY DEF dbBreaker!AdmitClosed, Breaker!AdmitClosed
<1>4. dbBreaker!AdmitProbe(c) => Breaker!AdmitProbe(c)
  BY DEF dbBreaker!AdmitProbe, Breaker!AdmitProbe, dbBreaker!Lapsed, Breaker!Lapsed,
         dbBreaker!ToHalfOpen, Breaker!ToHalfOpen, dbBreaker!BudgetLeft, Breaker!BudgetLeft
<1>5. dbBreaker!OnSuccess(c) => Breaker!OnSuccess(c)
  BY DEF dbBreaker!OnSuccess, Breaker!OnSuccess, dbBreaker!LastProbeNeeded,
         Breaker!LastProbeNeeded, dbBreaker!ToClosed, Breaker!ToClosed,
         dbBreaker!Decremented, Breaker!Decremented
<1>6. dbBreaker!OnFailure(c) => Breaker!OnFailure(c)
  BY DEF dbBreaker!OnFailure, Breaker!OnFailure, dbBreaker!Trips, Breaker!Trips
<1> QED
  BY <1>1, <1>2, <1>3, <1>4, <1>5, <1>6

LEMMA SameMonitor ==
  /\ dbBreaker!CheckState \/ dbBreaker!GetStatus => Breaker!CheckState
  /\ dbBreaker!Tick => Breaker!Tick
<1> USE DEF dbBreaker!breaker, dbBreaker!counters, Breaker!breaker, Breaker!counters
<1>1. dbBreaker!CheckState \/ dbBreaker!GetStatus => Breaker!CheckState
  BY DEF dbBreaker!CheckState, dbBreaker!GetStatus, dbBreaker!ReadCurrentState,
         dbBreaker!Lapsed, dbBreaker!ToHalfOpen, Breaker!CheckState,
         Breaker!ReadCurrentState, Breaker!Lapsed, Breaker!ToHalfOpen
<1>2. dbBreaker!Tick => Breaker!Tick
  BY DEF dbBreaker!Tick, Breaker!Tick
<1> QED
  BY <1>1, <1>2

LEMMA StepOfBreaker == [Next]_vars => [Breaker!Next]_(Breaker!vars)
<1> SUFFICES ASSUME [Next]_vars PROVE Breaker!Next \/ UNCHANGED Breaker!vars
  OBVIOUS
<1>1. ASSUME NEW c \in Request, AskDatabase(c)
      PROVE  Breaker!Next \/ UNCHANGED Breaker!vars
  BY <1>1, SameCalls, UntouchedBreaker DEF AskDatabase, Refused, Admitted, Breaker!Next
<1>2. ASSUME NEW c \in Request, Search(c) \/ EsAnswers(c)
      PROVE  Breaker!Next \/ UNCHANGED Breaker!vars
  BY <1>1, <1>2, UntouchedBreaker DEF Search, EsAnswers
<1>3. ASSUME NEW c \in Request, PgAnswers(c) \/ Queries(c)
      PROVE  UNCHANGED Breaker!vars
  BY <1>3, UntouchedBreaker DEF PgAnswers, Queries
<1>4. ASSUME NEW c \in Request, Throws(c) \/ Returns(c)
      PROVE  Breaker!Next
  BY <1>4, SameCalls DEF Throws, Returns, Breaker!Next
<1>5. CASE HealthReady \/ Monitor
  BY <1>5, SameMonitor, UntouchedBreaker DEF HealthReady, Monitor, Breaker!Next
<1>6. CASE Tick
  BY <1>6, SameMonitor, UntouchedBreaker DEF Tick, Breaker!Next
<1>7. CASE ConnectElasticsearch \/ UNCHANGED vars
  BY <1>7, UntouchedBreaker DEF ConnectElasticsearch, vars
<1> QED
  BY <1>2, <1>3, <1>4, <1>5, <1>6, <1>7 DEF Next, Step

(* Whatever the search services, the probes of its health and its clients  *)
(* do, the "database" breaker of the server (server.ts) behaves as         *)
(* CircuitBreaker says.                                                    *)
THEOREM BreakerIsABreaker == Spec => Breaker!Spec
<1>1. Init => Breaker!Init
  BY DEF Init, dbBreaker!Init, Breaker!Init
<1> QED
  BY <1>1, StepOfBreaker, PTL DEF Spec, Breaker!Spec

(* It implements the contract of BreakerContract, under every load.        *)
THEOREM SearchKeepsBreakerContract == Spec => Breaker!ImplementsContract
  BY BreakerIsABreaker, BreakerAssumed, Breaker!BreakerImplementsContract, PTL

(* What the breaker counts as a call in flight is a search between the     *)
(* moment it asked for the connection and the one it has heard of it.      *)
Calling(c) == At(c, "opened") \/ At(c, "throwing")
CallsAreSearches == \A c \in Request : call[c] = "running" => Calling(c)

LEMMA StepKeepsCalls ==
  ASSUME CallsAreSearches, [Next]_vars, Breaker!TypeOK,
         search \in [Request -> [at: Places, db: Handle \cup {NoHandle}]]
  PROVE  CallsAreSearches'
<1> USE DEF At, Calling
<1>1. call \in [Request -> Breaker!CallStates]
  BY DEF Breaker!TypeOK
<1>2. ASSUME UNCHANGED <<call, search>>
      PROVE  CallsAreSearches'
  BY <1>2 DEF CallsAreSearches
<1>3. ASSUME NEW c \in Request, NEW place, NEW db, Go(c, place, db),
             \A r \in Request \ {c} : call'[r] = call[r],
             call'[c] = "running" => place \in {"opened", "throwing"}
      PROVE  CallsAreSearches'
  <2>1. search'[c].at = place /\ \A r \in Request \ {c} : search'[r] = search[r]
    BY <1>3 DEF Go
  <2> QED
    BY <1>3, <2>1 DEF CallsAreSearches
<1>4. ASSUME NEW c \in Request, call[c] # "running",
             dbBreaker!RejectOpen(c) \/ dbBreaker!RejectSaturated(c)
      PROVE  /\ \A r \in Request \ {c} : call'[r] = call[r]
             /\ call'[c] # "running"
  BY <1>1, <1>4 DEF dbBreaker!RejectOpen, dbBreaker!RejectSaturated
<1>5. ASSUME NEW c \in Request, dbBreaker!AdmitClosed(c) \/ dbBreaker!AdmitProbe(c)
      PROVE  \A r \in Request \ {c} : call'[r] = call[r]
  BY <1>1, <1>5 DEF dbBreaker!AdmitClosed, dbBreaker!AdmitProbe
<1>6. ASSUME NEW c \in Request, dbBreaker!OnSuccess(c) \/ dbBreaker!OnFailure(c)
      PROVE  /\ \A r \in Request \ {c} : call'[r] = call[r]
             /\ call'[c] # "running"
  BY <1>1, <1>6 DEF dbBreaker!OnSuccess, dbBreaker!OnFailure
<1>7. ASSUME NEW c \in Request, AskDatabase(c), call[c] # "running"
      PROVE  CallsAreSearches'
  <2>1. CASE Go(c, "pg", NoHandle) /\ UNCHANGED breaker
    BY <1>3, <1>7, <2>1 DEF breaker
  <2>2. CASE Refused(c)
    BY <1>3, <1>4, <1>7, <2>2 DEF Refused
  <2>3. CASE Admitted(c)
    BY <1>3, <1>5, <2>3 DEF Admitted
  <2> QED
    BY <1>7, <2>1, <2>2, <2>3 DEF AskDatabase
<1>8. ASSUME NEW c \in Request, Search(c) \/ EsAnswers(c)
      PROVE  CallsAreSearches'
  <2>1. call[c] # "running"
    BY <1>8 DEF Search, EsAnswers, CallsAreSearches, Answers
  <2>2. CASE AskDatabase(c)
    BY <1>7, <2>1, <2>2
  <2>3. ASSUME NEW place, Go(c, place, NoHandle), UNCHANGED breaker
        PROVE  CallsAreSearches'
    BY <1>3, <2>1, <2>3 DEF breaker
  <2> QED
    BY <1>8, <2>2, <2>3 DEF Search, EsAnswers
<1>9. ASSUME NEW c \in Request, PgAnswers(c) \/ Queries(c)
      PROVE  CallsAreSearches'
  <2>1. call[c] # "running" /\ UNCHANGED breaker
    BY <1>9 DEF PgAnswers, Queries, CallsAreSearches
  <2> QED
    BY <1>3, <1>9, <2>1 DEF PgAnswers, Queries, breaker
<1>10. ASSUME NEW c \in Request, Throws(c) \/ Returns(c)
       PROVE  CallsAreSearches'
  BY <1>3, <1>6, <1>10 DEF Throws, Returns
<1>11. CASE HealthReady \/ Monitor \/ Tick \/ ConnectElasticsearch \/ UNCHANGED vars
  <2>1. UNCHANGED search
    BY <1>11 DEF HealthReady, Monitor, Tick, ConnectElasticsearch, vars
  <2>2. UNCHANGED call
    BY <1>11
       DEF HealthReady, Monitor, Tick, ConnectElasticsearch, vars, breaker, dbBreaker!Tick,
           dbBreaker!CheckState, dbBreaker!GetStatus, dbBreaker!ReadCurrentState
  <2> QED
    BY <1>2, <2>1, <2>2
<1> QED
  BY <1>8, <1>9, <1>10, <1>11 DEF Next, Step

LEMMA BreakerInvariant == Spec => []Breaker!Inv
  BY BreakerIsABreaker, BreakerAssumed, Breaker!Invariant, PTL

LEMMA CallsInvariant == Spec => []CallsAreSearches
<1>1. Init => CallsAreSearches
  BY DEF Init, CallsAreSearches, dbBreaker!Init
<1>2. Inv /\ Breaker!Inv /\ CallsAreSearches /\ [Next]_vars => CallsAreSearches'
  BY StepKeepsCalls DEF Inv, SearchOK, Breaker!Inv
<1> QED
  BY <1>1, <1>2, Invariant, BreakerInvariant, PTL DEF Spec

Settings == backend \in {"sqlite", "pg"} /\ esConnected \in BOOLEAN

(* Every variable of the search keeps its type.                            *)
THEOREM TypeCorrect == Spec => []TypeOK
<1>1. Spec => []Settings
  <2>1. Init => Settings
    BY DEF Init, Settings
  <2>2. Settings /\ [Next]_vars => Settings'
    BY DEF Settings, Next, vars, ConnectElasticsearch, Search, Step, EsAnswers, PgAnswers,
           Throws, Returns, Queries, HealthReady, Tick, Monitor, AskDatabase
  <2> QED
    BY <2>1, <2>2, PTL DEF Spec
<1>2. Breaker!TypeOK => dbBreaker!TypeOK
  BY DEF Breaker!TypeOK, dbBreaker!TypeOK, Breaker!States, dbBreaker!States,
         Breaker!CallStates, dbBreaker!CallStates
<1>3. Inv /\ Breaker!Inv /\ Settings => TypeOK
  BY <1>2 DEF Inv, ConnectionOK, SearchOK, Breaker!Inv, Settings, TypeOK
<1> QED
  BY <1>1, <1>3, Invariant, BreakerInvariant, PTL

(* A half-open breaker that has spent its budget turns searches away, but  *)
(* only while one it let through is still going on: whether that one then  *)
(* throws or returns, it settles the breaker (server.ts:328).              *)
THEOREM SpentBudgetAwaitsASearch ==
  Spec => [](state = "HALF_OPEN" /\ halfOpenAttempts = HALF_OPEN_MAX
               => \E c \in Request : Calling(c))
<1>1. Breaker!Inv /\ Breaker!SpentBudgetHasProbe /\ CallsAreSearches
        => (state = "HALF_OPEN" /\ halfOpenAttempts = HALF_OPEN_MAX
              => \E c \in Request : Calling(c))
  BY DEF Breaker!Inv, Breaker!SpentBudgetHasProbe, Breaker!ProbesAreRunning,
         Breaker!Running, CallsAreSearches
<1>2. Spec => []Breaker!SpentBudgetHasProbe
  BY BreakerIsABreaker, BreakerAssumed, Breaker!HalfOpenIsNeverStranded, PTL
<1> QED
  BY <1>1, <1>2, BreakerInvariant, CallsInvariant, PTL
=============================================================================
