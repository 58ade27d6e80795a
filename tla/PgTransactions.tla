--------------------------- MODULE PgTransactions ---------------------------
(***************************************************************************)
(* The transactions of src/src/db-pg.ts, row by row: saveNode and          *)
(* insertManyFrontier between BEGIN and COMMIT, and the pair markVisited,  *)
(* deleteFromFrontier of a fetch that failed, each committed by itself.    *)
(*                                                                         *)
(* External: PostgreSQL at READ COMMITTED and the pool of pg.  A statement *)
(* sees what is committed and what its own transaction did; an INSERT ...  *)
(* ON CONFLICT waits for a transaction that has inserted or deleted the    *)
(* row, a DELETE for one that has deleted it, and finds nothing when that  *)
(* one commits; of transactions that wait for each other one is aborted.   *)
(***************************************************************************)
EXTENDS Naturals, Sequences, FiniteSets, Functions

CONSTANTS
  Url,
  Handler,   \* fetch handlers that write at the same time (bound)
  Pages,     \* <<url, origUrl>> of the pages that may be saved
  Batches,   \* the links a page may have, in their order
  POOL_MAX   \* max of the pool, 20 in the code

ASSUME TransactionsAssumption ==
  /\ IsFiniteSet(Handler)
  /\ Pages \subseteq {page \in Seq(Url) : Len(page) = 2}
  /\ Batches \subseteq Seq(Url) \ {<<>>}
  /\ POOL_MAX \in Nat \ {0}

VARIABLES
  rows,      \* urls of the committed rows, by table
  job,       \* what each handler is writing
  at,        \* its next statement
  stage,     \* how far it is
  changed,   \* statements whose effect is not committed: they lock their rows
  busy,      \* connections taken from the pool
  seen,      \* history: urls in the frontier at some time of the job
  missed     \* history: urls out of the frontier at some time of the job

history == <<seen, missed>>
vars == <<rows, job, at, stage, changed, busy, history>>

Table == {"nodes", "visited", "frontier"}
Statement == [op : {"upsert", "insert", "delete"}, table : Table, url : Url]
JobRecord == [kind : {"none", "save", "links", "giveUp"}, urls : Seq(Url)]
NoJob == [kind |-> "none", urls |-> <<>>]
Working == {"connecting", "running", "waiting", "committing", "aborted"}
Ended == {"idle", "done"}

Do(op, table, url) == [op |-> op, table |-> table, url |-> url]

(* The statements of a job, in the order of the code.                      *)
Save(url, orig) ==
  <<Do("upsert", "nodes", url),
    Do("insert", "visited", url), Do("delete", "frontier", url)>>
  \o IF orig = url THEN <<>>
     ELSE <<Do("insert", "visited", orig), Do("delete", "frontier", orig)>>

Statements(j) ==
  CASE j.kind = "save"   -> Save(j.urls[1], j.urls[2])
    [] j.kind = "links"  -> [i \in DOMAIN j.urls |-> Do("insert", "frontier", j.urls[i])]
    [] j.kind = "giveUp" -> <<Do("insert", "visited", j.urls[1]),
                              Do("delete", "frontier", j.urls[1])>>
    [] j.kind = "none"   -> <<>>

Current(h) == Statements(job[h])[at[h]]

Init ==
  /\ rows = [t \in Table |-> {}]
  /\ job = [h \in Handler |-> NoJob] /\ at = [h \in Handler |-> 1]
  /\ stage = [h \in Handler |-> "idle"] /\ changed = [h \in Handler |-> {}]
  /\ busy = 0
  /\ seen = [h \in Handler |-> {}] /\ missed = [h \in Handler |-> {}]

-----------------------------------------------------------------------------
(* The pool.                                                               *)
To(h, place) == stage' = [stage EXCEPT ![h] = place]

Begin(h, kind, urls) ==
  /\ stage[h] \in Ended /\ To(h, "connecting")
  /\ job' = [job EXCEPT ![h] = [kind |-> kind, urls |-> urls]]
  /\ at' = [at EXCEPT ![h] = 1]
  /\ seen' = [seen EXCEPT ![h] = rows["frontier"]]
  /\ missed' = [missed EXCEPT ![h] = Url \ rows["frontier"]]
  /\ UNCHANGED <<rows, changed, busy>>

Connect(h) ==
  /\ stage[h] = "connecting" /\ busy < POOL_MAX
  /\ busy' = busy + 1 /\ To(h, "running")
  /\ UNCHANGED <<rows, job, at, changed, history>>

Rejected(h) ==
  /\ To(h, "idle") /\ job' = [job EXCEPT ![h] = NoJob]
  /\ at' = [at EXCEPT ![h] = 1]
  /\ seen' = [seen EXCEPT ![h] = {}] /\ missed' = [missed EXCEPT ![h] = {}]

(* connectionTimeoutMillis: no connection was returned or made in time, so *)
(* p.connect() rejects, before the try.                                    *)
ConnectTimesOut(h) ==
  /\ stage[h] = "connecting" /\ Rejected(h)
  /\ UNCHANGED <<rows, changed, busy>>

-----------------------------------------------------------------------------
(* The statements.                                                         *)
Holders(h) ==
  {k \in Handler \ {h} :
     \E c \in changed[k] : c.table = Current(h).table /\ c.url = Current(h).url}

InTable(s) == s.url \in rows[s.table]

Blocked(h) ==
  Holders(h) # {} /\ (Current(h).op = "delete" => InTable(Current(h)))

TakesEffect(s) ==
  CASE s.op = "upsert" -> TRUE
    [] s.op = "insert" -> ~InTable(s)
    [] s.op = "delete" -> InTable(s)

(* All statements of a transaction are committed together.                 *)
CommitsAfter_eachLink(h) ==
  job[h].kind # "save" \/ at[h] = Len(Statements(job[h]))

CommitsAfter(h) ==
  job[h].kind = "giveUp" \/ at[h] = Len(Statements(job[h]))

Execute(h) ==
  LET s == Current(h) IN
  /\ stage[h] \in {"running", "waiting"} /\ ~Blocked(h)
  /\ changed' = [changed EXCEPT ![h] = IF TakesEffect(s) THEN @ \cup {s} ELSE @]
  /\ at' = [at EXCEPT ![h] = @ + 1]
  /\ To(h, IF CommitsAfter(h) THEN "committing" ELSE "running")
  /\ UNCHANGED <<rows, job, busy, history>>

Wait(h) ==
  /\ stage[h] = "running" /\ Blocked(h) /\ To(h, "waiting")
  /\ UNCHANGED <<rows, job, at, changed, busy, history>>

(* What h has changed is there for all to see.                             *)
Urls(h, op, table) == {c.url : c \in {x \in changed[h] : x.op = op /\ x.table = table}}

Applied(h) ==
  rows' = [t \in Table |->
    (rows[t] \cup Urls(h, "insert", t) \cup Urls(h, "upsert", t)) \ Urls(h, "delete", t)]

(* A DELETE that waits for a row that h has deleted finds nothing.         *)
FindsNothing(k, h) ==
  stage[k] = "waiting" /\ Current(k).op = "delete" /\ Current(k) \in changed[h]

Passed(h) ==
  at' = [k \in Handler |-> IF FindsNothing(k, h) THEN at[k] + 1 ELSE at[k]]

StageAfter(k, h, mine) ==
  CASE k = h -> mine
    [] k # h /\ FindsNothing(k, h) -> IF CommitsAfter(k) THEN "committing" ELSE "running"
    [] OTHER -> stage[k]

Seen ==
  /\ seen' = [k \in Handler |->
       IF stage[k] \in Working THEN seen[k] \cup rows'["frontier"] ELSE seen[k]]
  /\ missed' = [k \in Handler |->
       IF stage[k] \in Working THEN missed[k] \cup (Url \ rows'["frontier"])
       ELSE missed[k]]

Commit(h) ==
  /\ stage[h] = "committing"
  /\ Applied(h) /\ Passed(h) /\ Seen
  /\ stage' = [k \in Handler |->
       StageAfter(k, h, IF at[h] > Len(Statements(job[h])) THEN "done" ELSE "connecting")]
  /\ changed' = [changed EXCEPT ![h] = {}]
  /\ busy' = busy - 1
  /\ UNCHANGED job

-----------------------------------------------------------------------------
(* Errors.                                                                 *)

(* The catch: ROLLBACK, and the error goes on.                             *)
AfterError_swallowed(h) == "committing"

AfterError(h) == "aborted"

Abort(h) ==
  /\ changed' = [changed EXCEPT ![h] = {}]
  /\ To(h, AfterError(h))

(* The server aborts one of a ring of waiting transactions.                *)
InRing(h) ==
  \E ring \in SUBSET {k \in Handler : stage[k] = "waiting" /\ Blocked(k)} :
    /\ h \in ring
    /\ \A k \in ring : Holders(k) \cap ring # {} /\ \E l \in ring : k \in Holders(l)

Deadlock(h) ==
  InRing(h) /\ Abort(h) /\ UNCHANGED <<rows, job, at, busy, history>>

(* The connection is lost, or a statement rejected.                        *)
Fault(h) ==
  /\ stage[h] \in {"running", "waiting", "committing"}
  /\ Abort(h) /\ UNCHANGED <<rows, job, at, busy, history>>

(* It is lost after the server has committed.                              *)
CommitUnanswered(h) ==
  /\ stage[h] = "committing"
  /\ Applied(h) /\ Passed(h) /\ Seen
  /\ stage' = [k \in Handler |-> StageAfter(k, h, AfterError(h))]
  /\ changed' = [changed EXCEPT ![h] = {}]
  /\ UNCHANGED <<job, busy>>

(* ROLLBACK is answered or not, and finally releases the connection.       *)
Released_onSuccess == busy

Released == busy - 1

Rollback(h) ==
  /\ stage[h] = "aborted" /\ Rejected(h)
  /\ busy' = Released
  /\ UNCHANGED <<rows, changed>>

(* The process ends; the server aborts what it left.                       *)
Crash ==
  /\ job' = [h \in Handler |-> NoJob] /\ at' = [h \in Handler |-> 1]
  /\ stage' = [h \in Handler |-> "idle"] /\ changed' = [h \in Handler |-> {}]
  /\ busy' = 0
  /\ seen' = [h \in Handler |-> {}] /\ missed' = [h \in Handler |-> {}]
  /\ UNCHANGED rows

Step(h) ==
  \/ Connect(h) \/ ConnectTimesOut(h) \/ Execute(h) \/ Wait(h) \/ Commit(h)
  \/ Deadlock(h) \/ Rollback(h)

Begins(h) ==
  \/ \E page \in Pages : Begin(h, "save", page)
  \/ \E links \in Batches : Begin(h, "links", links)
  \/ \E url \in Url : Begin(h, "giveUp", <<url>>)

Next ==
  \/ \E h \in Handler : Step(h) \/ Begins(h) \/ Fault(h) \/ CommitUnanswered(h)
  \/ Crash

Spec == Init /\ [][Next]_vars

(* The database answers, its detector runs, and so does the pool's timer.  *)
FairSpec == Spec /\ \A h \in Handler : WF_vars(Step(h))

-----------------------------------------------------------------------------
TypeOK ==
  /\ rows \in [Table -> SUBSET Url]
  /\ job \in [Handler -> JobRecord]
  /\ at \in [Handler -> Nat \ {0}]
  /\ stage \in [Handler -> Working \cup Ended]
  /\ changed \in [Handler -> SUBSET Statement]
  /\ busy \in 0..POOL_MAX
  /\ {seen, missed} \subseteq [Handler -> SUBSET Url]

(* Each saveNode, insertManyFrontier, markVisited and deleteFromFrontier   *)
(* takes effect entirely or not at all, whatever overlaps and fails, and a *)
(* row leaves the frontier only for a visited url (db-pg.ts:285-327).      *)
Contract == INSTANCE StoreContract WITH
  frontier <- rows["frontier"], visited <- rows["visited"], nodes <- rows["nodes"],
  call <- job
Implements == Contract!Spec

(* What has returned without an error is in the tables: the page and its   *)
(* urls, or each link, unless it was there and has been taken again; and   *)
(* what was to leave the frontier has left it, if only to be added again.  *)
(* A deadlock or a lost connection is never taken for success (304, 322).  *)
Promised(h) ==
  CASE job[h].kind = "save"   -> /\ job[h].urls[1] \in rows["nodes"]
                                 /\ Range(job[h].urls) \subseteq
                                      rows["visited"] \cap missed[h]
    [] job[h].kind = "links"  -> Range(job[h].urls) \subseteq seen[h]
    [] job[h].kind = "giveUp" ->
         Range(job[h].urls) \subseteq rows["visited"] \cap missed[h]
    [] job[h].kind = "none"   -> TRUE
DoneIsDone == \A h \in Handler : stage[h] = "done" => Promised(h)

(* The pool is never used up for good: transactions that wait for each     *)
(* other end, and so do their connections' loans (finally, 307, 325).      *)
PoolRecovers == busy = POOL_MAX ~> busy < POOL_MAX
=============================================================================
