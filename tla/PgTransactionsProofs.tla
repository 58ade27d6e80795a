------------------------- MODULE PgTransactionsProofs -------------------------
(***************************************************************************)
(* Proofs about PgTransactions, for any number of handlers, pages, links   *)
(* and connections.                                                        *)
(***************************************************************************)
EXTENDS PgTransactions, FiniteSetTheorems, TLAPS

Script(h) == Statements(job[h])

\* How many urls a job of each kind has.
Shape(j) ==
  /\ j.kind = "save" => Len(j.urls) = 2
  /\ j.kind = "giveUp" => Len(j.urls) = 1
  /\ j.kind = "links" => Len(j.urls) > 0

(***************************************************************************)
(* The statements of a job: saveNode, insertManyFrontier and the pair of   *)
(* a failed fetch.                                                         *)
(***************************************************************************)

\* Every script is of statements, deletes only from the frontier, upserts only
\* pages, and does not both insert into the frontier and delete from it.
WellFormed(s) ==
  /\ s \in Seq(Statement)
  /\ \A i \in 1..Len(s) :
       /\ s[i].op = "delete" => s[i].table = "frontier"
       /\ s[i].op = "upsert" <=> s[i].table = "nodes"
       /\ \A l \in 1..Len(s) :
            s[i].table = "frontier" /\ s[l].table = "frontier" => s[i].op = s[l].op

LEMMA LinksScript ==
  ASSUME NEW j \in JobRecord, j.kind = "links"
  PROVE  /\ WellFormed(Statements(j)) /\ Len(Statements(j)) = Len(j.urls)
         /\ \A i \in 1..Len(j.urls) :
              Statements(j)[i] = Do("insert", "frontier", j.urls[i])
<1>1. j.urls \in Seq(Url) /\ DOMAIN j.urls = 1..Len(j.urls) /\ Len(j.urls) \in Nat
      /\ \A i \in 1..Len(j.urls) : j.urls[i] \in Url
  BY DEF JobRecord
<1>2. Statements(j) = [i \in 1..Len(j.urls) |-> Do("insert", "frontier", j.urls[i])]
  BY <1>1 DEF Statements
<1>3. \A i \in 1..Len(j.urls) : Do("insert", "frontier", j.urls[i]) \in Statement
  BY <1>1 DEF Do, Statement, Table
<1>4. Statements(j) \in Seq(Statement) /\ Len(Statements(j)) = Len(j.urls)
  BY <1>1, <1>2, <1>3
<1> QED
  BY <1>2, <1>4 DEF WellFormed, Do

LEMMA GiveUpScript ==
  ASSUME NEW j \in JobRecord, j.kind = "giveUp", Len(j.urls) = 1
  PROVE  /\ WellFormed(Statements(j)) /\ Len(Statements(j)) = 2
         /\ j.urls[1] \in Url
         /\ Statements(j)[1] = Do("insert", "visited", j.urls[1])
         /\ Statements(j)[2] = Do("delete", "frontier", j.urls[1])
<1>1. j.urls[1] \in Url
  BY DEF JobRecord
<1>2. Statements(j) = <<Do("insert", "visited", j.urls[1]),
                        Do("delete", "frontier", j.urls[1])>>
  BY DEF Statements
<1>3. Do("insert", "visited", j.urls[1]) \in Statement
      /\ Do("delete", "frontier", j.urls[1]) \in Statement
  BY <1>1 DEF Do, Statement, Table
<1>4. Statements(j) \in Seq(Statement) /\ Len(Statements(j)) = 2
  BY <1>2, <1>3
<1> QED
  BY <1>1, <1>2, <1>4 DEF WellFormed, Do

LEMMA ThreeAndTwo ==
  ASSUME NEW S, NEW a \in S, NEW b \in S, NEW c \in S, NEW d \in S, NEW e \in S
  PROVE  <<a, b, c>> \o <<d, e>> = <<a, b, c, d, e>>
<1>1. <<a, b, c>> \in Seq(S) /\ <<d, e>> \in Seq(S) /\ <<a, b, c, d, e>> \in Seq(S)
  OBVIOUS
<1> DEFINE s == <<a, b, c>> \o <<d, e>>
           t == <<a, b, c, d, e>>
<1>2. s \in Seq(S) /\ Len(s) = 5
  BY <1>1
<1>3. s[1] = a /\ s[2] = b /\ s[3] = c /\ s[4] = d /\ s[5] = e
  BY <1>1
<1>4. \A i \in 1..5 : s[i] = t[i]
  BY <1>3
<1>5. DOMAIN s = 1..5 /\ DOMAIN t = 1..5
  BY <1>2
<1>6. s = [i \in 1..5 |-> s[i]] /\ t = [i \in 1..5 |-> t[i]]
  BY <1>1, <1>2, <1>5
<1> QED
  BY <1>4, <1>6

LEMMA SaveScript ==
  ASSUME NEW j \in JobRecord, j.kind = "save", Len(j.urls) = 2
  PROVE  LET s == Statements(j)  url == j.urls[1]  orig == j.urls[2] IN
         /\ WellFormed(s) /\ url \in Url /\ orig \in Url
         /\ Len(s) >= 3 /\ (orig # url => Len(s) = 5)
         /\ s[1] = Do("upsert", "nodes", url) /\ s[2] = Do("insert", "visited", url)
         /\ s[3] = Do("delete", "frontier", url)
         /\ orig # url => /\ s[4] = Do("insert", "visited", orig)
                         /\ s[5] = Do("delete", "frontier", orig)
         /\ \A i \in 1..Len(s) : /\ s[i].url \in {url, orig}
                                 /\ s[i].table = "nodes" => s[i].url = url
                                 /\ s[i].table = "frontier" => s[i].op = "delete"
<1> DEFINE url == j.urls[1]
           orig == j.urls[2]
           first == <<Do("upsert", "nodes", url), Do("insert", "visited", url),
                      Do("delete", "frontier", url)>>
           second == <<Do("insert", "visited", orig), Do("delete", "frontier", orig)>>
<1>1. url \in Url /\ orig \in Url
  BY DEF JobRecord
<1>2. /\ Do("upsert", "nodes", url) \in Statement
      /\ Do("insert", "visited", url) \in Statement
      /\ Do("delete", "frontier", url) \in Statement
      /\ Do("insert", "visited", orig) \in Statement
      /\ Do("delete", "frontier", orig) \in Statement
  BY <1>1 DEF Do, Statement, Table
<1>3. Statements(j) = first \o (IF orig = url THEN <<>> ELSE second)
  BY DEF Statements, Save
<1>4. CASE orig = url
  <2>1. Statements(j) = first
    BY <1>2, <1>3, <1>4
  <2>2. Statements(j) \in Seq(Statement) /\ Len(Statements(j)) = 3
    BY <1>2, <2>1
  <2>3. \A i \in 1..3 : Statements(j)[i] \in {Do("upsert", "nodes", url),
          Do("insert", "visited", url), Do("delete", "frontier", url)}
    BY <2>1
  <2>4. WellFormed(Statements(j))
    BY <2>2, <2>3 DEF WellFormed, Do
  <2>5. \A i \in 1..3 :
          /\ Statements(j)[i].url = url
          /\ Statements(j)[i].table = "frontier" => Statements(j)[i].op = "delete"
    BY <2>3 DEF Do
  <2>6. Statements(j)[1] = Do("upsert", "nodes", url)
    BY <2>1
  <2>7. Statements(j)[2] = Do("insert", "visited", url)
        /\ Statements(j)[3] = Do("delete", "frontier", url)
    BY <2>1
  <2> QED
    BY <1>1, <1>4, <2>2, <2>4, <2>5, <2>6, <2>7
<1>5. CASE orig # url
  <2>1. Statements(j) = <<Do("upsert", "nodes", url), Do("insert", "visited", url),
                          Do("delete", "frontier", url),
                          Do("insert", "visited", orig), Do("delete", "frontier", orig)>>
    BY <1>2, <1>3, <1>5, ThreeAndTwo
  <2>2. Statements(j) \in Seq(Statement) /\ Len(Statements(j)) = 5
    BY <1>2, <2>1
  <2>3. \A i \in 1..5 : Statements(j)[i] \in {Do("upsert", "nodes", url),
          Do("insert", "visited", url), Do("delete", "frontier", url),
          Do("insert", "visited", orig), Do("delete", "frontier", orig)}
    BY <2>1
  <2>4. WellFormed(Statements(j))
    BY <2>2, <2>3 DEF WellFormed, Do
  <2>5. \A i \in 1..5 :
          /\ Statements(j)[i].url \in {url, orig}
          /\ Statements(j)[i].table = "nodes" => Statements(j)[i].url = url
          /\ Statements(j)[i].table = "frontier" => Statements(j)[i].op = "delete"
    BY <2>3 DEF Do
  <2>6. Statements(j)[1] = Do("upsert", "nodes", url)
    BY <2>1
  <2>7. Statements(j)[2] = Do("insert", "visited", url)
        /\ Statements(j)[3] = Do("delete", "frontier", url)
    BY <2>1
  <2>8. Statements(j)[4] = Do("insert", "visited", orig)
        /\ Statements(j)[5] = Do("delete", "frontier", orig)
    BY <2>1
  <2> QED
    BY <1>1, <1>5, <2>2, <2>4, <2>5, <2>6, <2>7, <2>8
<1> QED
  BY <1>4, <1>5

LEMMA ScriptIsWellFormed ==
  ASSUME NEW j \in JobRecord, Shape(j)
  PROVE  WellFormed(Statements(j)) /\ (j.kind # "none" => Len(Statements(j)) > 0)
<1>1. CASE j.kind = "none"
  BY <1>1 DEF Statements, WellFormed
<1>2. CASE j.kind = "links"
  BY <1>2, LinksScript DEF Shape
<1>3. CASE j.kind = "giveUp"
  BY <1>3, GiveUpScript DEF Shape
<1>4. CASE j.kind = "save"
  BY <1>4, SaveScript DEF Shape
<1> QED
  BY <1>1, <1>2, <1>3, <1>4 DEF JobRecord

-----------------------------------------------------------------------------
(***************************************************************************)
(* The invariant, handler by handler.                                      *)
(***************************************************************************)

\* Where a handler is in its script.
Placed(h) ==
  /\ at[h] <= Len(Script(h)) + 1
  /\ stage[h] \in {"connecting", "running", "waiting"} => at[h] <= Len(Script(h))
  /\ stage[h] = "committing" =>
       at[h] > 1 /\ (job[h].kind # "giveUp" => at[h] = Len(Script(h)) + 1)
  /\ stage[h] = "done" => at[h] = Len(Script(h)) + 1

\* What it has executed is not lost: it is still to be committed, or the row is
\* there, or (frontier) was there for a time, or (delete) was not.
Kept(s, h) ==
  \/ s \in changed[h]
  \/ s.url \in IF s.op = "delete" THEN missed[h]
              ELSE IF s.table = "frontier" THEN seen[h] ELSE rows[s.table]
Carried(h) ==
  stage[h] \in {"connecting", "running", "waiting", "committing", "done"} =>
    \A i \in 1..(at[h] - 1) : Kept(Script(h)[i], h)

\* Only executed statements hold rows, and a job of single statements holds
\* those of the last one.
Locked(h) ==
  /\ \A c \in changed[h] : \E i \in 1..(at[h] - 1) : c = Script(h)[i]
  /\ changed[h] # {} => stage[h] \in {"running", "waiting", "committing"}
  /\ job[h].kind = "giveUp" =>
       /\ stage[h] # "committing" => changed[h] = {}
       /\ \A c \in changed[h] : c = Script(h)[at[h] - 1]

\* A job has seen what is in the frontier now, and missed what is not.
UpToDate(h) ==
  stage[h] \in Working =>
    rows["frontier"] \subseteq seen[h] /\ Url \ rows["frontier"] \subseteq missed[h]

Sound(h) == Shape(job[h]) /\ Placed(h) /\ Carried(h) /\ Locked(h) /\ UpToDate(h)

\* The connections taken from the pool.
Connected == {h \in Handler : stage[h] \in {"running", "waiting", "committing", "aborted"}}

Inv ==
  /\ TypeOK /\ busy = Cardinality(Connected)
  /\ \A h \in Handler : Sound(h)

\* The rows a step leaves are at least the committed pages and visited urls.
Grown ==
  /\ rows["nodes"] \subseteq rows'["nodes"]
  /\ rows["visited"] \subseteq rows'["visited"]

LEMMA ConnectedIsFinite == IsFiniteSet(Connected)
  BY TransactionsAssumption, FS_Subset DEF Connected

LEMMA ScriptOf ==
  ASSUME Inv, NEW h \in Handler
  PROVE  /\ WellFormed(Script(h)) /\ Len(Script(h)) \in Nat
         /\ job[h] \in JobRecord /\ Shape(job[h])
         /\ at[h] \in Nat \ {0}
         /\ \A i \in 1..Len(Script(h)) : Script(h)[i] \in Statement
<1>1. job[h] \in JobRecord /\ Shape(job[h]) /\ at[h] \in Nat \ {0}
  BY DEF Inv, TypeOK, Sound
<1>2. WellFormed(Script(h))
  BY <1>1, ScriptIsWellFormed DEF Script
<1> QED
  BY <1>1, <1>2 DEF WellFormed

\* A step of another handler.
LEMMA OthersAreSound ==
  ASSUME Inv, NEW k \in Handler,
         job'[k] = job[k], at'[k] = at[k], stage'[k] = stage[k],
         changed'[k] = changed[k], Grown,
         seen[k] \subseteq seen'[k], missed[k] \subseteq missed'[k],
         stage[k] \in Working => /\ rows'["frontier"] \subseteq seen'[k]
                                /\ Url \ rows'["frontier"] \subseteq missed'[k]
  PROVE  Sound(k)'
<1>1. Sound(k) /\ WellFormed(Script(k)) /\ at[k] \in Nat
      /\ \A i \in 1..Len(Script(k)) : Script(k)[i] \in Statement
  BY ScriptOf DEF Inv
<1>2. Script(k)' = Script(k)
  BY DEF Script
<1>3. Placed(k)' /\ Locked(k)' /\ UpToDate(k)' /\ Shape(job[k])'
  BY <1>1, <1>2 DEF Sound, Placed, Locked, UpToDate
<1>4. ASSUME NEW i \in 1..Len(Script(k)), Kept(Script(k)[i], k)
      PROVE  Kept(Script(k)[i], k)'
  <2>1. Script(k)[i].table \in Table
    BY <1>1 DEF Statement
  <2> QED
    BY <1>2, <1>4, <2>1 DEF Kept, Grown, Table
<1>5. Carried(k)'
  <2> SUFFICES ASSUME stage[k] \in {"connecting", "running", "waiting", "committing", "done"},
                      NEW i \in 1..(at[k] - 1)
               PROVE  Kept(Script(k)[i], k)'
    BY <1>2 DEF Carried
  <2>1. i \in 1..Len(Script(k)) /\ Kept(Script(k)[i], k)
    BY <1>1 DEF Sound, Placed, Carried, WellFormed
  <2> QED
    BY <1>1, <1>4, <2>1
<1> QED
  BY <1>3, <1>5 DEF Sound

LEMMA InitInv == Init => Inv
<1> SUFFICES ASSUME Init PROVE Inv
  OBVIOUS
<1>1. NoJob \in JobRecord /\ Shape(NoJob) /\ Statements(NoJob) = <<>>
  BY DEF NoJob, JobRecord, Shape, Statements
<1>2. TypeOK
  BY <1>1, TransactionsAssumption DEF Init, TypeOK, Working, Ended, Table
<1>3. Connected = {}
  BY DEF Init, Connected
<1>4. \A h \in Handler : Sound(h)
  BY <1>1 DEF Init, Sound, Script, Placed, Carried, Locked, UpToDate, Working
<1> QED
  BY <1>2, <1>3, <1>4, FS_EmptySet DEF Init, Inv

-----------------------------------------------------------------------------
(***************************************************************************)
(* The steps, but for the commits.                                         *)
(***************************************************************************)

LEMMA BeginInv ==
  ASSUME Inv, NEW h \in Handler, Begins(h)
  PROVE  Inv'
<1>1. PICK kind \in {"save", "links", "giveUp"}, urls \in Seq(Url) :
        /\ Begin(h, kind, urls)
        /\ Shape([kind |-> kind, urls |-> urls])
  <2>1. CASE \E page \in Pages : Begin(h, "save", page)
    <3>1. \A page \in Pages : page \in Seq(Url) /\ Len(page) = 2
      BY TransactionsAssumption
    <3> QED
      BY <2>1, <3>1 DEF Shape
  <2>2. CASE \E links \in Batches : Begin(h, "links", links)
    <3>1. \A links \in Batches : links \in Seq(Url) /\ Len(links) > 0
      BY TransactionsAssumption
    <3> QED
      BY <2>2, <3>1 DEF Shape
  <2>3. CASE \E url \in Url : Begin(h, "giveUp", <<url>>)
    <3>1. PICK url \in Url : Begin(h, "giveUp", <<url>>)
      BY <2>3
    <3>2. <<url>> \in Seq(Url) /\ Len(<<url>>) = 1
      OBVIOUS
    <3> QED
      BY <3>1, <3>2 DEF Shape
  <2> QED
    BY <2>1, <2>2, <2>3 DEF Begins
<1> DEFINE j == [kind |-> kind, urls |-> urls]
<1>2. /\ stage[h] \in Ended /\ UNCHANGED <<rows, changed, busy>>
      /\ job' = [job EXCEPT ![h] = j] /\ at' = [at EXCEPT ![h] = 1]
      /\ stage' = [stage EXCEPT ![h] = "connecting"]
      /\ seen' = [seen EXCEPT ![h] = rows["frontier"]]
      /\ missed' = [missed EXCEPT ![h] = Url \ rows["frontier"]]
  BY <1>1 DEF Begin, To
<1>3. j \in JobRecord /\ Shape(j) /\ Len(Statements(j)) > 0
  BY <1>1, ScriptIsWellFormed DEF JobRecord
<1>4. TypeOK'
  BY <1>2, <1>3 DEF Inv, TypeOK, Working, Table
<1>5. Connected' = Connected
  BY <1>2 DEF Inv, TypeOK, Connected, Ended
<1>6. \A k \in Handler : Sound(k)'
  <2> TAKE k \in Handler
  <2>1. CASE k # h
    BY <1>2, <2>1, OthersAreSound DEF Inv, TypeOK, Grown, Sound, UpToDate
  <2>2. CASE k = h
    <3>1. /\ job'[h] = j /\ at'[h] = 1 /\ stage'[h] = "connecting"
          /\ seen'[h] = rows["frontier"] /\ missed'[h] = Url \ rows["frontier"]
      BY <1>2 DEF Inv, TypeOK
    <3>2. changed'[h] = {}
      BY <1>2 DEF Inv, Sound, Locked, Ended
    <3>3. Script(h)' = Statements(j) /\ Len(Statements(j)) \in Nat
      BY <3>1, <1>3, ScriptIsWellFormed DEF Script, WellFormed
    <3> QED
      BY <1>2, <1>3, <2>2, <3>1, <3>2, <3>3
      DEF Sound, Placed, Carried, Locked, UpToDate
  <2> QED
    BY <2>1, <2>2
<1> QED
  BY <1>2, <1>4, <1>5, <1>6 DEF Inv

\* Steps that take h to another place of its script or none, with the same
\* statements executed and the same rows held.
LEMMA MovedInv ==
  ASSUME Inv, NEW h \in Handler, NEW place, NEW held, busy' = Cardinality(Connected'),
         UNCHANGED <<rows, job, at, seen, missed>>, busy' \in 0..POOL_MAX,
         stage' = [stage EXCEPT ![h] = place],
         changed' = [changed EXCEPT ![h] = held],
         \/ stage[h] = "connecting" /\ place = "running" /\ held = changed[h]
         \/ stage[h] = "running" /\ place = "waiting" /\ held = changed[h]
         \/ stage[h] \in Working /\ place = "aborted" /\ held = {}
  PROVE  Inv'
<1>1. /\ stage'[h] = place /\ changed'[h] = held /\ place \in Working
      /\ stage[h] \in Working /\ held \subseteq changed[h]
  BY DEF Inv, TypeOK, Working
<1>2. TypeOK'
  BY <1>1 DEF Inv, TypeOK
<1>3. \A k \in Handler : Sound(k)'
  <2> TAKE k \in Handler
  <2>1. CASE k # h
    BY <2>1, OthersAreSound DEF Inv, TypeOK, Grown, Sound, UpToDate
  <2>2. CASE k = h
    <3>1. Script(h)' = Script(h) /\ Sound(h)
      BY DEF Script, Inv
    <3>2. Shape(job[h])' /\ Placed(h)' /\ UpToDate(h)'
      BY <1>1, <3>1 DEF Sound, Placed, UpToDate
    <3>3. Locked(h)'
      BY <1>1, <3>1 DEF Sound, Locked
    <3>4. Carried(h)'
      <4>1. CASE place = "aborted"
        BY <1>1, <4>1 DEF Carried
      <4>2. CASE place # "aborted"
        BY <1>1, <3>1, <4>2 DEF Sound, Carried, Kept
      <4> QED
        BY <4>1, <4>2
    <3> QED
      BY <2>2, <3>2, <3>3, <3>4 DEF Sound
  <2> QED
    BY <2>1, <2>2
<1> QED
  BY <1>2, <1>3 DEF Inv

LEMMA ConnectInv ==
  ASSUME Inv, NEW h \in Handler, Connect(h)
  PROVE  Inv'
<1>1. /\ stage[h] = "connecting" /\ busy < POOL_MAX /\ busy' = busy + 1
      /\ stage' = [stage EXCEPT ![h] = "running"]
      /\ UNCHANGED <<rows, job, at, changed, seen, missed>>
  BY DEF Connect, To, history
<1>2. Connected' = Connected \cup {h} /\ h \notin Connected
  BY <1>1 DEF Inv, TypeOK, Connected
<1>3. busy' = Cardinality(Connected')
  BY <1>1, <1>2, ConnectedIsFinite, FS_AddElement DEF Inv
<1>4. busy' \in 0..POOL_MAX /\ changed' = [changed EXCEPT ![h] = changed[h]]
  BY <1>1, TransactionsAssumption DEF Inv, TypeOK
<1> QED
  BY <1>1, <1>3, <1>4, MovedInv

LEMMA WaitInv ==
  ASSUME Inv, NEW h \in Handler, Wait(h)
  PROVE  Inv'
<1>1. /\ stage[h] = "running" /\ stage' = [stage EXCEPT ![h] = "waiting"]
      /\ UNCHANGED <<rows, job, at, changed, busy, seen, missed>>
  BY DEF Wait, To, history
<1>2. Connected' = Connected
  BY <1>1 DEF Inv, TypeOK, Connected
<1>3. busy' = Cardinality(Connected') /\ busy' \in 0..POOL_MAX
      /\ changed' = [changed EXCEPT ![h] = changed[h]]
  BY <1>1, <1>2 DEF Inv, TypeOK
<1> QED
  BY <1>1, <1>3, MovedInv

LEMMA AbortInv ==
  ASSUME Inv, NEW h \in Handler, Deadlock(h) \/ Fault(h)
  PROVE  Inv'
<1>1. /\ stage[h] \in {"running", "waiting", "committing"}
      /\ stage' = [stage EXCEPT ![h] = "aborted"]
      /\ changed' = [changed EXCEPT ![h] = {}]
      /\ UNCHANGED <<rows, job, at, busy, seen, missed>>
  BY DEF Deadlock, InRing, Fault, Abort, AfterError, To, history
<1>2. Connected' = Connected
  BY <1>1 DEF Inv, TypeOK, Connected
<1>3. busy' = Cardinality(Connected') /\ busy' \in 0..POOL_MAX /\ stage[h] \in Working
  BY <1>1, <1>2 DEF Inv, TypeOK, Working
<1> QED
  BY <1>1, <1>3, MovedInv

\* The error is passed on: h can do something else.
LEMMA RejectedInv ==
  ASSUME Inv, NEW h \in Handler, ConnectTimesOut(h) \/ Rollback(h)
  PROVE  Inv'
<1>1. /\ stage[h] \in {"connecting", "aborted"}
      /\ stage' = [stage EXCEPT ![h] = "idle"] /\ job' = [job EXCEPT ![h] = NoJob]
      /\ at' = [at EXCEPT ![h] = 1] /\ seen' = [seen EXCEPT ![h] = {}]
      /\ missed' = [missed EXCEPT ![h] = {}] /\ UNCHANGED <<rows, changed>>
      /\ busy' = IF stage[h] = "aborted" THEN busy - 1 ELSE busy
  BY DEF ConnectTimesOut, Rollback, Rejected, Released, To
<1>2. busy' = Cardinality(Connected') /\ busy' \in 0..POOL_MAX
  <2>1. CASE stage[h] = "connecting"
    <3>1. Connected' = Connected
      BY <1>1, <2>1 DEF Inv, TypeOK, Connected
    <3> QED
      BY <1>1, <2>1, <3>1 DEF Inv, TypeOK
  <2>2. CASE stage[h] = "aborted"
    <3>1. Connected' = Connected \ {h} /\ h \in Connected
      BY <1>1, <2>2 DEF Inv, TypeOK, Connected
    <3>2. Cardinality(Connected') = Cardinality(Connected) - 1
          /\ Cardinality(Connected') \in Nat
      BY <3>1, ConnectedIsFinite, FS_RemoveElement, FS_CardinalityType
    <3> QED
      BY <1>1, <2>2, <3>2, TransactionsAssumption DEF Inv, TypeOK
  <2> QED
    BY <1>1, <2>1, <2>2
<1>3. NoJob \in JobRecord /\ Shape(NoJob) /\ Statements(NoJob) = <<>>
  BY DEF NoJob, JobRecord, Shape, Statements
<1>4. TypeOK'
  BY <1>1, <1>2, <1>3 DEF Inv, TypeOK, Ended
<1>5. \A k \in Handler : Sound(k)'
  <2> TAKE k \in Handler
  <2>1. CASE k # h
    BY <1>1, <2>1, OthersAreSound DEF Inv, TypeOK, Grown, Sound, UpToDate
  <2>2. CASE k = h
    <3>1. /\ job'[h] = NoJob /\ at'[h] = 1 /\ stage'[h] = "idle"
          /\ changed'[h] = {} /\ Script(h)' = <<>>
      BY <1>1, <1>3 DEF Inv, TypeOK, Sound, Locked, Script
    <3> QED
      BY <1>3, <2>2, <3>1 DEF Sound, Placed, Carried, Locked, UpToDate, Working
  <2> QED
    BY <2>1, <2>2
<1> QED
  BY <1>2, <1>4, <1>5 DEF Inv

LEMMA ExecuteInv ==
  ASSUME Inv, NEW h \in Handler, Execute(h)
  PROVE  Inv'
<1>0. PICK n, s : n = at[h] /\ s = Script(h)[n]
  OBVIOUS
<1>1. /\ stage[h] \in {"running", "waiting"}
      /\ changed' = [changed EXCEPT ![h] = IF TakesEffect(s) THEN @ \cup {s} ELSE @]
      /\ at' = [at EXCEPT ![h] = n + 1]
      /\ stage' = [stage EXCEPT ![h] = IF CommitsAfter(h) THEN "committing" ELSE "running"]
      /\ UNCHANGED <<rows, job, busy, seen, missed>>
  BY <1>0 DEF Execute, To, Current, Script, history
<1>2. /\ WellFormed(Script(h)) /\ Len(Script(h)) \in Nat /\ n \in Nat \ {0}
      /\ n <= Len(Script(h)) /\ s \in Statement /\ Sound(h)
      /\ CommitsAfter(h) <=> job[h].kind = "giveUp" \/ n = Len(Script(h))
  BY <1>0, <1>1, ScriptOf DEF Inv, Sound, Placed, CommitsAfter, Script
<1>3. /\ at'[h] = n + 1 /\ Script(h)' = Script(h)
      /\ stage'[h] = IF CommitsAfter(h) THEN "committing" ELSE "running"
      /\ changed'[h] = IF TakesEffect(s) THEN changed[h] \cup {s} ELSE changed[h]
  BY <1>0, <1>1 DEF Inv, TypeOK, Script
<1>4. TypeOK'
  BY <1>1, <1>2, <1>3 DEF Inv, TypeOK, Working
<1>5. Connected' = Connected
  BY <1>1 DEF Inv, TypeOK, Connected
<1>6. Sound(h)'
  <2>1. Shape(job[h])' /\ UpToDate(h)'
    BY <1>1, <1>2, <1>3 DEF Sound, UpToDate, Working
  <2>2. Placed(h)'
    BY <1>0, <1>1, <1>2, <1>3 DEF Placed
  <2>3. Locked(h)'
    <3>1. \A c \in changed'[h] : c \in changed[h] \/ c = s
      BY <1>3
    <3>2. \A c \in changed'[h] : \E i \in 1..n : c = Script(h)[i]
      BY <1>0, <1>2, <3>1 DEF Sound, Locked
    <3>3. job[h].kind = "giveUp" => changed[h] = {} /\ CommitsAfter(h)
      BY <1>1, <1>2 DEF Sound, Locked
    <3> QED
      BY <1>0, <1>1, <1>2, <1>3, <3>1, <3>2, <3>3 DEF Locked
  <2>4. Carried(h)'
    <3>0. ASSUME NEW c, Kept(c, h) PROVE Kept(c, h)'
      BY <1>1, <1>3, <3>0 DEF Kept
    <3>1. \A i \in 1..(n - 1) : Kept(Script(h)[i], h)
      BY <1>0, <1>1, <1>2 DEF Sound, Carried
    <3>2. Kept(s, h)'
      <4>1. CASE TakesEffect(s)
        BY <1>1, <1>3, <4>1 DEF Kept
      <4>2. CASE ~TakesEffect(s)
        <5>1. s.table \in Table /\ s.op \in {"insert", "delete"} /\ s.url \in Url
          BY <1>2, <4>2 DEF TakesEffect, Statement
        <5>2. /\ rows["frontier"] \subseteq seen[h]
              /\ Url \ rows["frontier"] \subseteq missed[h]
          BY <1>1, <1>2 DEF Sound, UpToDate, Working
        <5>3. CASE s.op = "insert"
          <6>1. s.url \in rows[s.table]
            BY <4>2, <5>3 DEF TakesEffect, InTable
          <6> QED
            BY <1>1, <1>3, <5>2, <5>3, <6>1 DEF Kept
        <5>4. CASE s.op = "delete"
          <6>1. s.url \notin rows[s.table] /\ s.table = "frontier"
            BY <1>0, <1>2, <4>2, <5>4 DEF TakesEffect, InTable, WellFormed
          <6> QED
            BY <1>1, <1>3, <5>1, <5>2, <5>4, <6>1 DEF Kept
        <5> QED
          BY <5>1, <5>3, <5>4
      <4> QED
        BY <4>1, <4>2
    <3>4. \A i \in 1..n : i \in 1..(n - 1) \/ i = n
      BY <1>2
    <3>5. \A i \in 1..n : Kept(Script(h)[i], h)'
      <4> SUFFICES ASSUME NEW i \in 1..n, NEW c, c = Script(h)[i]
                   PROVE  Kept(c, h)'
        BY <1>3
      <4>1. CASE i = n
        BY <1>0, <3>2, <4>1
      <4>2. CASE i \in 1..(n - 1)
        <5>1. Kept(c, h)
          BY <3>1, <4>2
        <5> QED
          BY <3>0, <5>1
      <4> QED
        BY <3>4, <4>1, <4>2
    <3> QED
      BY <1>0, <1>2, <1>3, <3>5 DEF Carried
  <2> QED
    BY <2>1, <2>2, <2>3, <2>4 DEF Sound
<1>7. \A k \in Handler \ {h} : Sound(k)'
  BY <1>1, OthersAreSound DEF Inv, TypeOK, Grown, Sound, UpToDate
<1> QED
  BY <1>1, <1>4, <1>5, <1>6, <1>7 DEF Inv

-----------------------------------------------------------------------------
(***************************************************************************)
(* The commits: what they show to the others, and that those stay sound.   *)
(***************************************************************************)

\* What Commit and CommitUnanswered have in common.
Commits(h, mine) ==
  /\ stage[h] = "committing"
  /\ Applied(h) /\ Passed(h) /\ Seen
  /\ stage' = [k \in Handler |-> StageAfter(k, h, mine)]
  /\ changed' = [changed EXCEPT ![h] = {}]
  /\ UNCHANGED job

\* A commit deletes from the frontier only, and shows what was inserted.
LEMMA CommitShows ==
  ASSUME Inv, NEW h \in Handler, Applied(h)
  PROVE  /\ rows' \in [Table -> SUBSET Url] /\ Grown
         /\ \A t \in Table : rows'[t] =
              (rows[t] \cup Urls(h, "insert", t) \cup Urls(h, "upsert", t))
                \ Urls(h, "delete", t)
         /\ Urls(h, "delete", "nodes") = {} /\ Urls(h, "delete", "visited") = {}
         /\ \A c \in changed[h] : c.op # "delete" <=> c.url \in rows'[c.table]
<1>1. changed[h] \subseteq Statement /\ rows \in [Table -> SUBSET Url]
  BY DEF Inv, TypeOK
<1>2. \A op, t : Urls(h, op, t) \subseteq Url
  BY <1>1 DEF Urls, Statement
<1>3. \A t \in Table : rows'[t] =
        (rows[t] \cup Urls(h, "insert", t) \cup Urls(h, "upsert", t)) \ Urls(h, "delete", t)
  BY DEF Applied
<1>4. rows' \in [Table -> SUBSET Url]
  BY <1>1, <1>2 DEF Applied
<1>5. \A c \in changed[h] : \E i \in 1..Len(Script(h)) : c = Script(h)[i]
  BY ScriptOf DEF Inv, Sound, Locked, Placed
<1>6. \A c, d \in changed[h] :
        /\ c.op = "delete" => c.table = "frontier"
        /\ c.table = "frontier" /\ d.table = "frontier" => c.op = d.op
  BY <1>5, ScriptOf DEF WellFormed
<1>7. Urls(h, "delete", "nodes") = {} /\ Urls(h, "delete", "visited") = {}
  BY <1>6 DEF Urls
<1>8. ASSUME NEW c \in changed[h], c.op # "delete"
      PROVE  c.url \in rows'[c.table]
  <2>1. c.table \in Table /\ c.op \in {"insert", "upsert"}
    BY <1>1, <1>8 DEF Statement
  <2>2. c.url \in Urls(h, c.op, c.table)
    BY DEF Urls
  <2>3. c.url \notin Urls(h, "delete", c.table)
    BY <1>6, <1>7, <1>8, <2>1 DEF Urls, Table
  <2> QED
    BY <1>3, <2>1, <2>2, <2>3
<1>9. ASSUME NEW c \in changed[h], c.op = "delete"
      PROVE  c.url \notin rows'[c.table]
  <2>1. c.table \in Table /\ c.url \in Urls(h, "delete", c.table)
    BY <1>1, <1>9 DEF Statement, Urls
  <2> QED
    BY <1>3, <2>1
<1>10. Grown
  BY <1>3, <1>7 DEF Grown, Table
<1> QED
  BY <1>3, <1>4, <1>7, <1>8, <1>9, <1>10

\* The row that k waits to delete is gone: k goes on to its next statement.
LEMMA PassedIsSound ==
  ASSUME Inv, NEW h \in Handler, NEW mine, Commits(h, mine),
         NEW k \in Handler \ {h}, FindsNothing(k, h)
  PROVE  Sound(k)'
<1>0. PICK n, d : n = at[k] /\ d = Script(k)[n]
  OBVIOUS
<1>1. /\ at'[k] = n + 1 /\ changed'[k] = changed[k] /\ job' = job
      /\ stage'[k] = IF CommitsAfter(k) THEN "committing" ELSE "running"
      /\ stage[k] = "waiting" /\ Script(k)' = Script(k)
      /\ d.op = "delete" /\ d \in changed[h]
  BY <1>0 DEF Commits, Passed, StageAfter, FindsNothing, Inv, TypeOK, Script, Current
<1>2. /\ WellFormed(Script(k)) /\ Len(Script(k)) \in Nat /\ n \in Nat \ {0}
      /\ n <= Len(Script(k)) /\ d \in Statement /\ Sound(k)
      /\ CommitsAfter(k) <=> job[k].kind = "giveUp" \/ n = Len(Script(k))
  BY <1>0, <1>1, ScriptOf DEF Inv, Sound, Placed, CommitsAfter, Script
<1>3. /\ Grown /\ seen'[k] = seen[k] \cup rows'["frontier"]
      /\ missed'[k] = missed[k] \cup (Url \ rows'["frontier"])
      /\ \A c \in changed[h] : c.op # "delete" <=> c.url \in rows'[c.table]
  BY <1>1, CommitShows DEF Commits, Seen, Working
<1>4. Shape(job[k])' /\ UpToDate(k)'
  BY <1>1, <1>2, <1>3 DEF Sound, UpToDate
<1>5. Placed(k)'
  BY <1>0, <1>1, <1>2 DEF Placed
<1>6. Locked(k)'
  <2>1. job[k].kind = "giveUp" => changed[k] = {}
    BY <1>1, <1>2 DEF Sound, Locked
  <2>2. \A c \in changed[k] : \E i \in 1..n : c = Script(k)[i]
    BY <1>0, <1>2 DEF Sound, Locked
  <2> QED
    BY <1>0, <1>1, <1>2, <2>1, <2>2 DEF Locked
<1>7. Carried(k)'
  <2>1. ASSUME NEW c, c.table \in Table, Kept(c, k) PROVE Kept(c, k)'
    BY <1>1, <1>3, <2>1 DEF Kept, Grown, Table
  <2>2. Kept(d, k)'
    <3>1. d.table = "frontier" /\ d.url \in Url
      BY <1>0, <1>1, <1>2 DEF WellFormed, Statement
    <3>2. d.url \in missed'[k]
      BY <1>1, <1>3, <3>1
    <3> QED
      BY <1>1, <3>2 DEF Kept
  <2>3. \A i \in 1..n : i \in 1..(n - 1) \/ i = n
    BY <1>2
  <2>4. ASSUME NEW i \in 1..n, NEW c, c = Script(k)[i]
        PROVE  Kept(c, k)'
    <3>1. CASE i = n
      BY <1>0, <2>2, <2>4, <3>1
    <3>2. CASE i \in 1..(n - 1)
      <4>1. Kept(c, k) /\ c.table \in Table
        BY <1>0, <1>1, <1>2, <2>4, <3>2, ScriptOf DEF Sound, Carried, Statement
      <4> QED
        BY <2>1, <4>1
    <3> QED
      BY <2>3, <3>1, <3>2
  <2>5. \A i \in 1..n : Kept(Script(k)[i], k)'
    BY <1>1, <2>4
  <2> QED
    BY <1>0, <1>1, <1>2, <2>5 DEF Carried
<1> QED
  BY <1>4, <1>5, <1>6, <1>7 DEF Sound

\* The committing handler: done, at its next transaction, or without answer.
LEMMA CommitterIsSound ==
  ASSUME Inv, NEW h \in Handler, NEW mine, Commits(h, mine),
         \/ mine = "aborted"
         \/ mine = IF at[h] > Len(Script(h)) THEN "done" ELSE "connecting"
  PROVE  Sound(h)' /\ stage'[h] = mine
<1>1. /\ at'[h] = at[h] /\ changed'[h] = {} /\ job' = job /\ stage'[h] = mine
      /\ stage[h] = "committing" /\ Script(h)' = Script(h)
  BY DEF Commits, Passed, StageAfter, FindsNothing, Inv, TypeOK, Script
<1>2. /\ Len(Script(h)) \in Nat /\ at[h] \in Nat \ {0} /\ Sound(h)
  BY ScriptOf DEF Inv
<1>3. /\ seen'[h] = seen[h] \cup rows'["frontier"] /\ Grown
      /\ missed'[h] = missed[h] \cup (Url \ rows'["frontier"])
      /\ \A c \in changed[h] : c.op # "delete" <=> c.url \in rows'[c.table]
  BY <1>1, CommitShows DEF Commits, Seen, Working
<1>4. Shape(job[h])' /\ UpToDate(h)' /\ Placed(h)' /\ Locked(h)'
  BY <1>1, <1>2, <1>3 DEF Sound, UpToDate, Placed, Locked
<1>5. Carried(h)'
  <2>1. ASSUME NEW i \in 1..(at[h] - 1)
        PROVE  Kept(Script(h)[i], h)'
    <3>1. /\ Script(h)[i].table \in Table /\ Script(h)[i].url \in Url
          /\ Script(h)[i].op = "delete" => Script(h)[i].table = "frontier"
      BY <1>2, ScriptOf DEF Sound, Placed, Statement, WellFormed
    <3>2. Kept(Script(h)[i], h)
      BY <1>1, <1>2, <2>1 DEF Sound, Carried
    <3> QED
      BY <1>1, <1>3, <2>1, <3>1, <3>2 DEF Kept, Grown, Table
  <2> QED
    BY <1>1, <2>1 DEF Carried
<1> QED
  BY <1>1, <1>4, <1>5 DEF Sound

LEMMA CommitInv ==
  ASSUME Inv, NEW h \in Handler, Commit(h) \/ CommitUnanswered(h)
  PROVE  Inv'
<1>1. PICK mine :
        /\ Commits(h, mine)
        /\ \/ mine = "aborted" /\ busy' = busy
           \/ /\ mine = IF at[h] > Len(Script(h)) THEN "done" ELSE "connecting"
              /\ busy' = busy - 1
  BY DEF Commit, CommitUnanswered, Commits, AfterError, Script
<1>2. Sound(h)' /\ stage'[h] = mine
  BY <1>1, CommitterIsSound
<1>3. ASSUME NEW k \in Handler \ {h} PROVE Sound(k)'
  <2>1. CASE FindsNothing(k, h)
    BY <1>1, <2>1, PassedIsSound
  <2>2. CASE ~FindsNothing(k, h)
    <3>1. /\ job'[k] = job[k] /\ at'[k] = at[k] /\ stage'[k] = stage[k]
          /\ changed'[k] = changed[k]
      BY <1>1, <2>2 DEF Commits, Passed, StageAfter, Inv, TypeOK
    <3>2. /\ Grown /\ seen[k] \subseteq seen'[k] /\ missed[k] \subseteq missed'[k]
          /\ stage[k] \in Working => /\ rows'["frontier"] \subseteq seen'[k]
                                    /\ Url \ rows'["frontier"] \subseteq missed'[k]
      BY <1>1, CommitShows DEF Commits, Seen
    <3> QED
      BY <3>1, <3>2, OthersAreSound
  <2> QED
    BY <2>1, <2>2
<1>4. stage[h] = "committing" /\ h \in Connected
  BY <1>1 DEF Commits, Connected
<1>5. \A k \in Handler \ {h} :
        /\ stage'[k] \in Working \cup Ended
        /\ k \in Connected <=> k \in Connected'
  BY <1>1 DEF Commits, StageAfter, FindsNothing, Connected, Inv, TypeOK, Working
<1>6. busy' = Cardinality(Connected') /\ busy' \in 0..POOL_MAX
  <2>1. CASE mine = "aborted" /\ busy' = busy
    <3>1. Connected' = Connected
      BY <1>2, <1>4, <1>5, <2>1 DEF Connected
    <3> QED
      BY <2>1, <3>1 DEF Inv, TypeOK
  <2>2. CASE mine \in {"done", "connecting"} /\ busy' = busy - 1
    <3>1. Connected' = Connected \ {h}
      BY <1>2, <1>4, <1>5, <2>2 DEF Connected
    <3>2. Cardinality(Connected') = Cardinality(Connected) - 1
          /\ Cardinality(Connected') \in Nat
      BY <1>4, <3>1, ConnectedIsFinite, FS_RemoveElement, FS_CardinalityType
    <3> QED
      BY <2>2, <3>2, TransactionsAssumption DEF Inv, TypeOK
  <2> QED
    BY <1>1, <2>1, <2>2
<1>7. TypeOK'
  <2>1. rows' \in [Table -> SUBSET Url] /\ "frontier" \in Table
    BY <1>1, CommitShows DEF Commits, Table
  <2>2. at' \in [Handler -> Nat \ {0}]
    BY <1>1 DEF Commits, Passed, Inv, TypeOK
  <2>3. {seen', missed'} \subseteq [Handler -> SUBSET Url]
    BY <1>1, <2>1 DEF Commits, Seen, Inv, TypeOK
  <2>4. stage' \in [Handler -> Working \cup Ended]
    <3>1. mine \in Working \cup Ended
      BY <1>1 DEF Working, Ended
    <3>2. \A k \in Handler : stage'[k] \in Working \cup Ended
      BY <1>2, <1>5, <3>1
    <3> QED
      BY <1>1, <3>2 DEF Commits
  <2>5. changed' \in [Handler -> SUBSET Statement] /\ job' = job
    BY <1>1 DEF Commits, Inv, TypeOK
  <2> QED
    BY <1>6, <2>1, <2>2, <2>3, <2>4, <2>5 DEF Inv, TypeOK
<1> QED
  BY <1>2, <1>3, <1>6, <1>7 DEF Inv

LEMMA CrashInv == ASSUME Inv, Crash PROVE Inv'
<1>1. NoJob \in JobRecord /\ Shape(NoJob) /\ Statements(NoJob) = <<>>
  BY DEF NoJob, JobRecord, Shape, Statements
<1>2. TypeOK'
  BY <1>1, TransactionsAssumption DEF Crash, Inv, TypeOK, Ended
<1>3. Connected' = {}
  BY DEF Crash, Connected
<1>4. \A h \in Handler : Sound(h)'
  BY <1>1 DEF Crash, Sound, Script, Placed, Carried, Locked, UpToDate, Working
<1> QED
  BY <1>2, <1>3, <1>4, FS_EmptySet DEF Inv, Crash

\* Every state of every behaviour satisfies the invariant.
LEMMA InvHolds == Spec => []Inv
<1>1. ASSUME Inv, [Next]_vars PROVE Inv'
  <2>1. ASSUME NEW h \in Handler, Step(h) \/ Begins(h) \/ Fault(h) \/ CommitUnanswered(h)
        PROVE  Inv'
    BY <1>1, <2>1, BeginInv, ConnectInv, WaitInv, AbortInv, RejectedInv, ExecuteInv,
       CommitInv DEF Step
  <2>2. CASE Crash
    BY <1>1, <2>2, CrashInv
  <2>3. CASE UNCHANGED vars
    BY <1>1, <2>3 DEF vars, history, Inv, TypeOK, Connected, Sound, Shape, Script, Placed,
       Carried, Kept, Locked, UpToDate
  <2> QED
    BY <1>1, <2>1, <2>2, <2>3 DEF Next
<1> QED
  BY <1>1, InitInv, PTL DEF Spec

-----------------------------------------------------------------------------
(***************************************************************************)
(* What the transactions promise.                                          *)
(***************************************************************************)

(* Every handler's job, position, stage and locks stay what they are meant *)
(* to be, and no connection beyond the pool's is given out (db-pg.ts:14).  *)
THEOREM TypeCorrect == Spec => []TypeOK
<1>1. Inv => TypeOK
  BY DEF Inv
<1> QED
  BY <1>1, InvHolds, PTL

(* A saveNode, insertManyFrontier or markVisited that returns has written  *)
(* its rows: no statement is lost with a deadlock, a connection or another *)
(* transaction's row (db-pg.ts:285-327).                                   *)
THEOREM DoneIsReallyDone == Spec => []DoneIsDone
<1>1. ASSUME Inv, NEW h \in Handler, stage[h] = "done"
      PROVE  Promised(h)
  <2>1. /\ Sound(h) /\ job[h] \in JobRecord /\ Shape(job[h])
        /\ at[h] = Len(Script(h)) + 1 /\ Len(Script(h)) \in Nat /\ changed[h] = {}
    BY <1>1, ScriptOf DEF Inv, Sound, Placed, Locked
  <2>2. ASSUME NEW i \in 1..Len(Script(h)), NEW op, NEW t, NEW u,
               Script(h)[i] = Do(op, t, u)
        PROVE  u \in IF op = "delete" THEN missed[h]
                    ELSE IF t = "frontier" THEN seen[h] ELSE rows[t]
    <3>1. Do(op, t, u).op = op /\ Do(op, t, u).table = t /\ Do(op, t, u).url = u
      BY DEF Do
    <3>2. Kept(Script(h)[i], h)
      BY <1>1, <2>1, <2>2, <3>1 DEF Sound, Carried
    <3> QED
      BY <2>1, <2>2, <3>1, <3>2 DEF Kept
  <2>3. CASE job[h].kind = "save"
    <3> DEFINE url == job[h].urls[1]
               orig == job[h].urls[2]
    <3>1. Len(job[h].urls) = 2 /\ Range(job[h].urls) = {url, orig}
      BY <2>1, <2>3 DEF Shape, Range, JobRecord
    <3>2. /\ Len(Script(h)) >= 3 /\ (orig # url => Len(Script(h)) = 5)
          /\ Script(h)[1] = Do("upsert", "nodes", url)
          /\ Script(h)[2] = Do("insert", "visited", url)
          /\ Script(h)[3] = Do("delete", "frontier", url)
          /\ orig # url => /\ Script(h)[4] = Do("insert", "visited", orig)
                          /\ Script(h)[5] = Do("delete", "frontier", orig)
      BY <2>1, <2>3, <3>1, SaveScript DEF Script
    <3>3. url \in rows["nodes"]
      BY <2>1, <2>2, <3>2
    <3>4. url \in rows["visited"]
      BY <2>1, <2>2, <3>2
    <3>5. orig \in rows["visited"]
      BY <2>1, <2>2, <3>2, <3>4
    <3>6. url \in missed[h]
      BY <2>1, <2>2, <3>2
    <3>7. orig \in missed[h]
      BY <2>1, <2>2, <3>2, <3>6
    <3> QED
      BY <2>3, <3>1, <3>3, <3>4, <3>5, <3>6, <3>7 DEF Promised
  <2>4. CASE job[h].kind = "links"
    <3>1. \A i \in 1..Len(Script(h)) :
            Script(h)[i] = Do("insert", "frontier", job[h].urls[i])
      BY <2>1, <2>4, LinksScript DEF Script
    <3>2. \A i \in 1..Len(Script(h)) : job[h].urls[i] \in seen[h]
      BY <2>2, <3>1
    <3>3. DOMAIN job[h].urls = 1..Len(Script(h))
      BY <2>1, <2>4, LinksScript DEF Script, JobRecord
    <3> QED
      BY <2>4, <3>2, <3>3 DEF Promised, Range
  <2>5. CASE job[h].kind = "giveUp"
    <3>1. Range(job[h].urls) = {job[h].urls[1]}
      BY <2>1, <2>5 DEF Shape, Range, JobRecord
    <3>2. /\ Len(Script(h)) = 2 /\ Script(h)[1] = Do("insert", "visited", job[h].urls[1])
          /\ Script(h)[2] = Do("delete", "frontier", job[h].urls[1])
      BY <2>1, <2>5, GiveUpScript DEF Script, Shape
    <3>3. job[h].urls[1] \in rows["visited"]
      BY <2>2, <3>2
    <3>4. job[h].urls[1] \in missed[h]
      BY <2>2, <3>2
    <3> QED
      BY <2>5, <3>1, <3>3, <3>4 DEF Promised
  <2>6. CASE job[h].kind = "none"
    BY <2>6 DEF Promised
  <2> QED
    BY <2>1, <2>3, <2>4, <2>5, <2>6 DEF JobRecord
<1>2. Inv => DoneIsDone
  BY <1>1 DEF DoneIsDone
<1> QED
  BY <1>2, InvHolds, PTL

-----------------------------------------------------------------------------
(***************************************************************************)
(* The contract: one commit is one step of it.                             *)
(***************************************************************************)

\* Rows come from the statements that are committed, and all of those but the
\* deletes are there.
LEMMA CommittedRows ==
  ASSUME Inv, NEW h \in Handler, stage[h] = "committing", Applied(h)
  PROVE  /\ \A t \in Table : \A u \in rows'[t] :
              u \in rows[t] \/ \E c \in changed[h] :
                                 c.table = t /\ c.url = u /\ c.op # "delete"
         /\ \A t \in Table : \A u \in rows[t] :
              u \in rows'[t] \/ \E c \in changed[h] :
                                  c.table = t /\ c.url = u /\ c.op = "delete"
         /\ \A c \in changed[h] : \E i \in 1..Len(Script(h)) : c = Script(h)[i]
         /\ \A i \in 1..(at[h] - 1), t \in {"nodes", "visited"} : \A op, u :
              Script(h)[i] = Do(op, t, u) /\ op # "delete" => u \in rows'[t]
         /\ \A i \in 1..(at[h] - 1) : \A op, u :
              Script(h)[i] = Do(op, "frontier", u) =>
                IF op = "delete" THEN u \notin rows'["frontier"] \/ u \in missed[h]
                ELSE u \in rows'["frontier"] \/ u \in seen[h]
<1>1. Sound(h) /\ at[h] \in Nat /\ Len(Script(h)) \in Nat
  BY ScriptOf DEF Inv
<1>2. \A t \in Table : rows'[t] =
        (rows[t] \cup Urls(h, "insert", t) \cup Urls(h, "upsert", t)) \ Urls(h, "delete", t)
  BY CommitShows
<1>3. ASSUME NEW t \in Table, NEW u \in rows'[t]
      PROVE  u \in rows[t] \/ \E c \in changed[h] :
               c.table = t /\ c.url = u /\ c.op # "delete"
  BY <1>2, <1>3 DEF Urls
<1>4. ASSUME NEW t \in Table, NEW u \in rows[t]
      PROVE  u \in rows'[t] \/ \E c \in changed[h] :
               c.table = t /\ c.url = u /\ c.op = "delete"
  BY <1>2, <1>4 DEF Urls
<1>5. \A c \in changed[h] : \E i \in 1..Len(Script(h)) : c = Script(h)[i]
  BY <1>1 DEF Sound, Locked, Placed
<1>6. ASSUME NEW i \in 1..(at[h] - 1), NEW t \in {"nodes", "visited"}, NEW op, NEW u,
             Script(h)[i] = Do(op, t, u), op # "delete"
      PROVE  u \in rows'[t]
  <2>1. Do(op, t, u).op = op /\ Do(op, t, u).table = t /\ Do(op, t, u).url = u
    BY DEF Do
  <2>2. Kept(Script(h)[i], h)
    BY <1>1, <1>6, <2>1 DEF Sound, Carried
  <2>3. Script(h)[i] \in changed[h] \/ u \in rows[t]
    BY <1>6, <2>1, <2>2 DEF Kept
  <2> QED
    BY <1>6, <2>1, <2>3, CommitShows DEF Grown
<1>7. ASSUME NEW i \in 1..(at[h] - 1), NEW op, NEW u,
             Script(h)[i] = Do(op, "frontier", u)
      PROVE  IF op = "delete" THEN u \notin rows'["frontier"] \/ u \in missed[h]
             ELSE u \in rows'["frontier"] \/ u \in seen[h]
  <2>1. Do(op, "frontier", u).op = op /\ Do(op, "frontier", u).url = u
        /\ Do(op, "frontier", u).table = "frontier"
    BY DEF Do
  <2>2. Kept(Script(h)[i], h)
    BY <1>1 DEF Sound, Carried
  <2>3. Script(h)[i] \in changed[h] \/ u \in IF op = "delete" THEN missed[h] ELSE seen[h]
    BY <1>7, <2>1, <2>2 DEF Kept
  <2> QED
    BY <1>7, <2>1, <2>3, CommitShows
<1> QED
  BY <1>3, <1>4, <1>5, <1>6, <1>7

LEMMA CommitIsAStep ==
  ASSUME Inv, NEW h \in Handler, stage[h] = "committing", Applied(h), Seen, job' = job
  PROVE  Contract!Next
<1>1. /\ Sound(h) /\ at[h] \in Nat /\ Len(Script(h)) \in Nat
      /\ job[h] \in JobRecord /\ Shape(job[h])
      /\ at[h] > 1 /\ at[h] <= Len(Script(h)) + 1
      /\ job[h].kind # "giveUp" => at[h] = Len(Script(h)) + 1
  BY ScriptOf DEF Inv, Sound, Placed
<1>2. rows \in [Table -> SUBSET Url] /\ rows' \in [Table -> SUBSET Url]
  BY CommitShows DEF Inv, TypeOK
<1>3. \A op, t, u : /\ Do(op, t, u).op = op /\ Do(op, t, u).table = t
                    /\ Do(op, t, u).url = u
  BY DEF Do
<1>4. /\ \A t \in Table : \A u \in rows'[t] :
           u \in rows[t] \/ \E c \in changed[h] : c.table = t /\ c.url = u /\ c.op # "delete"
      /\ \A t \in Table : \A u \in rows[t] :
           u \in rows'[t] \/ \E c \in changed[h] : c.table = t /\ c.url = u /\ c.op = "delete"
  BY CommittedRows
<1>5. ASSUME NEW t \in Table, \A c \in changed[h] : c.table # t
      PROVE  rows'[t] = rows[t]
  <2>1. \A u \in rows'[t] : u \in rows[t]
    BY <1>4, <1>5
  <2>2. \A u \in rows[t] : u \in rows'[t]
    BY <1>4, <1>5
  <2> QED
    BY <2>1, <2>2
<1>r. Contract!Range(job[h].urls) = Range(job[h].urls)
  BY DEF Contract!Range, Range
\* What is left to show of a call that takes effect.
<1>e. ASSUME \/ Contract!Save(h) \/ Contract!AddLinks(h)
             \/ Contract!MarkVisited(h) \/ Contract!DeleteFromFrontier(h)
      PROVE  Contract!Next
  <2>1. \A k \in Handler : /\ seen'[k] \subseteq seen[k] \cup rows'["frontier"]
                           /\ missed'[k] \subseteq missed[k] \cup (Url \ rows'["frontier"])
    BY DEF Seen
  <2> QED
    BY <1>e, <2>1 DEF Contract!Next, Contract!TakesEffect
<1>6. CASE job[h].kind = "save"
  <2> DEFINE url == job[h].urls[1]
             orig == job[h].urls[2]
  <2>0. Range(job[h].urls) = {url, orig}
    BY <1>1, <1>6 DEF Shape, Range, JobRecord
  <2>1. /\ url \in Url /\ orig \in Url
        /\ Len(Script(h)) >= 3 /\ (orig # url => Len(Script(h)) = 5)
        /\ Script(h)[1] = Do("upsert", "nodes", url)
        /\ Script(h)[2] = Do("insert", "visited", url)
        /\ Script(h)[3] = Do("delete", "frontier", url)
        /\ orig # url => /\ Script(h)[4] = Do("insert", "visited", orig)
                        /\ Script(h)[5] = Do("delete", "frontier", orig)
        /\ \A i \in 1..Len(Script(h)) :
             /\ Script(h)[i].url \in {url, orig}
             /\ Script(h)[i].table = "nodes" => Script(h)[i].url = url
             /\ Script(h)[i].table = "frontier" => Script(h)[i].op = "delete"
    <3>1. Len(job[h].urls) = 2
      BY <1>1, <1>6 DEF Shape
    <3> QED
      BY <1>1, <1>6, <3>1, SaveScript DEF Script
  <2> HIDE DEF url, orig
  <2>2. at[h] = Len(Script(h)) + 1
    BY <1>1, <1>6
  <2>3. url \in rows'["nodes"] /\ url \in rows'["visited"] /\ orig \in rows'["visited"]
    <3>1. \A i \in 1..(at[h] - 1), t \in {"nodes", "visited"} : \A op, u :
            Script(h)[i] = Do(op, t, u) /\ op # "delete" => u \in rows'[t]
      BY CommittedRows
    <3>2. 1 \in 1..(at[h] - 1) /\ 2 \in 1..(at[h] - 1)
      BY <1>1, <2>1, <2>2
    <3>3. url \in rows'["nodes"]
      <4>1. Script(h)[1] = Do("upsert", "nodes", url)
        BY <2>1
      <4> QED
        BY <3>1, <3>2, <4>1
    <3>4. url \in rows'["visited"]
      <4>1. Script(h)[2] = Do("insert", "visited", url)
        BY <2>1
      <4> QED
        BY <3>1, <3>2, <4>1
    <3>5. ASSUME orig # url
          PROVE  orig \in rows'["visited"]
      <4>1. Len(Script(h)) = 5 /\ Script(h)[4] = Do("insert", "visited", orig)
        BY <2>1, <3>5
      <4>2. 4 \in 1..(at[h] - 1)
        BY <2>2, <4>1
      <4> QED
        BY <3>1, <4>1, <4>2
    <3> QED
      BY <3>3, <3>4, <3>5
  <2>4. \A c \in changed[h] :
          /\ c.url \in {url, orig} /\ (c.table = "nodes" => c.url = url)
          /\ (c.table = "frontier" => c.op = "delete")
    BY <2>1, CommittedRows
  <2>5. rows'["nodes"] = rows["nodes"] \cup {url}
    BY <2>3, <2>4, CommittedRows, CommitShows DEF Grown, Table
  <2>6. rows'["visited"] = rows["visited"] \cup {url, orig}
    BY <2>3, <2>4, CommittedRows, CommitShows DEF Grown, Table
  <2>7. /\ rows'["frontier"] \subseteq rows["frontier"]
        /\ rows["frontier"] \subseteq rows'["frontier"] \cup {url, orig}
    BY <1>4, <2>4 DEF Table
  <2>8. rows'["frontier"] \cap {url, orig} \subseteq missed[h]
    <3>1. \A i \in 1..(at[h] - 1) : \A u :
            Script(h)[i] = Do("delete", "frontier", u) =>
              u \notin rows'["frontier"] \/ u \in missed[h]
      BY CommittedRows
    <3>2. url \notin rows'["frontier"] \/ url \in missed[h]
      <4>1. 3 \in 1..(at[h] - 1) /\ Script(h)[3] = Do("delete", "frontier", url)
        BY <1>1, <2>1, <2>2
      <4> QED
        BY <3>1, <4>1
    <3>3. ASSUME orig # url
          PROVE  orig \notin rows'["frontier"] \/ orig \in missed[h]
      <4>1. Len(Script(h)) = 5 /\ Script(h)[5] = Do("delete", "frontier", orig)
        BY <2>1, <3>3
      <4>2. 5 \in 1..(at[h] - 1)
        BY <2>2, <4>1
      <4> QED
        BY <3>1, <4>1, <4>2
    <3> QED
      BY <3>2, <3>3
  <2>9. Contract!Save(h)
    BY <1>6, <1>r, <2>0, <2>5, <2>6, <2>7, <2>8 DEF Contract!Save, url
  <2> QED
    BY <1>e, <2>9
<1>7. CASE job[h].kind = "links"
  <2>1. \A i \in 1..Len(Script(h)) :
          Script(h)[i].op = "insert" /\ Script(h)[i].table = "frontier"
    BY <1>1, <1>3, <1>7, LinksScript DEF Script
  <2>2. \A c \in changed[h] : c.op = "insert" /\ c.table = "frontier"
    BY <2>1, CommittedRows
  <2>3. rows'["nodes"] = rows["nodes"]
    BY <1>5, <2>2 DEF Table
  <2>4. rows'["visited"] = rows["visited"]
    BY <1>5, <2>2 DEF Table
  <2>5. rows["frontier"] \subseteq rows'["frontier"]
    BY <1>4, <2>2 DEF Table
  <2> DEFINE urls == Range(job[h].urls)
  <2>6. /\ at[h] = Len(Script(h)) + 1 /\ DOMAIN job[h].urls = 1..Len(Script(h))
        /\ \A i \in 1..Len(Script(h)) :
             Script(h)[i] = Do("insert", "frontier", job[h].urls[i])
    BY <1>1, <1>7, LinksScript DEF Script, JobRecord
  <2>7. \A c \in changed[h] : c.url \in urls
    <3>1. \A i \in 1..Len(Script(h)) : Script(h)[i].url \in urls
      BY <1>3, <2>6 DEF Range
    <3> QED
      BY <3>1, CommittedRows
  <2>8. rows'["frontier"] \subseteq rows["frontier"] \cup urls
    BY <1>4, <2>7 DEF Table
  <2>9. urls \subseteq rows'["frontier"] \cup seen[h]
    <3>1. \A i \in 1..Len(Script(h)) :
            job[h].urls[i] \in rows'["frontier"] \/ job[h].urls[i] \in seen[h]
      BY <1>1, <2>6, CommittedRows
    <3> QED
      BY <2>6, <3>1 DEF Range
  <2>10. Contract!AddLinks(h)
    BY <1>7, <1>r, <2>3, <2>4, <2>5, <2>8, <2>9 DEF Contract!AddLinks
  <2> QED
    BY <1>e, <2>10
<1>8. CASE job[h].kind = "giveUp"
  <2> DEFINE url == job[h].urls[1]
  <2>0. Range(job[h].urls) = {url}
    BY <1>1, <1>8 DEF Shape, Range, JobRecord
  <2>1. /\ Len(Script(h)) = 2
        /\ Script(h)[1] = Do("insert", "visited", url)
        /\ Script(h)[2] = Do("delete", "frontier", url)
    BY <1>1, <1>8, GiveUpScript DEF Script, Shape
  <2> HIDE DEF url
  <2>2. \A c \in changed[h] : c = Script(h)[at[h] - 1]
    BY <1>1, <1>8 DEF Sound, Locked
  <2>3. url \in rows'["visited"]
    <3>1. 1 \in 1..(at[h] - 1)
      BY <1>1
    <3> QED
      BY <2>1, <3>1, CommittedRows
  <2>4. CASE at[h] = 2
    <3>1. \A c \in changed[h] : c.op = "insert" /\ c.table = "visited" /\ c.url = url
      BY <1>3, <2>1, <2>2, <2>4
    <3>2. rows'["nodes"] = rows["nodes"]
      BY <1>5, <3>1 DEF Table
    <3>3. rows'["frontier"] = rows["frontier"]
      BY <1>5, <3>1 DEF Table
    <3>4. rows'["visited"] = rows["visited"] \cup {url}
      BY <2>3, <3>1, CommittedRows, CommitShows DEF Grown, Table
    <3>5. Contract!MarkVisited(h)
      BY <1>8, <1>r, <2>0, <3>2, <3>3, <3>4 DEF Contract!MarkVisited
    <3> QED
      BY <1>e, <3>5
  <2>5. CASE at[h] = 3
    <3>1. \A c \in changed[h] : c.op = "delete" /\ c.table = "frontier" /\ c.url = url
      BY <1>3, <2>1, <2>2, <2>5
    <3>2. rows'["nodes"] = rows["nodes"]
      BY <1>5, <3>1 DEF Table
    <3>3. rows'["visited"] = rows["visited"]
      BY <1>5, <3>1 DEF Table
    <3>4. \/ rows'["frontier"] = rows["frontier"]
          \/ rows'["frontier"] = rows["frontier"] \ {url}
      BY <1>2, <1>4, <3>1 DEF Table
    <3>5. CASE rows'["frontier"] = rows["frontier"] \ {url}
      <4>1. Contract!DeleteFromFrontier(h)
        BY <1>8, <1>r, <2>0, <2>3, <3>2, <3>3, <3>5 DEF Contract!DeleteFromFrontier
      <4> QED
        BY <1>e, <4>1
    \* There was no row, though there may be one now.
    <3>6. CASE rows'["frontier"] = rows["frontier"]
      <4>1. \A k \in Handler : stage[k] \in Working =>
              rows["frontier"] \subseteq seen[k] /\ Url \ rows["frontier"] \subseteq missed[k]
        BY DEF Inv, Sound, UpToDate
      <4>2. \A k \in Handler : seen'[k] = seen[k] /\ missed'[k] = missed[k]
        BY <3>6, <4>1 DEF Seen
      <4> QED
        BY <3>2, <3>3, <3>6, <4>2
        DEF Contract!Next, Contract!BeginOrEnd, Contract!tables
    <3> QED
      BY <3>4, <3>5, <3>6
  <2> QED
    BY <1>1, <2>1, <2>4, <2>5
<1>9. job[h].kind # "none"
  <2>1. job[h].kind = "none" => Script(h) = <<>>
    BY DEF Script, Statements
  <2> QED
    BY <1>1, <2>1
<1> QED
  BY <1>1, <1>6, <1>7, <1>8, <1>9 DEF JobRecord

(* Whatever transactions overlap, wait, fail or are cut off: the tables    *)
(* change by one whole saveNode, insertManyFrontier, markVisited or        *)
(* deleteFromFrontier at a time (db-pg.ts:285-327).                        *)
THEOREM TransactionsImplementContract == Spec => Implements
<1>1. Init => Contract!Init
  BY DEF Init, Contract!Init, Table, NoJob
<1>2. ASSUME Inv, [Next]_vars
      PROVE  [Contract!Next]_<<Contract!tables, job, seen, missed>>
  <2>1. ASSUME NEW h \in Handler, Commit(h) \/ CommitUnanswered(h)
        PROVE  Contract!Next
    BY <1>2, <2>1, CommitIsAStep DEF Commit, CommitUnanswered
  <2>2. ASSUME NEW h \in Handler, Begins(h) \/ ConnectTimesOut(h) \/ Rollback(h)
        PROVE  Contract!Next
    <3>1. /\ UNCHANGED rows
          /\ \A k \in Handler \ {h} :
               job'[k] = job[k] /\ seen'[k] = seen[k] /\ missed'[k] = missed[k]
          /\ seen'[h] \subseteq rows["frontier"]
          /\ missed'[h] \subseteq Url \ rows["frontier"]
      BY <1>2, <2>2
      DEF Begins, Begin, ConnectTimesOut, Rollback, Rejected, Inv, TypeOK
    <3> QED
      BY <3>1 DEF Contract!Next, Contract!BeginOrEnd, Contract!tables
  <2>3. CASE Crash
    <3>1. UNCHANGED rows /\ \A k \in Handler : seen'[k] = {} /\ missed'[k] = {}
      BY <2>3 DEF Crash
    <3> QED
      BY <3>1 DEF Contract!Next, Contract!BeginOrEnd, Contract!tables
  <2>4. CASE UNCHANGED <<rows, job, history>>
    BY <2>4 DEF history, Contract!tables
  <2>5. ASSUME NEW h \in Handler,
               Connect(h) \/ Execute(h) \/ Wait(h) \/ Deadlock(h) \/ Fault(h)
        PROVE  UNCHANGED <<rows, job, history>>
    BY <2>5 DEF Connect, Execute, Wait, Deadlock, Fault, history
  <2> QED
    BY <1>2, <2>1, <2>2, <2>3, <2>4, <2>5 DEF Next, Step, vars
<1> QED
  BY <1>1, <1>2, InvHolds, PTL DEF Spec, Implements, Contract!Spec
=============================================================================
