--------------------------- MODULE CrawlLoopProofs ---------------------------
(***************************************************************************)
(* What holds of the crawl loop for every crawl, limit and number of runs: *)
(* its types, and the safety invariants of CrawlLoop; and, with its index, *)
(* that it is the same loop and that the index covers what it saved.       *)
(***************************************************************************)
EXTENDS FullTextIndex, FiniteSetTheorems, TLAPS

(* What is in hand at each place of a run, and at each phase of a fetch.   *)
RunOK(r) ==
  /\ r \in RunRecord
  /\ r.pc = "off" => r = Fresh("off")
  /\ r.pc \in {"judge", "robots", "drop"} => r.item \in Row
  /\ r.pc = "robots" => DomainOf[r.item.url] \in Domain /\ r.held < DOMAIN_LIMIT
RunShape == \A k \in Chain : RunOK(run[k])

FetchOK(f) ==
  /\ f \in FetchRecord
  /\ f.phase # "none" => f.row \in Row /\ DomainOf[f.row.url] \in Domain
  /\ f.phase = "saved" => f.finalUrl \in Url
FetchShape == \A q \in Req : FetchOK(fetch[q])

(* Nothing of a run or a fetch outlives the process.                       *)
DownIsIdle == ~up => Fetching = {} /\ \A k \in Chain : At(k, "off")

(* The counter the runs go by is the number of fetches.                    *)
ActiveCounts == active = Cardinality(Fetching)

(* NeverStalls, of a run that has started nothing: the runs a fetch leaves *)
(* behind may all have ended when the last one of them ends.               *)
Eager(k) == ~At(k, "off") /\ ~run[k].startedAny
SomeoneWillGoOn == up => finished \/ Fetching # {} \/ \E k \in Chain : Eager(k)

(* IdleDomainHasRoom, with the bound that makes one fewer leave room.      *)
RoomIsBounded ==
  /\ \A d \in Domain : domainInflight[d] <= DOMAIN_LIMIT
  /\ IdleDomainHasRoom

(* WorkSurvivesCrash, of the rows a run has still to look at as well.      *)
RunKept(k) ==
  /\ \A r \in run[k].batch : Kept(r.url)
  /\ run[k].pc \in {"judge", "robots"} => Kept(run[k].item.url)
  /\ At(k, "drop") => run[k].item.url \in visited \/ GivenUp(run[k].item.url)
BatchesKept == \A k \in Chain : RunKept(k)

FetchKept(q) ==
  /\ Kept(fetch[q].row.url)
  /\ In(q, "marked") => fetch[q].row.url \in visited
FetchesKept == \A q \in Fetching : FetchKept(q)

Shape == /\ TypeOK /\ IsFiniteSet(frontier) /\ RunShape /\ FetchShape
         /\ DownIsIdle /\ ActiveCounts
Inv == /\ Shape /\ SomeoneWillGoOn /\ RoomIsBounded
       /\ NodesAreVisited /\ BatchesKept /\ FetchesKept /\ OvershootBounded

-----------------------------------------------------------------------------
(* Inserting urls keeps the rows there were, and adds well-formed ones.    *)
LEMMA InsertAdds ==
  ASSUME StoreTypeOK, NEW rows \in SUBSET Row, IsFiniteSet(rows),
         NEW urls \in SUBSET Url, NEW depth \in Int,
         urls # {} => depth \in RECRAWL..MAX_DEPTH,
         Insert(rows, urls, depth)
  PROVE  /\ frontier' \in SUBSET Row /\ IsFiniteSet(frontier')
         /\ nextId' \in Nat \ {0} /\ rows \subseteq frontier'
<1> DEFINE new == urls \ UrlsOf(rows)
           row(place) == {[url |-> u, depth |-> depth, id |-> nextId + place[u]] : u \in new}
<1>1. IsFiniteSet(new)
  BY StoreAssumption, FS_Subset
<1>2. Cardinality(new) \in Nat
  BY <1>1, FS_CardinalityType
<1>3. PICK place \in Bijection(new, 0..(Cardinality(new) - 1)) :
        frontier' = rows \cup row(place)
  BY DEF Insert
<1>4. \A u \in new : place[u] \in Nat
  BY <1>2, <1>3 DEF Bijection, Injection, StoreTypeOK
<1>5. row(place) \subseteq Row
  BY <1>4 DEF Row, StoreTypeOK, RECRAWL
<1>6. IsFiniteSet(row(place))
  <2> DEFINE f == [u \in new |-> [url |-> u, depth |-> depth, id |-> nextId + place[u]]]
  <2>1. f \in Surjection(new, row(place))
    BY DEF Surjection
  <2> QED
    BY <1>1, <2>1, FS_Surjection
<1>7. nextId' \in Nat \ {0}
  BY <1>2 DEF Insert, StoreTypeOK
<1> QED
  BY <1>3, <1>5, <1>6, <1>7, FS_Union

LEMMA SeedsAdd ==
  ASSUME Shape, SeedBatch
  PROVE  /\ frontier' \in SUBSET Row /\ IsFiniteSet(frontier')
         /\ nextId' \in Nat \ {0} /\ frontier \subseteq frontier'
<1>1. PICK some \in SUBSET SEEDS : Insert(frontier, some \ visited, 0)
  BY DEF SeedBatch
<1>2. StoreTypeOK /\ frontier \in SUBSET Row /\ IsFiniteSet(frontier)
  BY DEF Shape, TypeOK, StoreTypeOK
<1>3. some \ visited \in SUBSET Url /\ 0 \in RECRAWL..MAX_DEPTH /\ 0 \in Int
  BY LoopAssumption, StoreAssumption DEF RECRAWL
<1> QED
  BY <1>1, <1>2, <1>3, InsertAdds

(* How the runs change when one goes on, and when it ends.                 *)
Only(k) == \A j \in Chain \ {k} : run'[j] = run[j]

LEMMA RunGoesOn ==
  ASSUME run \in [Chain -> RunRecord], RunShape, NEW k \in Chain,
         NEW place \in Places \ {"off", "judge", "robots"}, Go(k, place),
         place = "drop" => run[k].item \in Row
  PROVE  /\ run' \in [Chain -> RunRecord] /\ RunShape' /\ Only(k)
         /\ run'[k] = [run[k] EXCEPT !.pc = place]
<1>1. RunOK([run[k] EXCEPT !.pc = place])
  BY DEF RunOK, RunShape, RunRecord
<1> QED
  BY <1>1 DEF Go, RunShape, Only, RunOK

LEMMA RunEnds ==
  ASSUME run \in [Chain -> RunRecord], RunShape, NEW k \in Chain,
         NEW place \in {"off", "scheduled"}, Leave(k, place)
  PROVE  /\ run' \in [Chain -> RunRecord] /\ RunShape' /\ Only(k)
         /\ run'[k] = Fresh(place)
<1>1. RunOK(Fresh(place))
  BY DEF RunOK, Fresh, NoRow, RunRecord, Places
<1> QED
  BY <1>1 DEF Leave, RunShape, Only, RunOK

(* How the fetches change when one begins, goes on, or ends.               *)
LEMMA FetchingIsFinite == IsFiniteSet(Fetching) /\ Cardinality(Fetching) \in Nat
BY LoopAssumption, FS_Subset, FS_CardinalityType DEF Fetching

LEMMA FetchBegins ==
  ASSUME Shape, NEW q \in Req \ Fetching, NEW item \in Row, DomainOf[item.url] \in Domain,
         fetch' = [fetch EXCEPT ![q] = [phase |-> "fetching", row |-> item,
                                        finalUrl |-> Nobody]]
  PROVE  /\ fetch' \in [Req -> FetchRecord] /\ FetchShape'
         /\ Fetching' = Fetching \cup {q}
         /\ Cardinality(Fetching') = Cardinality(Fetching) + 1
<1>1. fetch' \in [Req -> FetchRecord] /\ FetchShape'
  BY DEF Shape, TypeOK, FetchShape, FetchOK, FetchRecord
<1>2. Fetching' = Fetching \cup {q}
  BY DEF Fetching, Shape, TypeOK
<1> QED
  BY <1>1, <1>2, FetchingIsFinite, FS_AddElement

LEMMA FetchGoesOn ==
  ASSUME Shape, NEW q \in Fetching, NEW phase \in {"marked", "settled"}, Proceed(q, phase)
  PROVE  fetch' \in [Req -> FetchRecord] /\ FetchShape' /\ Fetching' = Fetching
<1>1. FetchOK([fetch[q] EXCEPT !.phase = phase])
  BY DEF Shape, FetchShape, FetchOK, FetchRecord, Fetching
<1> QED
  BY <1>1 DEF Proceed, Shape, TypeOK, FetchShape, FetchOK, FetchRecord, Fetching

LEMMA FetchEnds ==
  ASSUME Shape, NEW q \in Fetching, fetch' = [fetch EXCEPT ![q] = NoFetch]
  PROVE  /\ fetch' \in [Req -> FetchRecord] /\ FetchShape'
         /\ Fetching' = Fetching \ {q}
         /\ Cardinality(Fetching') = Cardinality(Fetching) - 1
<1>1. FetchOK(NoFetch)
  BY DEF FetchOK, NoFetch, NoRow, FetchRecord
<1>2. fetch' \in [Req -> FetchRecord] /\ FetchShape'
  BY <1>1 DEF Shape, TypeOK, FetchShape, FetchOK, Fetching
<1>3. Fetching' = Fetching \ {q}
  BY DEF Fetching, Shape, TypeOK, NoFetch
<1> QED
  BY <1>2, <1>3, FetchingIsFinite, FS_RemoveElement

(* A step that leaves the fetches alone, and one that leaves the runs.     *)
LEMMA FetchesUnchanged ==
  ASSUME Shape, UNCHANGED fetch
  PROVE  fetch' \in [Req -> FetchRecord] /\ FetchShape' /\ Fetching' = Fetching
BY DEF Shape, TypeOK, FetchShape, Fetching

LEMMA RunsUnchanged ==
  ASSUME Shape, UNCHANGED run
  PROVE  run' \in [Chain -> RunRecord] /\ RunShape'
BY DEF Shape, TypeOK, RunShape

(* A row is fetched, or robots.txt forbids it.                             *)
LEMMA LaunchShape ==
  ASSUME Shape, NEW k \in Chain, NEW inflight \in Nat, Launch(k, inflight),
         run[k].item \in Row, DomainOf[run[k].item.url] \in Domain
  PROVE  /\ run' \in [Chain -> RunRecord] /\ RunShape'
         /\ fetch' \in [Req -> FetchRecord] /\ FetchShape'
         /\ active' \in Nat /\ active' = Cardinality(Fetching')
         /\ domainInflight' \in [Domain -> Nat]
<1> DEFINE new == [run[k] EXCEPT !.pc = "scan", !.item = NoRow, !.held = 0,
                                 !.startedAny = TRUE]
<1>1. RunOK(new)
  BY DEF Shape, RunOK, RunShape, RunRecord, Places
<1>2. run' = [run EXCEPT ![k] = new]
  BY DEF Launch
<1>3. run' \in [Chain -> RunRecord] /\ RunShape'
  BY <1>1, <1>2 DEF RunShape, RunOK, Shape, TypeOK
<1>4. PICK q \in Req \ Fetching :
        fetch' = [fetch EXCEPT ![q] = [phase |-> "fetching", row |-> run[k].item,
                                       finalUrl |-> Nobody]]
  BY DEF Launch
<1>5. /\ fetch' \in [Req -> FetchRecord] /\ FetchShape'
      /\ Cardinality(Fetching') = Cardinality(Fetching) + 1
  BY <1>4, FetchBegins
<1> QED
  BY <1>3, <1>5 DEF Launch, Shape, TypeOK, ActiveCounts

LEMMA DecideShape ==
  ASSUME Shape, NEW k \in Chain, NEW inflight \in Nat, NEW known,
         Decide(k, inflight, known),
         run[k].item \in Row, DomainOf[run[k].item.url] \in Domain
  PROVE  /\ run' \in [Chain -> RunRecord] /\ RunShape'
         /\ fetch' \in [Req -> FetchRecord] /\ FetchShape'
         /\ active' \in Nat /\ active' = Cardinality(Fetching')
         /\ domainInflight' \in [Domain -> Nat]
         /\ visited' \in SUBSET Url
         /\ turn' \in Chain \cup Req \cup {Nobody}
<1>1. CASE Launch(k, inflight)
  BY <1>1, LaunchShape DEF Launch, Sync, Shape, TypeOK, StoreTypeOK
<1>2. CASE /\ MarkVisited(run[k].item.url)
           /\ run' = [run EXCEPT ![k].pc = "drop", ![k].held = 0]
           /\ Await(k)
           /\ UNCHANGED <<limits, fetch>>
  <2>1. RunOK([run[k] EXCEPT !.pc = "drop", !.held = 0])
    BY DEF Shape, RunOK, RunShape, RunRecord, Places
  <2>2. run' \in [Chain -> RunRecord] /\ RunShape'
    BY <1>2, <2>1 DEF RunShape, RunOK, Shape, TypeOK
  <2> QED
    BY <1>2, <2>2, FetchesUnchanged
       DEF MarkVisited, Row, Await, limits, Shape, TypeOK, StoreTypeOK, ActiveCounts
<1> QED
  BY <1>1, <1>2 DEF Decide

-----------------------------------------------------------------------------
(* The steps of a run keep the shape.                                      *)
LEMMA ChainShape ==
  ASSUME Shape, NEW k \in Chain, ChainStep(k)
  PROVE  Shape'
<1> USE DEF tables, queue, memory, counts, health, flags, robots, limits, process,
            Free, Continues, Await, Sync, Yield
<1>a. run \in [Chain -> RunRecord] /\ RunShape /\ up
  BY DEF Shape, TypeOK, ChainStep, Start, Enter, GotRows, GotNothing, Recrawl,
         Reseed, Pick, Drop, Reject, Accept, AskRobots, RobotsAnswered, EndScan
<1>1. CASE Start(k)
  <2>1. run' \in [Chain -> RunRecord] /\ RunShape'
    BY <1>1, <1>a, RunGoesOn, RunEnds DEF Start, Places
  <2> QED
    BY <1>1, <1>a, <2>1, FetchesUnchanged
       DEF Start, Shape, TypeOK, StoreTypeOK, DownIsIdle, ActiveCounts
<1>2. CASE Enter(k)
  <2>1. run' \in [Chain -> RunRecord] /\ RunShape'
    <3>1. CASE Leave(k, "off")
      BY <3>1, <1>a, RunEnds
    <3>2. CASE run' = [run EXCEPT ![k].pc = "query", ![k].batch = NextBatch]
      <4>1. NextBatch \in SUBSET Row
        BY DEF NextBatch, Shape, TypeOK, StoreTypeOK
      <4>2. RunOK([run[k] EXCEPT !.pc = "query", !.batch = NextBatch])
        BY <4>1, <1>a DEF RunOK, RunShape, RunRecord, Places
      <4> QED
        BY <3>2, <4>2, <1>a DEF RunShape, RunOK
    <3> QED
      BY <1>2, <3>1, <3>2 DEF Enter
  <2> QED
    BY <1>2, <1>a, <2>1, FetchesUnchanged
       DEF Enter, Shape, TypeOK, StoreTypeOK, DownIsIdle, ActiveCounts
<1>3. CASE GotRows(k)
  <2>1. run' \in [Chain -> RunRecord] /\ RunShape'
    <3>1. RunOK([run[k] EXCEPT !.pc = "scan", !.startedAny = FALSE])
      BY <1>a DEF RunOK, RunShape, RunRecord, Places
    <3> QED
      BY <1>3, <3>1, <1>a DEF GotRows, RunShape, RunOK
  <2>2. frontierCursor' \in Nat
    BY <1>3, <1>a DEF GotRows, RunShape, RunOK, RunRecord, Row
  <2> QED
    BY <1>3, <1>a, <2>1, <2>2, FetchesUnchanged
       DEF GotRows, Shape, TypeOK, StoreTypeOK, DownIsIdle, ActiveCounts
<1>4. CASE GotNothing(k)
  <2>1. run' \in [Chain -> RunRecord] /\ RunShape'
    BY <1>4, <1>a, RunGoesOn, RunEnds DEF GotNothing, Places
  <2> QED
    BY <1>4, <1>a, <2>1, FetchesUnchanged
       DEF GotNothing, Rewound, Shape, TypeOK, StoreTypeOK, DownIsIdle, ActiveCounts
<1>5. CASE Recrawl(k)
  <2>1. run' \in [Chain -> RunRecord] /\ RunShape'
    BY <1>5, <1>a, RunEnds DEF Recrawl
  <2>2. /\ frontier' \in SUBSET Row /\ IsFiniteSet(frontier')
        /\ nextId' \in Nat \ {0}
    <3>1. PICK targets \in SUBSET nodes : Insert(frontier, targets, RECRAWL)
      BY <1>5 DEF Recrawl
    <3> QED
      BY <3>1, InsertAdds, StoreAssumption DEF Shape, TypeOK, StoreTypeOK, RECRAWL
  <2> QED
    BY <1>5, <1>a, <2>1, <2>2, FetchesUnchanged
       DEF Recrawl, Shape, TypeOK, StoreTypeOK, DownIsIdle, ActiveCounts
<1>6. CASE Reseed(k)
  <2>1. run' \in [Chain -> RunRecord] /\ RunShape'
    BY <1>6, <1>a, RunEnds DEF Reseed
  <2>2. /\ frontier' \in SUBSET Row /\ IsFiniteSet(frontier')
        /\ nextId' \in Nat \ {0}
    BY <1>6, SeedsAdd DEF Reseed
  <2> QED
    BY <1>6, <1>a, <2>1, <2>2, FetchesUnchanged
       DEF Reseed, Shape, TypeOK, StoreTypeOK, DownIsIdle, ActiveCounts
<1>7. CASE Pick(k)
  <2>1. run' \in [Chain -> RunRecord] /\ RunShape'
    <3>1. PICK r \in run[k].batch :
            run' = [run EXCEPT ![k].pc = IF Known(r) THEN "drop" ELSE "judge",
                               ![k].item = r, ![k].batch = @ \ {r}]
      BY <1>7 DEF Pick
    <3>2. RunOK([run[k] EXCEPT !.pc = IF Known(r) THEN "drop" ELSE "judge",
                               !.item = r, !.batch = @ \ {r}])
      BY <1>a DEF RunOK, RunShape, RunRecord, Places
    <3> QED
      BY <3>1, <3>2, <1>a DEF RunShape, RunOK
  <2> QED
    BY <1>7, <1>a, <2>1, FetchesUnchanged
       DEF Pick, Shape, TypeOK, StoreTypeOK, DownIsIdle, ActiveCounts
<1>b. RunOK([run[k] EXCEPT !.pc = "scan", !.item = NoRow])
  BY <1>a DEF RunOK, RunShape, RunRecord, Places
<1>8. CASE Drop(k)
  <2>1. run' \in [Chain -> RunRecord] /\ RunShape'
    BY <1>8, <1>a, <1>b DEF Drop, RunShape, RunOK
  <2>2. frontier' \subseteq frontier /\ faults' \in Nat
    BY <1>8 DEF Drop, Delete, Without, Works, Fault, Shape, TypeOK
  <2> QED
    BY <1>8, <1>a, <2>1, <2>2, FetchesUnchanged, FS_Subset
       DEF Drop, Shape, TypeOK, StoreTypeOK, DownIsIdle, ActiveCounts
<1>9. CASE Reject(k)
  <2>1. run' \in [Chain -> RunRecord] /\ RunShape'
    <3>1. CASE Go(k, "drop")
      BY <1>9, <3>1, <1>a, RunGoesOn DEF Reject, RunShape, RunOK, At, Places
    <3>2. CASE run' = [run EXCEPT ![k].pc = "scan", ![k].item = NoRow]
      BY <3>2, <1>a, <1>b DEF RunShape, RunOK
    <3> QED
      BY <1>9, <3>1, <3>2 DEF Reject
  <2> QED
    BY <1>9, <1>a, <2>1, FetchesUnchanged
       DEF Reject, Shape, TypeOK, StoreTypeOK, DownIsIdle, ActiveCounts
<1>c. At(k, "judge") => run[k].item \in Row
  BY <1>a DEF At, RunShape, RunOK
<1>d. run[k].item \in Row /\ ~GivenUp(run[k].item.url)
        => /\ DomainOf[run[k].item.url] \in Domain
           /\ domainInflight[DomainOf[run[k].item.url]] \in Nat
  BY LoopAssumption DEF GivenUp, Row, Shape, TypeOK
<1>10. CASE Accept(k)
  <2> DEFINE inflight == domainInflight[DomainOf[run[k].item.url]]
  <2>1. /\ run[k].item \in Row /\ DomainOf[run[k].item.url] \in Domain
        /\ inflight \in Nat /\ Decide(k, inflight, robotsKnown)
    BY <1>10, <1>c, <1>d DEF Accept
  <2> HIDE DEF inflight
  <2> QED
    BY <1>10, <1>a, <2>1, DecideShape
       DEF Accept, Shape, TypeOK, StoreTypeOK, DownIsIdle, ActiveCounts
<1>11. CASE AskRobots(k)
  <2> DEFINE url == run[k].item.url
  <2>1. /\ run[k].item \in Row /\ DomainOf[url] \in Domain
        /\ domainInflight[DomainOf[url]] \in Nat
        /\ domainInflight[DomainOf[url]] < DOMAIN_LIMIT
        /\ OriginOf[url] \in Origin
    BY <1>11, <1>c, <1>d, LoopAssumption DEF AskRobots, HasRoom, Row
  <2>2. RunOK([run[k] EXCEPT !.pc = "robots", !.held = domainInflight[DomainOf[url]]])
    BY <2>1, <1>a DEF RunOK, RunShape, RunRecord, Places
  <2>3. run' \in [Chain -> RunRecord] /\ RunShape'
    BY <1>11, <2>2, <1>a DEF AskRobots, RunShape, RunOK
  <2> QED
    BY <1>11, <1>a, <2>1, <2>3, FetchesUnchanged
       DEF AskRobots, Shape, TypeOK, StoreTypeOK, DownIsIdle, ActiveCounts
<1>12. CASE RobotsAnswered(k)
  <2>1. /\ run[k].item \in Row /\ DomainOf[run[k].item.url] \in Domain
        /\ run[k].held \in Nat /\ Decide(k, run[k].held, robotsKnown')
    BY <1>12, <1>a DEF RobotsAnswered, At, RunShape, RunOK, RunRecord
  <2>2. robotsKnown' \in SUBSET Origin
    <3>1. robotsKnown' \in {robotsKnown, robotsKnown \cup {OriginOf[run[k].item.url]}}
      BY <1>12 DEF RobotsAnswered
    <3>2. OriginOf[run[k].item.url] \in Origin
      BY <2>1, LoopAssumption DEF Row
    <3> QED
      BY <3>1, <3>2 DEF Shape, TypeOK
  <2> QED
    BY <1>12, <1>a, <2>1, <2>2, DecideShape
       DEF RobotsAnswered, Shape, TypeOK, StoreTypeOK, DownIsIdle, ActiveCounts
<1>13. CASE EndScan(k)
  <2>1. run' \in [Chain -> RunRecord] /\ RunShape'
    BY <1>13, <1>a, RunEnds DEF EndScan
  <2> QED
    BY <1>13, <1>a, <2>1, FetchesUnchanged
       DEF EndScan, Shape, TypeOK, StoreTypeOK, DownIsIdle, ActiveCounts
<1> QED
  BY <1>1, <1>2, <1>3, <1>4, <1>5, <1>6, <1>7, <1>8, <1>9, <1>10, <1>11, <1>12,
     <1>13 DEF ChainStep

(* A counter is raised, if it exists.                                      *)
LEMMA OneMore ==
  ASSUME NEW f \in [Domain -> Nat], NEW x
  PROVE  [f EXCEPT ![x] = @ + 1] \in [Domain -> Nat]
<1>1. CASE x \in Domain
  <2>1. f[x] + 1 \in Nat
    BY <1>1
  <2> QED
    BY <2>1
<1>2. CASE x \notin Domain
  BY <1>2
<1> QED
  BY <1>1, <1>2

(* The steps of a fetch keep the shape.                                    *)
LEMMA MarkShape ==
  ASSUME Shape, NEW q \in Fetching, Mark(q)
  PROVE  /\ fetch' \in [Req -> FetchRecord] /\ FetchShape' /\ Fetching' = Fetching
         /\ visited' \in SUBSET Url /\ faults' \in Nat
<1>1. fetch[q].row.url \in Url
  BY DEF Shape, FetchShape, FetchOK, Fetching, Row
<1> QED
  BY <1>1, FetchGoesOn DEF Mark, MarkVisited, Works, Fault, Shape, TypeOK, StoreTypeOK

LEMMA RecordFailShape ==
  ASSUME Shape, NEW d \in Domain, RecordFail(d)
  PROVE  /\ domainSuccess' \in [Domain -> Nat] /\ domainFail' \in [Domain -> Nat]
         /\ domainBlacklist' \in SUBSET Domain
BY DEF RecordFail, Shape, TypeOK

\* Only a request that is under way takes a step, and the process stays up.
LEMMA FetchIsOpen ==
  ASSUME NEW q \in Req, FetchStep(q)
  PROVE  up /\ up' = up /\ q \in Fetching
<1> USE DEF process, Free, Continues, In, Fetching
<1>1. ASSUME Save(q) \/ SaveFails(q)
      PROVE  up /\ up' = up /\ q \in Fetching
  BY <1>1 DEF Save, SaveFails
<1>2. ASSUME Enqueue(q) \/ Unlist(q) \/ Finally(q)
      PROVE  up /\ up' = up /\ q \in Fetching
  BY <1>2 DEF Enqueue, Unlist, Finally
<1>3. ASSUME Recrawled(q) \/ FetchFails(q)
      PROVE  up /\ up' = up /\ q \in Fetching
  BY <1>3 DEF Recrawled, FetchFails
<1> QED
  BY <1>1, <1>2, <1>3 DEF FetchStep

LEMMA FetchStepShape ==
  ASSUME Shape, NEW q \in Req, FetchStep(q)
  PROVE  Shape'
<1> USE DEF tables, queue, memory, counts, health, flags, robots, limits, process,
            Free, Continues, Await, Yield
<1> DEFINE row == fetch[q].row
<1>a. /\ fetch \in [Req -> FetchRecord] /\ FetchOK(fetch[q]) /\ up
      /\ q \in Fetching
  BY FetchIsOpen DEF Shape, TypeOK, FetchShape, Fetching
<1>b. row \in Row /\ row.url \in Url /\ DomainOf[row.url] \in Domain
  BY <1>a DEF FetchOK, Fetching, Row
<1>1. CASE Save(q)
  <2>1. PICK url \in {row.url} \cup Redirects[row.url] :
          /\ SaveNode(url, row.url)
          /\ fetch' = [fetch EXCEPT ![q].phase = "saved", ![q].finalUrl = url]
    BY <1>1 DEF Save
  <2>2. url \in Url
    BY <1>b, LoopAssumption
  <2>3. FetchOK([fetch[q] EXCEPT !.phase = "saved", !.finalUrl = url])
    BY <1>a, <1>b, <2>2 DEF FetchOK, FetchRecord
  <2>4. fetch' \in [Req -> FetchRecord] /\ FetchShape' /\ Fetching' = Fetching
    BY <1>a, <2>1, <2>3 DEF FetchShape, FetchOK, Fetching, Shape
  <2>5. frontier' \subseteq frontier /\ visited' \in SUBSET Url /\ nodes' \in SUBSET Url
    BY <2>1, <2>2, <1>b DEF SaveNode, Without, Shape, TypeOK, StoreTypeOK
  <2>6. IsFiniteSet(frontier')
    BY <2>5, FS_Subset DEF Shape
  <2> QED
    BY <1>1, <1>a, <2>1, <2>4, <2>5, <2>6, RunsUnchanged
       DEF Save, SaveNode, Shape, TypeOK, StoreTypeOK, DownIsIdle, ActiveCounts
<1>2. CASE SaveFails(q)
  <2>1. fetch' \in [Req -> FetchRecord] /\ FetchShape' /\ Fetching' = Fetching
    BY <1>2, <1>a, FetchGoesOn DEF SaveFails
  <2> QED
    BY <1>2, <1>a, <1>b, <2>1, RunsUnchanged, RecordFailShape
       DEF SaveFails, Fault, Shape, TypeOK, StoreTypeOK, DownIsIdle, ActiveCounts
<1>3. CASE Enqueue(q)
  <2>1. fetch' \in [Req -> FetchRecord] /\ FetchShape' /\ Fetching' = Fetching
    BY <1>3, <1>a, FetchGoesOn DEF Enqueue
  <2>2. /\ frontier' \in SUBSET Row /\ IsFiniteSet(frontier')
        /\ nextId' \in Nat \ {0} /\ faults' \in Nat
    <3> DEFINE links == Welcome(q, domainNodeCount')
    <3>0. Links[fetch[q].finalUrl] \in SUBSET Url
      BY <1>3, <1>a, LoopAssumption DEF Enqueue, In, FetchOK
    <3>2. row.depth + 1 \in Int /\ row.depth + 1 >= RECRAWL
      BY <1>b, StoreAssumption DEF Row, RECRAWL
    <3>1. links \in SUBSET Url /\ (links # {} => row.depth + 1 <= MAX_DEPTH)
      BY <3>0, <3>2, StoreAssumption DEF Welcome, TooDeep
    <3>3. CASE Works /\ Insert(frontier, links, row.depth + 1)
      <4> HIDE DEF links, row
      <4>1. links # {} => row.depth + 1 \in RECRAWL..MAX_DEPTH
        BY <3>1, <3>2, StoreAssumption DEF RECRAWL
      <4> QED
        BY <3>1, <3>2, <3>3, <4>1, InsertAdds DEF Works, Shape, TypeOK, StoreTypeOK
    <3>4. CASE Fault /\ UNCHANGED queue
      BY <3>4 DEF Fault, Shape, TypeOK, StoreTypeOK
    <3> QED
      BY <1>3, <3>3, <3>4 DEF Enqueue
  <2>3. domainNodeCount' \in [Domain -> Nat] /\ domainSuccess' \in [Domain -> Nat]
    <3>1. /\ domainSuccess' = [domainSuccess EXCEPT ![DomainOf[row.url]] = @ + 1]
          /\ domainNodeCount' =
               [domainNodeCount EXCEPT ![DomainOf[fetch[q].finalUrl]] = @ + 1]
      BY <1>3 DEF Enqueue
    <3>2. domainSuccess \in [Domain -> Nat] /\ domainNodeCount \in [Domain -> Nat]
      BY DEF Shape, TypeOK
    <3> QED
      BY <3>1, <3>2, OneMore
  <2> QED
    BY <1>3, <1>a, <2>1, <2>2, <2>3, RunsUnchanged
       DEF Enqueue, Shape, TypeOK, StoreTypeOK, DownIsIdle, ActiveCounts
<1>4. CASE Recrawled(q)
  BY <1>4, <1>a, MarkShape, RunsUnchanged
     DEF Recrawled, Shape, TypeOK, StoreTypeOK, DownIsIdle, ActiveCounts
<1>5. CASE FetchFails(q)
  BY <1>5, <1>a, <1>b, MarkShape, RecordFailShape, RunsUnchanged
     DEF FetchFails, Shape, TypeOK, StoreTypeOK, DownIsIdle, ActiveCounts
<1>6. CASE Unlist(q)
  <2>1. fetch' \in [Req -> FetchRecord] /\ FetchShape' /\ Fetching' = Fetching
    BY <1>6, <1>a, FetchGoesOn DEF Unlist
  <2>2. frontier' \subseteq frontier /\ faults' \in Nat
    BY <1>6 DEF Unlist, Delete, Without, Works, Fault, Shape, TypeOK
  <2> QED
    BY <1>6, <1>a, <2>1, <2>2, RunsUnchanged, FS_Subset
       DEF Unlist, Shape, TypeOK, StoreTypeOK, DownIsIdle, ActiveCounts
<1>7. CASE Finally(q)
  <2>1. run' \in [Chain -> RunRecord] /\ RunShape'
    BY <1>7, RunGoesOn DEF Finally, Places, Shape, TypeOK
  <2>2. /\ fetch' \in [Req -> FetchRecord] /\ FetchShape'
        /\ Cardinality(Fetching') = Cardinality(Fetching) - 1
    BY <1>7, <1>a, FetchEnds DEF Finally
  <2>3. Cardinality(Fetching) # 0
    BY <1>a, FetchingIsFinite, FS_EmptySet
  <2>4. active' \in Nat /\ ActiveCounts'
    BY <1>7, <2>2, <2>3, FetchingIsFinite DEF Finally, ActiveCounts, Shape
  <2>5. domainInflight' \in [Domain -> Nat]
    <3>1. domainInflight \in [Domain -> Nat]
      BY DEF Shape, TypeOK
    <3>2. \A n \in Nat : Released(n) \in Nat
      BY DEF Released
    <3> QED
      BY <1>7, <1>b, <3>1, <3>2 DEF Finally
  <2> QED
    BY <1>7, <1>a, <2>1, <2>2, <2>4, <2>5
       DEF Finally, Shape, TypeOK, StoreTypeOK, DownIsIdle
<1> QED
  BY <1>1, <1>2, <1>3, <1>4, <1>5, <1>6, <1>7 DEF FetchStep

(* The intervals, a crash and a restart keep the shape.                    *)
LEMMA TableSizes ==
  ASSUME Shape
  PROVE  /\ Cardinality(nodes) \in Nat /\ Cardinality(frontier) \in Nat
         /\ Counted \in [Domain -> Nat]
<1>1. IsFiniteSet(nodes)
  BY StoreAssumption, FS_Subset DEF Shape, TypeOK, StoreTypeOK
<1>2. \A d \in Domain : IsFiniteSet(PagesOf(d))
  BY <1>1, FS_Subset DEF PagesOf
<1> QED
  BY <1>1, <1>2, FS_CardinalityType DEF Counted, Shape

LEMMA Untouched ==
  ASSUME Shape, UNCHANGED <<limits, run, fetch, up>>
  PROVE  /\ run' \in [Chain -> RunRecord] /\ RunShape'
         /\ fetch' \in [Req -> FetchRecord] /\ FetchShape'
         /\ DownIsIdle' /\ ActiveCounts'
BY FetchesUnchanged, RunsUnchanged DEF limits, Shape, DownIsIdle, At, ActiveCounts

NothingBegun ==
  /\ run = [k \in Chain |-> Fresh("off")] /\ fetch = [q \in Req |-> NoFetch]
  /\ active = 0 /\ domainInflight = NoCount
  /\ domainNodeCount = NoCount /\ domainSuccess = NoCount /\ domainFail = NoCount

BeginsWell ==
  /\ run \in [Chain -> RunRecord] /\ RunShape
  /\ fetch \in [Req -> FetchRecord] /\ FetchShape
  /\ DownIsIdle /\ ActiveCounts
  /\ active \in Nat /\ domainInflight \in [Domain -> Nat]
  /\ domainNodeCount \in [Domain -> Nat] /\ domainSuccess \in [Domain -> Nat]
  /\ domainFail \in [Domain -> Nat]

LEMMA NothingGoesOn == NothingBegun => BeginsWell
<1> SUFFICES ASSUME NothingBegun
             PROVE  /\ run \in [Chain -> RunRecord] /\ RunShape
                    /\ fetch \in [Req -> FetchRecord] /\ FetchShape
                    /\ DownIsIdle /\ ActiveCounts
  BY DEF NothingBegun, NoCount, BeginsWell
<1>1. RunOK(Fresh("off")) /\ FetchOK(NoFetch)
  BY DEF RunOK, Fresh, NoRow, RunRecord, Places, FetchOK, NoFetch, FetchRecord
<1>2. Fetching = {}
  BY DEF Fetching, NoFetch, NothingBegun
<1> QED
  BY <1>1, <1>2, FS_EmptySet
     DEF NothingBegun, RunShape, FetchShape, RunOK, FetchOK, DownIsIdle, At, Fresh,
         ActiveCounts

LEMMA RefreshShape ==
  ASSUME Shape, Refresh
  PROVE  /\ nodeCount' \in Nat /\ frontierCount' \in Nat /\ faults' \in Nat
         /\ domainNodeCount' \in [Domain -> Nat]
BY TableSizes DEF Refresh, Works, Fault, Shape, TypeOK

LEMMA RewoundShape ==
  ASSUME frontierCursor \in Nat, NEW rows \in SUBSET Row, RewoundToFirst(rows)
  PROVE  frontierCursor' \in Nat
BY DEF RewoundToFirst, Row

LEMMA WorldShape ==
  ASSUME Shape, Stats \/ ClearProcessed \/ DiskCheck \/ MinIdAnswered \/ Crash \/ Boot
  PROVE  Shape'
<1> USE DEF tables, queue, memory, counts, health, flags, robots, limits, process, Free
<1>1. CASE Stats
  <2>1. /\ frontier' \in SUBSET Row /\ IsFiniteSet(frontier')
        /\ nextId' \in Nat \ {0}
    BY <1>1, SeedsAdd DEF Stats, Shape, TypeOK, StoreTypeOK
  <2>2. nodeCount' \in Nat /\ frontierCount' \in Nat /\ domainNodeCount' \in [Domain -> Nat]
    BY <1>1, RefreshShape DEF Stats
  <2>3. faults' \in Nat
    BY <1>1, RefreshShape DEF Stats
  <2> QED
    BY <1>1, <2>1, <2>2, <2>3, Untouched DEF Stats, Shape, TypeOK, StoreTypeOK
<1>2. CASE ClearProcessed
  <2>1. frontier' \subseteq frontier
    BY <1>2 DEF ClearProcessed, Unprocessed, Without
  <2>2. IsFiniteSet(frontier')
    BY <2>1, FS_Subset DEF Shape
  <2> QED
    BY <1>2, <2>1, <2>2, Untouched DEF ClearProcessed, Shape, TypeOK, StoreTypeOK
<1>3. CASE DiskCheck
  BY <1>3, Untouched DEF DiskCheck, Shape, TypeOK, StoreTypeOK
<1>4. CASE Crash
  <2>1. NothingBegun'
    BY <1>4 DEF Crash, NothingBegun, NoCount
  <2>2. StoreTypeOK' /\ IsFiniteSet(frontier')
    BY <1>4 DEF Crash, Shape, TypeOK, StoreTypeOK
  <2>3. faults' \in Nat /\ crashes' \in Nat
    BY <1>4 DEF Crash, Shape, TypeOK
  <2>4. /\ nodeCount' = 0 /\ frontierCount' = 0 /\ domainBlacklist' = {}
        /\ diskPaused' = FALSE /\ recrawlAttempted' = FALSE
        /\ domainsChecked' = {} /\ robotsKnown' = {} /\ frontierCursor' = 0
        /\ up' = FALSE /\ minIdAsked' = FALSE /\ turn' = Nobody /\ finished' = FALSE
    BY <1>4 DEF Crash
  <2>5. BeginsWell'
    BY <2>1, NothingGoesOn, PTL
  <2> QED
    BY <2>2, <2>3, <2>4, <2>5 DEF Shape, TypeOK, BeginsWell
<1>5. CASE Boot
  <2>1. Cleaned \in SUBSET Row /\ IsFiniteSet(Cleaned)
    BY FS_Subset, FS_EmptySet DEF Cleaned, Unprocessed, Without, Shape, TypeOK, StoreTypeOK
  <2>2. /\ frontier' \in SUBSET Row /\ IsFiniteSet(frontier')
        /\ nextId' \in Nat \ {0}
    <3>1. Insert(Cleaned, SEEDS, 0)
      BY <1>5 DEF Boot
    <3>2. StoreTypeOK /\ 0 \in RECRAWL..MAX_DEPTH /\ SEEDS \in SUBSET Url
      BY StoreAssumption, LoopAssumption DEF Shape, TypeOK, RECRAWL
    <3> HIDE DEF Cleaned
    <3> QED
      BY <2>1, <3>1, <3>2, InsertAdds
  <2>3. run' \in [Chain -> RunRecord] /\ RunShape'
    BY <1>5, RunGoesOn DEF Boot, Places, Shape, TypeOK
  <2>4. /\ nodeCount' \in Nat /\ frontierCount' \in Nat /\ faults' \in Nat
        /\ domainNodeCount' \in [Domain -> Nat]
    BY <1>5, RefreshShape DEF Boot
  <2>5. frontierCursor' \in Nat /\ minIdAsked' \in BOOLEAN
    BY <1>5, <2>2, RewoundShape, LoopAssumption DEF Boot, Shape, TypeOK
  <2> QED
    BY <1>5, <2>2, <2>3, <2>4, <2>5, FetchesUnchanged
       DEF Boot, Shape, TypeOK, StoreTypeOK, DownIsIdle, ActiveCounts
<1>6. CASE MinIdAnswered
  <2>1. frontierCursor' \in Nat
    BY <1>6, RewoundShape DEF MinIdAnswered, Shape, TypeOK, StoreTypeOK
  <2>2. faults' \in Nat
    BY <1>6 DEF MinIdAnswered, Works, Fault, Shape, TypeOK
  <2> QED
    BY <1>6, <2>1, <2>2, Untouched DEF MinIdAnswered, Shape, TypeOK, StoreTypeOK
<1> QED
  BY <1>1, <1>2, <1>3, <1>4, <1>5, <1>6

LEMMA InitShape == Init => Shape
<1> SUFFICES ASSUME Init PROVE Shape
  OBVIOUS
<1>1. NothingBegun
  BY DEF Init, NothingBegun
<1>2. StoreTypeOK /\ IsFiniteSet(frontier)
  BY FS_EmptySet DEF Init, StoreInit, StoreTypeOK
<1> QED
  BY <1>1, <1>2, NothingGoesOn DEF Init, Shape, TypeOK, BeginsWell

LEMMA StepShape == Shape /\ [Next]_vars => Shape'
<1> SUFFICES ASSUME Shape, [Next]_vars PROVE Shape'
  OBVIOUS
<1>1. CASE UNCHANGED vars
  BY <1>1, Untouched
     DEF vars, tables, memory, counts, health, flags, robots, limits, process,
         Shape, TypeOK, StoreTypeOK
<1> QED
  BY <1>1, ChainShape, FetchStepShape, WorldShape DEF Next

LEMMA ShapeInvariant == Spec => []Shape
BY InitShape, StepShape, PTL DEF Spec

(* Every variable keeps its type: the counters never go below zero, though *)
(* processNext and the handlers of a fetch raise and lower them at places  *)
(* far apart (queue.ts lines 257 to 259 and 299 to 302).                   *)
THEOREM TypeCorrect == Spec => []TypeOK
<1>1. Shape => TypeOK
  BY DEF Shape
<1> QED
  BY <1>1, ShapeInvariant, PTL

-----------------------------------------------------------------------------
(* What a step of a run does to the others, and to the fetches.            *)
LEMMA DecideKeepsGoing ==
  ASSUME Shape, NEW k \in Chain, NEW inflight \in Nat, NEW known,
         Decide(k, inflight, known),
         run[k].item \in Row, DomainOf[run[k].item.url] \in Domain
  PROVE  /\ Only(k) /\ Fetching \subseteq Fetching'
         /\ (Eager(k) => Eager(k)' \/ Fetching' # {})
<1>1. CASE Launch(k, inflight)
  <2>1. Fetching \subseteq Fetching' /\ Fetching' # {}
    BY <1>1, FetchBegins DEF Launch
  <2> QED
    BY <1>1, <2>1 DEF Launch, Only, Shape, TypeOK
<1>2. CASE /\ run' = [run EXCEPT ![k].pc = "drop", ![k].held = 0]
           /\ UNCHANGED <<limits, fetch>>
  BY <1>2, FetchesUnchanged DEF Only, Eager, At, Shape, TypeOK, RunRecord
<1> QED
  BY <1>1, <1>2 DEF Decide

LEMMA RunsKeepGoing ==
  ASSUME Shape, NEW k \in Chain, ChainStep(k)
  PROVE  /\ Only(k) /\ Fetching \subseteq Fetching'
         /\ up' = up /\ (finished => finished')
         /\ (Eager(k) => Eager(k)' \/ Fetching' # {} \/ finished')
<1> USE DEF process
<1>a. run \in [Chain -> RunRecord] /\ RunShape
  BY DEF Shape, TypeOK
<1>b. active # 0 => Fetching # {}
  BY FS_EmptySet DEF Shape, ActiveCounts
<1>c. active >= CONCURRENCY => active # 0
  BY LoopAssumption DEF Shape, TypeOK
<1>1. CASE Start(k)
  <2>1. CASE Leave(k, "off") /\ finished'
    BY <1>1, <2>1, <1>a, RunEnds, FetchesUnchanged DEF Start
  <2>2. CASE Go(k, "yielded") /\ UNCHANGED finished
    BY <1>1, <2>2, <1>a, FetchesUnchanged DEF Start, Go, Only, Eager, At, RunRecord
  <2> QED
    BY <1>1, <2>1, <2>2 DEF Start
<1>2. CASE Enter(k)
  <2>1. CASE active >= CONCURRENCY /\ Leave(k, "off")
    BY <1>2, <2>1, <1>a, <1>b, <1>c, RunEnds, FetchesUnchanged DEF Enter
  <2>2. CASE run' = [run EXCEPT ![k].pc = "query", ![k].batch = NextBatch]
    BY <1>2, <2>2, <1>a, FetchesUnchanged DEF Enter, Only, Eager, At, RunRecord
  <2> QED
    BY <1>2, <2>1, <2>2 DEF Enter
<1>3. CASE GotRows(k)
  BY <1>3, <1>a, FetchesUnchanged DEF GotRows, Only, Eager, At, RunRecord
<1>4. CASE GotNothing(k)
  <2>1. CASE Leave(k, "scheduled")
    BY <1>4, <2>1, <1>a, RunEnds, FetchesUnchanged DEF GotNothing, Eager, At, Fresh
  <2>2. CASE Go(k, "scan") \/ Go(k, "recrawl") \/ Go(k, "reseed")
    BY <1>4, <2>2, <1>a, FetchesUnchanged DEF GotNothing, Go, Only, Eager, At, RunRecord
  <2> QED
    BY <1>4, <2>1, <2>2 DEF GotNothing
<1>5. CASE Recrawl(k) \/ Reseed(k)
  BY <1>5, <1>a, RunEnds, FetchesUnchanged DEF Recrawl, Reseed, Eager, At, Fresh
<1>6. CASE Pick(k)
  BY <1>6, <1>a, FetchesUnchanged DEF Pick, Only, Eager, At, RunRecord
<1>7. CASE Drop(k)
  BY <1>7, <1>a, FetchesUnchanged DEF Drop, Only, Eager, At, RunRecord
<1>8. CASE Reject(k)
  BY <1>8, <1>a, FetchesUnchanged DEF Reject, Go, Only, Eager, At, RunRecord
<1>d. /\ At(k, "judge") => run[k].item \in Row
      /\ At(k, "robots") => /\ run[k].item \in Row /\ run[k].held \in Nat
                            /\ DomainOf[run[k].item.url] \in Domain
  BY <1>a DEF At, RunShape, RunOK, RunRecord
<1>e. run[k].item \in Row /\ ~GivenUp(run[k].item.url)
        => /\ DomainOf[run[k].item.url] \in Domain
           /\ domainInflight[DomainOf[run[k].item.url]] \in Nat
  BY LoopAssumption DEF GivenUp, Row, Shape, TypeOK
<1>9. CASE Accept(k)
  BY <1>9, <1>d, <1>e, DecideKeepsGoing DEF Accept
<1>10. CASE AskRobots(k)
  BY <1>10, <1>a, FetchesUnchanged DEF AskRobots, Only, Eager, At, RunRecord
<1>11. CASE RobotsAnswered(k)
  BY <1>11, <1>d, DecideKeepsGoing DEF RobotsAnswered
<1>12. CASE EndScan(k)
  <2>1. CASE ComesBack(k)
    BY <1>12, <2>1, <1>a, RunEnds, FetchesUnchanged DEF EndScan, Eager, At, Fresh
  <2>2. CASE ~ComesBack(k)
    BY <1>12, <2>2, <1>a, <1>b, RunEnds, FetchesUnchanged
       DEF EndScan, ComesBack, Eager
  <2> QED
    BY <2>1, <2>2
<1> QED
  BY <1>1, <1>2, <1>3, <1>4, <1>5, <1>6, <1>7, <1>8, <1>9, <1>10, <1>11, <1>12
     DEF ChainStep

(* A fetch keeps its row from its first handler to its last.               *)
LEMMA FetchesKeepRows ==
  ASSUME Shape, NEW q \in Req, FetchStep(q), ~Finally(q)
  PROVE  /\ Fetching' = Fetching /\ UNCHANGED <<run, up, finished, limits>>
         /\ \A p \in Req : fetch'[p].row = fetch[p].row
         /\ \A p \in Req \ {q} : fetch'[p] = fetch[p]
<1> USE DEF process
<1>a. fetch \in [Req -> FetchRecord]
  BY DEF Shape, TypeOK
<1>b. ASSUME NEW phase, Proceed(q, phase), phase # "none", q \in Fetching
      PROVE  /\ Fetching' = Fetching
             /\ \A p \in Req : fetch'[p].row = fetch[p].row
             /\ \A p \in Req \ {q} : fetch'[p] = fetch[p]
  BY <1>a, <1>b DEF Proceed, Fetching, FetchRecord
<1>1. CASE Save(q)
  BY <1>1, <1>a DEF Save, Fetching, FetchRecord, In
<1>2. CASE SaveFails(q)
  BY <1>2, <1>b DEF SaveFails, Fetching, In
<1>3. CASE Enqueue(q)
  BY <1>3, <1>b DEF Enqueue, Fetching, In
<1>4. CASE Recrawled(q)
  BY <1>4, <1>b DEF Recrawled, Mark, Fetching, In
<1>5. CASE FetchFails(q)
  BY <1>5, <1>b DEF FetchFails, Mark, Fetching, In
<1>6. CASE Unlist(q)
  BY <1>6, <1>b DEF Unlist, Fetching, In
<1> QED
  BY <1>1, <1>2, <1>3, <1>4, <1>5, <1>6 DEF FetchStep

LEMMA StepGoesOn ==
  ASSUME Shape, SomeoneWillGoOn, [Next]_vars
  PROVE  SomeoneWillGoOn'
<1> USE DEF SomeoneWillGoOn
<1>1. ASSUME NEW k \in Chain, ChainStep(k)
      PROVE  SomeoneWillGoOn'
  <2>1. \A j \in Chain \ {k} : Eager(j) => Eager(j)'
    BY <1>1, RunsKeepGoing DEF Only, Eager, At
  <2> QED
    BY <1>1, <2>1, RunsKeepGoing
<1>2. ASSUME NEW q \in Req, FetchStep(q), ~Finally(q)
      PROVE  SomeoneWillGoOn'
  BY <1>2, FetchesKeepRows DEF Eager, At
<1>3. ASSUME NEW q \in Req, Finally(q)
      PROVE  SomeoneWillGoOn'
  <2>1. PICK k \in Chain : At(k, "off") /\ Go(k, "scheduled")
    BY <1>3 DEF Finally
  <2>2. run[k] = Fresh("off") /\ run'[k] = [run[k] EXCEPT !.pc = "scheduled"]
    BY <2>1, RunGoesOn DEF At, Shape, TypeOK, RunShape, RunOK, Places
  <2>3. Eager(k)'
    BY <2>2 DEF Eager, At, Fresh
  <2> QED
    BY <2>3
<1>4. CASE Boot
  <2>1. PICK k \in Chain : Go(k, "scheduled")
    BY <1>4 DEF Boot
  <2>2. run[k] = Fresh("off") /\ run'[k] = [run[k] EXCEPT !.pc = "scheduled"]
    BY <1>4, <2>1, RunGoesOn DEF Boot, DownIsIdle, At, Shape, TypeOK, RunShape, RunOK, Places
  <2>3. Eager(k)'
    BY <2>2 DEF Eager, At, Fresh
  <2> QED
    BY <2>3
<1>5. CASE Crash
  BY <1>5 DEF Crash
<1>6. CASE Stats \/ ClearProcessed \/ DiskCheck \/ MinIdAnswered \/ UNCHANGED vars
  BY <1>6 DEF Stats, ClearProcessed, DiskCheck, MinIdAnswered, vars, process, Fetching, Eager, At
<1> QED
  BY <1>1, <1>2, <1>3, <1>4, <1>5, <1>6 DEF Next

-----------------------------------------------------------------------------
(* A fetch begins only below the limit its run saw, and raises the count   *)
(* of a domain that then has a fetch in flight; the end of a fetch lowers  *)
(* the count, whatever it is, below the limit.                             *)
LEMMA DecideRoom ==
  ASSUME Shape, RoomIsBounded, NEW k \in Chain, NEW inflight \in Nat, NEW known,
         inflight < DOMAIN_LIMIT, Decide(k, inflight, known),
         run[k].item \in Row, DomainOf[run[k].item.url] \in Domain
  PROVE  RoomIsBounded'
<1> USE DEF RoomIsBounded, IdleDomainHasRoom
<1>1. CASE Launch(k, inflight)
  <2> DEFINE item == run[k].item
  <2>0. PICK d0 \in Domain : d0 = DomainOf[item.url]
    OBVIOUS
  <2>1. PICK q \in Req \ Fetching :
          fetch' = [fetch EXCEPT ![q] = [phase |-> "fetching", row |-> item,
                                         finalUrl |-> Nobody]]
    BY <1>1 DEF Launch
  <2>2. Fetching' = Fetching \cup {q}
    BY <2>1, FetchBegins
  <2>3. q \in InFlight(d0)'
    BY <2>0, <2>1, <2>2 DEF InFlight, Shape, TypeOK
  <2>4. \A d \in Domain : InFlight(d) \subseteq InFlight(d)'
    BY <2>1, <2>2 DEF InFlight, Fetching, Shape, TypeOK
  <2>5. domainInflight' = [domainInflight EXCEPT ![d0] = inflight + 1]
    BY <1>1, <2>0 DEF Launch
  <2>6. inflight + 1 <= DOMAIN_LIMIT
    BY LoopAssumption
  <2> QED
    BY <2>3, <2>4, <2>5, <2>6 DEF Shape, TypeOK
<1>2. CASE UNCHANGED <<limits, fetch>>
  BY <1>2 DEF limits, InFlight, Fetching
<1> QED
  BY <1>1, <1>2 DEF Decide

LEMMA StepRoom ==
  ASSUME Shape, RoomIsBounded, [Next]_vars
  PROVE  RoomIsBounded'
<1> USE DEF RoomIsBounded, IdleDomainHasRoom
<1>a. ASSUME UNCHANGED <<limits, fetch>>
      PROVE  RoomIsBounded'
  BY <1>a DEF limits, InFlight, Fetching
<1>1. ASSUME NEW k \in Chain, Accept(k)
      PROVE  RoomIsBounded'
  <2>1. run[k].item \in Row
    BY <1>1 DEF Accept, At, Shape, RunShape, RunOK
  <2>2. DomainOf[run[k].item.url] \in Domain
    BY <1>1, <2>1, LoopAssumption DEF Accept, GivenUp, Row
  <2> QED
    BY <1>1, <2>1, <2>2, DecideRoom DEF Accept, HasRoom, Shape, TypeOK
<1>2. ASSUME NEW k \in Chain, RobotsAnswered(k)
      PROVE  RoomIsBounded'
  BY <1>2, DecideRoom
     DEF RobotsAnswered, At, Shape, RunShape, RunOK, RunRecord
<1>3. ASSUME NEW k \in Chain, ChainStep(k), ~Accept(k), ~RobotsAnswered(k)
      PROVE  RoomIsBounded'
  <2>1. UNCHANGED <<limits, fetch>>
    BY <1>3 DEF ChainStep, Start, Enter, GotRows, GotNothing, Recrawl, Reseed, Pick,
                Drop, Reject, AskRobots, EndScan
  <2> QED
    BY <2>1, <1>a
<1>4. ASSUME NEW q \in Req, FetchStep(q), ~Finally(q)
      PROVE  RoomIsBounded'
  BY <1>4, FetchesKeepRows DEF limits, InFlight, Fetching
<1>5. ASSUME NEW q \in Req, Finally(q)
      PROVE  RoomIsBounded'
  <2>0. q \in Fetching /\ DomainOf[fetch[q].row.url] \in Domain
    BY <1>5 DEF Finally, In, Fetching, Shape, FetchShape, FetchOK
  <2>1. PICK d0 \in Domain : d0 = DomainOf[fetch[q].row.url]
    BY <2>0
  <2>2. domainInflight' = [domainInflight EXCEPT ![d0] = Released(@)]
    BY <1>5, <2>1 DEF Finally
  <2>3. domainInflight'[d0] \in Nat /\ domainInflight'[d0] < DOMAIN_LIMIT
    <3>1. domainInflight \in [Domain -> Nat] /\ domainInflight[d0] <= DOMAIN_LIMIT
      BY <2>1 DEF Shape, TypeOK
    <3>2. domainInflight'[d0] = Released(domainInflight[d0])
      BY <2>2, <3>1
    <3> QED
      BY <3>1, <3>2, LoopAssumption DEF Released
  <2>4. Fetching' = Fetching \ {q} /\ \A p \in Req \ {q} : fetch'[p] = fetch[p]
    BY <1>5, <2>0, FetchEnds DEF Finally, Shape, TypeOK
  <2>5. \A d \in Domain \ {d0} : /\ InFlight(d)' = InFlight(d)
                                 /\ domainInflight'[d] = domainInflight[d]
    BY <2>1, <2>2, <2>4 DEF InFlight, Fetching, Shape, TypeOK
  <2>6. \A d \in Domain : /\ domainInflight'[d] <= DOMAIN_LIMIT
                          /\ InFlight(d)' = {} => domainInflight'[d] < DOMAIN_LIMIT
    <3> TAKE d \in Domain
    <3>1. CASE d = d0
      BY <2>3, <3>1, LoopAssumption
    <3>2. CASE d # d0
      BY <2>5, <3>2
    <3> QED
      BY <3>1, <3>2
  <2> QED
    BY <2>6
<1>6. CASE Crash
  BY <1>6, LoopAssumption DEF Crash, NoCount
<1>7. CASE Stats \/ ClearProcessed \/ DiskCheck \/ MinIdAnswered \/ Boot \/ UNCHANGED vars
  BY <1>7, <1>a DEF Stats, ClearProcessed, DiskCheck, MinIdAnswered, Boot, vars
<1> QED
  BY <1>1, <1>2, <1>3, <1>4, <1>5, <1>6, <1>7 DEF Next

-----------------------------------------------------------------------------
(* What leaves the frontier, and what is visited for good.                 *)
Reason(url) == url \in UrlsOf(frontier') \cup visited' \/ GivenUp(url)

LEMMA GrowingLosesNothing ==
  ASSUME frontier \subseteq frontier'
  PROVE  \A r \in frontier : Reason(r.url)
BY DEF Reason, UrlsOf

LEMMA RowsLeaveForAReason ==
  ASSUME Shape, BatchesKept, FetchesKept, Next
  PROVE  \A r \in frontier :
           Reason(r.url) \/ (~up /\ Cardinality(frontier) > FRONTIER_MAX)
<1> USE DEF queue, tables
<1>1. ASSUME NEW k \in Chain, Drop(k)
      PROVE  \A r \in frontier : Reason(r.url)
  <2>1. run[k].item.url \in visited \/ GivenUp(run[k].item.url)
    BY <1>1 DEF Drop, BatchesKept, RunKept
  <2> QED
    BY <1>1, <2>1 DEF Drop, Delete, Without, Reason, UrlsOf
<1>2. ASSUME NEW k \in Chain, Recrawl(k) \/ Reseed(k)
      PROVE  \A r \in frontier : Reason(r.url)
  <2>1. frontier \subseteq frontier'
    BY <1>2 DEF Recrawl, Reseed, SeedBatch, Insert
  <2> QED
    BY <2>1, GrowingLosesNothing
<1>3. ASSUME NEW k \in Chain, ChainStep(k), ~Drop(k), ~Recrawl(k), ~Reseed(k)
      PROVE  frontier' = frontier
  BY <1>3 DEF ChainStep, Start, Enter, GotRows, GotNothing, Pick, Reject, Accept,
              AskRobots, RobotsAnswered, EndScan
<1>4. ASSUME NEW q \in Req, Save(q)
      PROVE  \A r \in frontier : Reason(r.url)
  BY <1>4 DEF Save, SaveNode, Without, Reason, UrlsOf
<1>5. ASSUME NEW q \in Req, Unlist(q)
      PROVE  \A r \in frontier : Reason(r.url)
  <2>1. fetch[q].row.url \in visited
    BY <1>5 DEF Unlist, In, Fetching, FetchesKept, FetchKept
  <2> QED
    BY <1>5, <2>1 DEF Unlist, Delete, Without, Reason, UrlsOf
<1>6. ASSUME NEW q \in Req, Enqueue(q)
      PROVE  \A r \in frontier : Reason(r.url)
  <2>1. frontier \subseteq frontier'
    BY <1>6 DEF Enqueue, Insert
  <2> QED
    BY <2>1, GrowingLosesNothing
<1>7. ASSUME NEW q \in Req, FetchStep(q), ~Save(q), ~Unlist(q), ~Enqueue(q)
      PROVE  frontier' = frontier
  BY <1>7 DEF FetchStep, SaveFails, Recrawled, FetchFails, Finally
<1>8. CASE Stats
  <2>1. frontier \subseteq frontier'
    BY <1>8 DEF Stats, SeedBatch, Insert
  <2> QED
    BY <2>1, GrowingLosesNothing
<1>9. CASE ClearProcessed
  BY <1>9 DEF ClearProcessed, Unprocessed, Without, Reason, UrlsOf
<1>10. CASE Boot
  <2>1. Cleaned \subseteq frontier' /\ ~up /\ visited' = visited
    BY <1>10 DEF Boot, Insert
  <2>2. CASE Cardinality(frontier) <= FRONTIER_MAX
    BY <2>1, <2>2 DEF Cleaned, Unprocessed, Without, Reason, UrlsOf
  <2>3. CASE ~(Cardinality(frontier) <= FRONTIER_MAX)
    BY <2>1, <2>3, TableSizes, LoopAssumption
  <2> QED
    BY <2>2, <2>3
<1>11. CASE DiskCheck \/ MinIdAnswered \/ Crash
  BY <1>11, GrowingLosesNothing DEF DiskCheck, MinIdAnswered, Crash
<1> QED
  BY <1>1, <1>2, <1>3, <1>4, <1>5, <1>6, <1>7, <1>8, <1>9, <1>10, <1>11,
     GrowingLosesNothing DEF Next

LEMMA OnlyGrow ==
  ASSUME Next
  PROVE  /\ visited \subseteq visited'
         /\ up /\ up' => domainBlacklist \subseteq domainBlacklist'
<1> USE DEF tables, queue, memory, health, robots
<1>1. ASSUME NEW k \in Chain, ChainStep(k)
      PROVE  visited \subseteq visited' /\ UNCHANGED domainBlacklist
  BY <1>1 DEF ChainStep, Start, Enter, GotRows, GotNothing, Recrawl, Reseed, Pick, Drop,
              Reject, Accept, AskRobots, RobotsAnswered, EndScan, Decide, Launch,
              MarkVisited
<1>2. ASSUME NEW q \in Req, FetchStep(q)
      PROVE  visited \subseteq visited' /\ domainBlacklist \subseteq domainBlacklist'
  BY <1>2 DEF FetchStep, Save, SaveFails, Enqueue, Recrawled, FetchFails, Unlist, Finally,
              SaveNode, Mark, MarkVisited, RecordFail
<1>3. CASE Stats \/ ClearProcessed \/ DiskCheck \/ MinIdAnswered \/ Crash \/ Boot
  BY <1>3 DEF Stats, ClearProcessed, DiskCheck, MinIdAnswered, Crash, Boot
<1> QED
  BY <1>1, <1>2, <1>3 DEF Next

LEMMA KeptStays ==
  ASSUME Shape, BatchesKept, FetchesKept, Next, up, up', NEW u, Kept(u)
  PROVE  Kept(u)'
<1>1. visited \subseteq visited' /\ (GivenUp(u) => GivenUp(u)')
  BY OnlyGrow DEF GivenUp
<1>2. CASE \E r \in frontier : r.url = u
  BY <1>1, <1>2, RowsLeaveForAReason DEF Reason, Kept
<1>3. CASE u \in visited \/ GivenUp(u)
  BY <1>1, <1>3 DEF Kept
<1> QED
  BY <1>2, <1>3 DEF Kept, UrlsOf

LEMMA DecideKept ==
  ASSUME Shape, BatchesKept, FetchesKept, NEW k \in Chain, NEW inflight, NEW known,
         Decide(k, inflight, known), run[k].pc \in {"judge", "robots"},
         run[k].item \in Row,
         \A u : Kept(u) => Kept(u)', visited \subseteq visited'
  PROVE  RunKept(k)' /\ FetchesKept'
<1>a. \A r \in run[k].batch : Kept(r.url)
  BY DEF BatchesKept, RunKept
<1>b. Kept(run[k].item.url)
  BY DEF BatchesKept, RunKept
<1>1. CASE Launch(k, inflight)
  <2>1. PICK q \in Req \ Fetching :
          fetch' = [fetch EXCEPT ![q] = [phase |-> "fetching", row |-> run[k].item,
                                         finalUrl |-> Nobody]]
    BY <1>1 DEF Launch
  <2>2. Fetching' \subseteq Fetching \cup {q}
    BY <2>1 DEF Fetching, Shape, TypeOK
  <2>3. FetchKept(q)'
    BY <2>1, <1>b DEF FetchKept, In, Shape, TypeOK
  <2>4. \A p \in Fetching : FetchKept(p)'
    BY <2>1 DEF FetchesKept, FetchKept, In, Fetching, Shape, TypeOK
  <2>5. run'[k].pc = "scan" /\ run'[k].batch = run[k].batch
    BY <1>1 DEF Launch, Shape, TypeOK, RunRecord
  <2> QED
    BY <2>2, <2>3, <2>4, <2>5, <1>a DEF FetchesKept, RunKept, At
<1>2. CASE /\ MarkVisited(run[k].item.url)
           /\ run' = [run EXCEPT ![k].pc = "drop", ![k].held = 0]
           /\ UNCHANGED <<limits, fetch>>
  <2>1. FetchesKept'
    BY <1>2 DEF FetchesKept, FetchKept, In, Fetching
  <2>2. /\ run'[k].pc = "drop" /\ run'[k].batch = run[k].batch
        /\ run'[k].item = run[k].item
    BY <1>2 DEF Shape, TypeOK, RunRecord
  <2> QED
    <3>1. run'[k].item.url \in visited'
      BY <1>2, <2>2 DEF MarkVisited
    <3>2. \A r \in run'[k].batch : Kept(r.url)'
      BY <2>2, <1>a
    <3> QED
      BY <2>1, <2>2, <3>1, <3>2 DEF RunKept, At
<1> QED
  BY <1>1, <1>2 DEF Decide

LEMMA RunStepKept ==
  ASSUME Shape, BatchesKept, FetchesKept, NEW k \in Chain, ChainStep(k)
  PROVE  BatchesKept' /\ FetchesKept'
<1> USE DEF tables, queue, memory, process
<1>a. run \in [Chain -> RunRecord] /\ RunShape /\ up /\ up' /\ Only(k)
  BY RunsKeepGoing
     DEF Shape, TypeOK, ChainStep, Start, Enter, GotRows, GotNothing, Recrawl, Reseed,
         Pick, Drop, Reject, Accept, AskRobots, RobotsAnswered, EndScan, Free, Continues
<1>b. (\A u : Kept(u) => Kept(u)') /\ visited \subseteq visited'
  BY <1>a, KeptStays, OnlyGrow DEF Next
<1>c. \A u : GivenUp(u) => GivenUp(u)'
  BY <1>a, OnlyGrow DEF Next, GivenUp
<1>d. \A j \in Chain \ {k} : RunKept(j)'
  BY <1>a, <1>b, <1>c DEF Only, BatchesKept, RunKept, At
<1>e. RunKept(k)
  BY DEF BatchesKept
<1>f. \A place \in {"off", "scheduled"} : Leave(k, place) => RunKept(k)'
  BY <1>a, RunEnds DEF RunKept, At, Fresh
<1>1. ASSUME Accept(k) \/ RobotsAnswered(k)
      PROVE  BatchesKept' /\ FetchesKept'
  <2>1. run[k].pc \in {"judge", "robots"} /\ run[k].item \in Row
    BY <1>1, <1>a DEF Accept, RobotsAnswered, At, RunShape, RunOK
  <2>2. RunKept(k)' /\ FetchesKept'
    BY <1>1, <1>b, <2>1, DecideKept DEF Accept, RobotsAnswered
  <2> QED
    BY <1>d, <2>2 DEF BatchesKept
<1>2. ASSUME ~Accept(k), ~RobotsAnswered(k)
      PROVE  FetchesKept'
  <2>1. UNCHANGED fetch
    BY <1>2 DEF ChainStep, Start, Enter, GotRows, GotNothing, Recrawl, Reseed, Pick, Drop,
                Reject, AskRobots, EndScan
  <2> QED
    BY <2>1, <1>b DEF FetchesKept, FetchKept, In, Fetching
<1>3. ASSUME Enter(k)
      PROVE  RunKept(k)'
  <2>1. CASE run' = [run EXCEPT ![k].pc = "query", ![k].batch = NextBatch]
    <3>1. run'[k].pc = "query" /\ run'[k].batch \subseteq frontier /\ frontier' = frontier
      BY <1>3, <2>1, <1>a DEF Enter, NextBatch, RunRecord
    <3> QED
      BY <3>1 DEF RunKept, At, Kept, UrlsOf
  <2> QED
    BY <1>3, <2>1, <1>f DEF Enter
<1>4. ASSUME Pick(k)
      PROVE  RunKept(k)'
  <2>1. PICK r \in run[k].batch :
          run' = [run EXCEPT ![k].pc = IF Known(r) THEN "drop" ELSE "judge",
                             ![k].item = r, ![k].batch = @ \ {r}]
    BY <1>4 DEF Pick
  <2>2. /\ run'[k].pc = IF Known(r) THEN "drop" ELSE "judge"
        /\ run'[k].item = r /\ run'[k].batch \subseteq run[k].batch
    BY <2>1, <1>a DEF RunRecord
  <2>3. Known(r) => r.url \in visited'
    BY <1>b DEF Known
  <2> QED
    BY <2>2, <2>3, <1>b, <1>e DEF RunKept, At
<1>5. ASSUME Reject(k)
      PROVE  RunKept(k)'
  <2>1. /\ run'[k].batch = run[k].batch
        /\ \/ run'[k].pc = "drop" /\ run'[k].item = run[k].item /\ GivenUp(run[k].item.url)
           \/ run'[k].pc = "scan"
    BY <1>5, <1>a DEF Reject, Go, RunRecord
  <2> QED
    BY <2>1, <1>b, <1>c, <1>e DEF RunKept, At
<1>6. ASSUME AskRobots(k)
      PROVE  RunKept(k)'
  <2>1. run'[k].batch = run[k].batch /\ run'[k].pc = "robots" /\ run'[k].item = run[k].item
    BY <1>6, <1>a DEF AskRobots, RunRecord
  <2> QED
    BY <1>6, <2>1, <1>b, <1>e DEF RunKept, At, AskRobots
<1>7. ASSUME \/ Start(k) \/ GotRows(k) \/ GotNothing(k) \/ Recrawl(k) \/ Reseed(k)
             \/ Drop(k) \/ EndScan(k)
      PROVE  RunKept(k)'
  <2>1. \/ Leave(k, "off") \/ Leave(k, "scheduled")
        \/ /\ run'[k].batch = run[k].batch
           /\ run'[k].pc \in {"yielded", "scan", "recrawl", "reseed"}
    BY <1>7, <1>a DEF Start, GotRows, GotNothing, Recrawl, Reseed, Drop, EndScan, Go,
                      RunRecord
  <2> QED
    BY <2>1, <1>b, <1>e, <1>f DEF RunKept, At
<1> QED
  BY <1>1, <1>2, <1>3, <1>4, <1>5, <1>6, <1>7, <1>d DEF ChainStep, BatchesKept

LEMMA FetchStepKept ==
  ASSUME Shape, BatchesKept, FetchesKept, NEW q \in Req, FetchStep(q)
  PROVE  BatchesKept' /\ FetchesKept'
<1> USE DEF process
<1>a. up /\ up' /\ q \in Fetching
  BY FetchIsOpen DEF process
<1>b. (\A u : Kept(u) => Kept(u)') /\ visited \subseteq visited'
  BY <1>a, KeptStays, OnlyGrow DEF Next
<1>c. \A u : GivenUp(u) => GivenUp(u)'
  BY <1>a, OnlyGrow DEF Next, GivenUp
<1>d. \A k \in Chain : UNCHANGED run[k] => RunKept(k)'
  BY <1>b, <1>c DEF BatchesKept, RunKept, At
<1>1. CASE Finally(q)
  <2>1. PICK k \in Chain : At(k, "off") /\ Go(k, "scheduled")
    BY <1>1 DEF Finally
  <2>2. run[k] = Fresh("off") /\ Only(k) /\ run'[k] = [run[k] EXCEPT !.pc = "scheduled"]
    BY <2>1, RunGoesOn DEF At, Shape, TypeOK, RunShape, RunOK, Places
  <2>3. RunKept(k)'
    BY <2>2 DEF RunKept, At, Fresh
  <2>4. Fetching' = Fetching \ {q} /\ \A p \in Req \ {q} : fetch'[p] = fetch[p]
    BY <1>1, <1>a, FetchEnds DEF Finally, Shape, TypeOK
  <2>5. FetchesKept'
    BY <2>4, <1>b DEF FetchesKept, FetchKept, In, Fetching
  <2> QED
    BY <2>2, <2>3, <2>5, <1>d DEF BatchesKept, Only
<1>2. CASE ~Finally(q)
  <2>1. /\ Fetching' = Fetching /\ UNCHANGED run
        /\ \A p \in Req : fetch'[p].row = fetch[p].row
        /\ \A p \in Req \ {q} : fetch'[p] = fetch[p]
    BY <1>2, FetchesKeepRows
  <2>2. In(q, "marked")' => fetch[q].row.url \in visited'
    <3>1. CASE Save(q)
      BY <3>1 DEF Save, In, Shape, TypeOK, FetchRecord
    <3>2. CASE SaveFails(q) \/ Enqueue(q) \/ Unlist(q)
      <4>1. Proceed(q, "settled")
        BY <3>2 DEF SaveFails, Enqueue, Unlist
      <4> QED
        BY <4>1 DEF Proceed, In, Shape, TypeOK, FetchRecord
    <3>3. CASE Mark(q)
      BY <3>3 DEF Mark, MarkVisited, Proceed, In, Shape, TypeOK, FetchRecord
    <3> QED
      BY <1>2, <3>1, <3>2, <3>3 DEF FetchStep, Recrawled, FetchFails
  <2>3. FetchKept(q)'
    BY <2>1, <2>2, <1>a, <1>b DEF FetchesKept, FetchKept
  <2>4. \A p \in Fetching \ {q} : FetchKept(p)'
    BY <2>1, <1>b DEF FetchesKept, FetchKept, In, Fetching
  <2> QED
    BY <2>1, <2>3, <2>4, <1>d DEF FetchesKept, BatchesKept
<1> QED
  BY <1>1, <1>2

LEMMA WorldKept ==
  ASSUME Shape, BatchesKept, FetchesKept,
         Stats \/ ClearProcessed \/ DiskCheck \/ MinIdAnswered \/ Crash \/ Boot \/ UNCHANGED vars
  PROVE  BatchesKept' /\ FetchesKept'
<1> USE DEF process
<1>1. CASE (Stats \/ ClearProcessed \/ DiskCheck \/ MinIdAnswered) /\ up
  <2>1. UNCHANGED <<run, fetch, up>>
    BY <1>1 DEF Stats, ClearProcessed, DiskCheck, MinIdAnswered
  <2>2. (\A u : Kept(u) => Kept(u)') /\ visited \subseteq visited'
    BY <1>1, <2>1, KeptStays, OnlyGrow DEF Next
  <2>3. \A u : GivenUp(u) => GivenUp(u)'
    BY <1>1, <2>1, OnlyGrow DEF Next, GivenUp
  <2> QED
    BY <2>1, <2>2, <2>3
       DEF BatchesKept, RunKept, At, FetchesKept, FetchKept, In, Fetching
<1>2. CASE Crash
  <2>1. run' = [k \in Chain |-> Fresh("off")] /\ fetch' = [q \in Req |-> NoFetch]
    BY <1>2 DEF Crash
  <2> QED
    BY <2>1 DEF BatchesKept, RunKept, At, Fresh, FetchesKept, Fetching, NoFetch
<1>3. CASE Boot
  <2>1. \A k \in Chain : run[k] = Fresh("off")
    BY <1>3 DEF Boot, Shape, DownIsIdle, RunShape, RunOK, At
  <2>2. \A k \in Chain : run'[k].batch = {} /\ run'[k].pc \in {"off", "scheduled"}
    BY <1>3, <2>1 DEF Boot, Go, Fresh, Shape, TypeOK
  <2>3. Fetching' = {}
    BY <1>3 DEF Boot, Shape, DownIsIdle, Fetching
  <2> QED
    BY <2>2, <2>3 DEF BatchesKept, RunKept, At, FetchesKept
<1>4. CASE UNCHANGED vars
  BY <1>4 DEF vars, tables, memory, health, BatchesKept, RunKept, At, FetchesKept, FetchKept,
              In, Fetching, Kept, UrlsOf, GivenUp
<1> QED
  BY <1>1, <1>2, <1>3, <1>4 DEF Stats, ClearProcessed, DiskCheck, MinIdAnswered, Free

LEMMA StepVisited ==
  ASSUME NodesAreVisited, [Next]_vars
  PROVE  NodesAreVisited'
<1> USE DEF NodesAreVisited, tables, queue
<1>1. ASSUME NEW k \in Chain, ChainStep(k)
      PROVE  UNCHANGED nodes
  BY <1>1 DEF ChainStep, Start, Enter, GotRows, GotNothing, Recrawl, Reseed, Pick, Drop,
              Reject, Accept, AskRobots, RobotsAnswered, EndScan
<1>2. ASSUME NEW q \in Req, Save(q)
      PROVE  NodesAreVisited'
  BY <1>2 DEF Save, SaveNode
<1>3. ASSUME NEW q \in Req, FetchStep(q), ~Save(q)
      PROVE  UNCHANGED nodes
  BY <1>3 DEF FetchStep, SaveFails, Enqueue, Recrawled, FetchFails, Unlist, Finally
<1>4. CASE Stats \/ ClearProcessed \/ DiskCheck \/ MinIdAnswered \/ Crash \/ Boot
  BY <1>4 DEF Stats, ClearProcessed, DiskCheck, MinIdAnswered, Crash, Boot
<1> QED
  BY <1>1, <1>2, <1>3, <1>4, OnlyGrow DEF Next, vars

-----------------------------------------------------------------------------
(* Runs past their look at active: how their number follows the runs.      *)
LEMMA ClaimsAreFew ==
  /\ IsFiniteSet(Claims) /\ Cardinality(Claims) \in Nat
  /\ Cardinality(Claims) <= Cardinality(Chain) /\ Cardinality(Chain) \in Nat
BY LoopAssumption, FS_Subset, FS_CardinalityType DEF Claims

LEMMA ClaimsGivenUp ==
  ASSUME OvershootBounded, active \in Nat, active' \in Nat, active' <= active,
         Claims' \subseteq Claims
  PROVE  OvershootBounded'
<1>1. Cardinality(Claims') <= Cardinality(Claims) /\ Cardinality(Claims') \in Nat
  BY ClaimsAreFew, FS_Subset, FS_CardinalityType
<1> QED
  BY <1>1, ClaimsAreFew, LoopAssumption DEF OvershootBounded

(* A run that launches its row turns its claim into a fetch.               *)
LEMMA LaunchOvershoot ==
  ASSUME OvershootBounded, active \in Nat, NEW k \in Claims, run \in [Chain -> RunRecord],
         NEW inflight, Launch(k, inflight)
  PROVE  OvershootBounded'
<1>1. Claims' = Claims \ {k}
  BY DEF Claims, At, Launch
<1>2. Cardinality(Claims') = Cardinality(Claims) - 1
  BY <1>1, ClaimsAreFew, FS_RemoveElement
<1>3. active' = active + 1
  BY DEF Launch
<1> QED
  BY <1>2, <1>3, ClaimsAreFew, LoopAssumption DEF OvershootBounded

LEMMA DecideOvershoot ==
  ASSUME OvershootBounded, active \in Nat, NEW k \in Claims, run \in [Chain -> RunRecord],
         NEW inflight, NEW known, Decide(k, inflight, known)
  PROVE  OvershootBounded'
<1>1. CASE Launch(k, inflight)
  BY <1>1, LaunchOvershoot
<1>2. CASE run' = [run EXCEPT ![k].pc = "drop", ![k].held = 0] /\ UNCHANGED limits
  <2>1. Claims' \subseteq Claims
    BY <1>2 DEF Claims, At
  <2> QED
    BY <1>2, <2>1, ClaimsGivenUp DEF limits
<1> QED
  BY <1>1, <1>2 DEF Decide

(* Any other step of a run keeps the counters, and at most a claim it had. *)
LEMMA KeepsLimits ==
  ASSUME OvershootBounded, active \in Nat, UNCHANGED limits, NEW k \in Chain,
         \A j \in Chain \ {k} : run'[j] = run[j],
         run'[k].pc \in {"judge", "robots"} => k \in Claims
  PROVE  OvershootBounded'
<1>1. Claims' \subseteq Claims
  BY DEF Claims, At
<1> QED
  BY <1>1, ClaimsGivenUp DEF limits

LEMMA RunStepOvershoot ==
  ASSUME TypeOK, OvershootBounded, NEW k \in Chain, ChainStep(k)
  PROVE  OvershootBounded'
<1>a. run \in [Chain -> RunRecord] /\ active \in Nat
  BY DEF TypeOK
<1>1. CASE Pick(k)
  <2>1. active < CONCURRENCY /\ active' = active
    BY <1>1 DEF Pick, SlotFree, limits
  <2>2. Claims' \subseteq Chain
    BY DEF Claims
  <2>3. Cardinality(Claims') <= Cardinality(Chain) /\ Cardinality(Claims') \in Nat
    BY <2>2, LoopAssumption, FS_Subset, FS_CardinalityType
  <2> QED
    BY <1>a, <2>1, <2>3, ClaimsAreFew, LoopAssumption DEF OvershootBounded
<1>2. CASE Accept(k)
  BY <1>2, <1>a, DecideOvershoot DEF Accept, Claims
<1>3. CASE RobotsAnswered(k)
  BY <1>3, <1>a, DecideOvershoot DEF RobotsAnswered, Claims
<1>4. CASE AskRobots(k)
  BY <1>4, <1>a, KeepsLimits DEF AskRobots, Claims
<1>5. CASE Start(k) \/ Enter(k) \/ GotRows(k) \/ GotNothing(k)
  <2>1. /\ \A j \in Chain \ {k} : run'[j] = run[j]
        /\ run'[k].pc \notin {"judge", "robots"}
    BY <1>5, <1>a DEF Start, Enter, GotRows, GotNothing, Go, Leave, Fresh, RunRecord
  <2>2. UNCHANGED limits
    BY <1>5 DEF Start, Enter, GotRows, GotNothing
  <2> QED
    BY <1>a, <2>1, <2>2, KeepsLimits
<1>6. CASE Recrawl(k) \/ Reseed(k) \/ Drop(k) \/ Reject(k) \/ EndScan(k)
  <2>1. /\ \A j \in Chain \ {k} : run'[j] = run[j]
        /\ run'[k].pc \notin {"judge", "robots"}
    BY <1>6, <1>a DEF Recrawl, Reseed, Drop, Reject, EndScan, Go, Leave, Fresh, RunRecord
  <2>2. UNCHANGED limits
    BY <1>6 DEF Recrawl, Reseed, Drop, Reject, EndScan
  <2> QED
    BY <1>a, <2>1, <2>2, KeepsLimits
<1> QED
  BY <1>1, <1>2, <1>3, <1>4, <1>5, <1>6 DEF ChainStep

LEMMA StepOvershoot ==
  ASSUME Shape, Shape', OvershootBounded, [Next]_vars
  PROVE  OvershootBounded'
<1>a. TypeOK /\ run \in [Chain -> RunRecord] /\ active \in Nat /\ active' \in Nat
  BY DEF Shape, TypeOK
<1>1. ASSUME NEW k \in Chain, ChainStep(k)
      PROVE  OvershootBounded'
  BY <1>1, <1>a, RunStepOvershoot
<1>2. ASSUME NEW q \in Req, Finally(q)
      PROVE  OvershootBounded'
  <2>1. active' <= active
    BY <1>2, <1>a DEF Finally
  <2>2. Claims' \subseteq Claims
    BY <1>2, <1>a DEF Finally, Go, Claims, At
  <2> QED
    BY <1>a, <2>1, <2>2, ClaimsGivenUp
<1>3. ASSUME UNCHANGED <<run, active>>
      PROVE  OvershootBounded'
  BY <1>3 DEF OvershootBounded, Claims, At
<1>4. ASSUME NEW q \in Req, FetchStep(q), ~Finally(q)
      PROVE  OvershootBounded'
  BY <1>3, <1>4
     DEF FetchStep, Save, SaveFails, Enqueue, Recrawled, FetchFails, Unlist, limits
<1>5. CASE Stats \/ ClearProcessed \/ DiskCheck \/ MinIdAnswered \/ UNCHANGED vars
  BY <1>3, <1>5 DEF Stats, ClearProcessed, DiskCheck, MinIdAnswered, vars, limits
<1>6. CASE Crash
  <2>1. Claims' \subseteq Claims /\ active' = 0
    BY <1>6 DEF Crash, Claims, At, Fresh
  <2> QED
    BY <1>a, <2>1, ClaimsGivenUp
<1>7. CASE Boot
  <2>1. Claims' \subseteq Claims /\ active' = active
    BY <1>7, <1>a DEF Boot, limits, Go, Claims, At
  <2> QED
    BY <1>a, <2>1, ClaimsGivenUp
<1> QED
  BY <1>1, <1>2, <1>4, <1>5, <1>6, <1>7 DEF Next

-----------------------------------------------------------------------------
LEMMA InitInv == Init => Inv
<1> SUFFICES ASSUME Init PROVE Inv
  OBVIOUS
<1>1. Fetching = {}
  BY DEF Init, Fetching, NoFetch
<1>2. SomeoneWillGoOn /\ RoomIsBounded /\ NodesAreVisited
  BY LoopAssumption
     DEF Init, StoreInit, SomeoneWillGoOn, RoomIsBounded, IdleDomainHasRoom, NoCount,
         NodesAreVisited
<1>3. BatchesKept /\ FetchesKept
  BY <1>1 DEF Init, BatchesKept, RunKept, At, Fresh, FetchesKept
<1>4. OvershootBounded
  <2>1. Claims = {} /\ active = 0
    BY DEF Init, Claims, At, Fresh
  <2> QED
    BY <2>1, ClaimsAreFew, FS_EmptySet, LoopAssumption DEF OvershootBounded
<1> QED
  BY <1>2, <1>3, <1>4, InitShape DEF Inv

LEMMA StepInv == Inv /\ [Next]_vars => Inv'
<1> SUFFICES ASSUME Inv, [Next]_vars PROVE Inv'
  OBVIOUS
<1>1. BatchesKept' /\ FetchesKept'
  BY RunStepKept, FetchStepKept, WorldKept DEF Inv, Next
<1> QED
  BY <1>1, StepShape, StepGoesOn, StepRoom, StepVisited, StepOvershoot DEF Inv

LEMMA Invariant == Spec => []Inv
BY InitInv, StepInv, PTL DEF Spec

(* The crawl never runs dry (queue.ts lines 192, 301 to 308): whenever no  *)
(* run of processNext is left, a fetch is in flight that will start one.   *)
THEOREM CrawlNeverStalls == Spec => []NeverStalls
<1>1. Inv => NeverStalls
  BY DEF Inv, SomeoneWillGoOn, Eager, NeverStalls
<1> QED
  BY <1>1, Invariant, PTL

(* The lost update of domainInflight (queue.ts lines 237, 259) never shuts *)
(* a domain out: without a fetch in flight it is below its limit.          *)
THEOREM IdleDomainsHaveRoom == Spec => []IdleDomainHasRoom
<1>1. Inv => IdleDomainHasRoom
  BY DEF Inv, RoomIsBounded
<1> QED
  BY <1>1, Invariant, PTL

(* CONCURRENCY is overshot by one fetch less than there are runs, however  *)
(* long each waits between its look at active and its fetch (queue.ts 222).*)
THEOREM OvershootIsBounded == Spec => []OvershootBounded
<1>1. Inv => OvershootBounded
  BY DEF Inv
<1> QED
  BY <1>1, Invariant, PTL

(* active, which every path from the start of a fetch to its end has to    *)
(* keep (queue.ts 257, 300), does not drift: it is the number of fetches   *)
(* in flight, after any failure and crash; so these are bounded as it is.  *)
(* domainInflight, whose updates can be lost (237, 259), is never above    *)
(* its limit, whatever is in flight.                                       *)
THEOREM CountersDoNotDrift ==
  Spec => [](/\ active = Cardinality(Fetching)
             /\ \A d \in Domain : domainInflight[d] <= DOMAIN_LIMIT)
<1>1. Inv => /\ active = Cardinality(Fetching)
             /\ \A d \in Domain : domainInflight[d] <= DOMAIN_LIMIT
  BY DEF Inv, Shape, ActiveCounts, RoomIsBounded
<1> QED
  BY <1>1, Invariant, PTL

(* Every saved page is visited, whatever redirected to it (db.ts 81).      *)
THEOREM SavedPagesAreVisited == Spec => []NodesAreVisited
<1>1. Inv => NodesAreVisited
  BY DEF Inv
<1> QED
  BY <1>1, Invariant, PTL

(* A crash at any moment loses no url: those in hand are in the tables.    *)
THEOREM WorkInHandSurvives == Spec => []WorkSurvivesCrash
<1>1. Inv => WorkSurvivesCrash
  BY DEF Inv, WorkSurvivesCrash, InHand, BatchesKept, RunKept, FetchesKept, FetchKept, At
<1> QED
  BY <1>1, Invariant, PTL

(* A row leaves the frontier only for a reason: its url is visited, or its *)
(* domain given up, or a restart found the frontier too large.             *)
THEOREM NoUrlIsLost == Spec => NothingLost
<1>1. Inv /\ [Next]_vars =>
        [\A r \in frontier :
           r.url \in UrlsOf(frontier') \cup visited'
             \/ GivenUp(r.url)
             \/ (~up /\ Cardinality(frontier) > FRONTIER_MAX)]_vars
  BY RowsLeaveForAReason DEF Inv, Reason
<1> QED
  BY <1>1, Invariant, PTL DEF Spec, NothingLost

-----------------------------------------------------------------------------
(* The full-text index covers the saved pages.                             *)
(*                                                                         *)
(* The argument: a page lacks its row for a reason that is noted, or the   *)
(* crawler is down and its index empty, so that the count of the next      *)
(* start (0, with a page saved) is below any share of the pages.           *)
Covered == \A u \in nodes : Copies(u) # {} \/ u \in missed \/ abandoned

EmptyWhileDown == ~up /\ nodes_fts = {}

IndexInv ==
  /\ Covered \/ EmptyWhileDown
  /\ emptied => EmptyWhileDown

LEMMA IndexedStepIsStep ==
  ASSUME [IndexNext]_<<vars, index>>
  PROVE  [Next]_vars
BY DEF IndexNext, SaveIndexed, DeleteIndex, CrashWhileStarting, BootIndexed, LoopStep, Next,
       FetchStep

(* With its index the loop does what it does without, a start included     *)
(* that is interrupted (queue.ts:111 to 120): what holds of CrawlLoop, and *)
(* all that is proved above, holds of the loop with its index.             *)
THEOREM IndexedLoopIsTheLoop == IndexSpec => Spec
<1>1. IndexInit => Init
  BY DEF IndexInit
<1> QED
  BY <1>1, IndexedStepIsStep, PTL DEF IndexSpec, Spec

(* An empty index of a crawl that has pages is always too small.           *)
LEMMA EmptyIsTooFew ==
  ASSUME TypeOK, nodes # {}, nodes_fts = {}
  PROVE  TooFew
<1>1. IsFiniteSet(nodes) /\ Cardinality(nodes) \in Nat /\ Cardinality(nodes) # 0
  BY StoreAssumption, FS_Subset, FS_CardinalityType, FS_EmptySet DEF TypeOK, StoreTypeOK
<1>2. Cardinality(nodes_fts) = 0
  BY FS_EmptySet
<1> QED
  BY <1>1, <1>2 DEF TooFew, ftsCount

(* A saved page gets its row, or the failure to add it is noted.           *)
LEMMA SaveKeepsCover ==
  ASSUME IndexInv, NEW q \in Req, SaveIndexed(q), fetch \in [Req -> FetchRecord]
  PROVE  IndexInv'
<1> DEFINE url == fetch'[q].finalUrl
<1>1. Covered /\ ~emptied /\ ~emptied'
  BY DEF SaveIndexed, Save, Free, IndexInv, EmptyWhileDown
<1>2. nodes' = nodes \cup {url} /\ InsertFts(url) /\ UNCHANGED abandoned
  BY DEF SaveIndexed, Save, SaveNode, FetchRecord
<1>3. CASE /\ nodes_fts' = nodes_fts \cup {Entry(url, Cardinality(Copies(url)))}
           /\ missed' = missed \ {url}
  <2>1. Entry(url, Cardinality(Copies(url))).url = url
    BY DEF Entry
  <2>2. Covered'
    BY <1>1, <1>2, <1>3, <2>1 DEF Covered, Copies
  <2> QED
    BY <1>1, <2>2 DEF IndexInv
<1>4. CASE missed' = missed \cup {url} /\ UNCHANGED nodes_fts
  BY <1>1, <1>2, <1>4 DEF IndexInv, Covered, Copies
<1> QED
  BY <1>2, <1>3, <1>4 DEF InsertFts

(* A start finds the index covering the pages, or rebuilds it, or gives up.*)
LEMMA BootKeepsCover ==
  ASSUME IndexInv, TypeOK, BootIndexed
  PROVE  IndexInv'
<1>1. ~emptied' /\ UNCHANGED nodes
  BY DEF BootIndexed, Boot
<1>2. CASE ~TooFew /\ UNCHANGED <<nodes_fts, missed, abandoned>>
  <2>1. Covered
    BY <1>2, EmptyIsTooFew DEF IndexInv, EmptyWhileDown, Covered
  <2> QED
    BY <1>1, <1>2, <2>1 DEF IndexInv, Covered, Copies
<1>3. CASE nodes_fts' = Rebuilt
  <2>1. \A u \in nodes : Entry(u, 0) \in Rebuilt /\ Entry(u, 0).url = u
    BY DEF Rebuilt, Entry
  <2> QED
    BY <1>1, <1>3, <2>1 DEF IndexInv, Covered, Copies
<1>4. CASE abandoned' = TRUE
  BY <1>1, <1>4 DEF IndexInv, Covered
<1> QED
  BY <1>2, <1>3, <1>4 DEF BootIndexed

(* The other steps of the loop are taken while it is up, and save nothing. *)
LEMMA LoopKeepsCover ==
  ASSUME IndexInv, LoopStep, UNCHANGED index
  PROVE  IndexInv'
<1>1. UNCHANGED nodes /\ up
  BY DEF LoopStep, ChainStep, Start, Enter, GotRows, GotNothing, Recrawl, Reseed, Pick, Drop,
         Reject, Accept, AskRobots, RobotsAnswered, EndScan, SaveFails, Enqueue, Recrawled,
         FetchFails, Unlist, Finally, Stats, ClearProcessed, DiskCheck, Crash, tables, queue,
         Free, Continues
<1> QED
  BY <1>1 DEF IndexInv, EmptyWhileDown, Covered, Copies, index

LEMMA CoverInvariant == IndexSpec => []IndexInv
<1>1. IndexInit => IndexInv
  BY DEF IndexInit, Init, StoreInit, IndexInv, Covered
<1>2. ASSUME Inv, IndexInv, [IndexNext]_<<vars, index>>
      PROVE  IndexInv'
  <2>a. TypeOK /\ fetch \in [Req -> FetchRecord]
    BY <1>2 DEF Inv, Shape, TypeOK
  <2>1. CASE \E q \in Req : SaveIndexed(q)
    BY <1>2, <2>1, <2>a, SaveKeepsCover
  <2>2. CASE BootIndexed
    BY <1>2, <2>2, <2>a, BootKeepsCover
  <2>3. CASE LoopStep /\ UNCHANGED index
    BY <1>2, <2>3, LoopKeepsCover
  <2>4. CASE DeleteIndex
    BY <2>4 DEF DeleteIndex, vars, process, IndexInv, EmptyWhileDown
  <2>5. CASE CrashWhileStarting \/ UNCHANGED <<vars, index>>
    BY <1>2, <2>5
       DEF CrashWhileStarting, vars, tables, process, index, IndexInv, EmptyWhileDown, Covered,
           Copies
  <2> QED
    BY <1>2, <2>1, <2>2, <2>3, <2>4, <2>5 DEF IndexNext
<1> QED
  BY <1>1, <1>2, IndexedLoopIsTheLoop, Invariant, PTL DEF IndexSpec

(* A running crawler has every page in its index, but for failures noted:  *)
(* what a crash leaves of a rebuild is found at the next start             *)
(* (queue.ts:111 to 120).                                                  *)
THEOREM IndexIsComplete == IndexSpec => []IndexCoversPages
<1>1. IndexInv => IndexCoversPages
  BY DEF IndexInv, EmptyWhileDown, Covered, IndexCoversPages
<1> QED
  BY <1>1, CoverInvariant, PTL

(* The rows of a page are numbered without a gap.                          *)
RowsOf(url, n) == {Entry(url, i) : i \in 0..(n - 1)}
RowsAreNumbered ==
  /\ IsFiniteSet(nodes_fts)
  /\ \A u \in Url : \E n \in Nat : Copies(u) = RowsOf(u, n)

LEMMA CountOfRows ==
  ASSUME NEW url, NEW n \in Nat
  PROVE  /\ IsFiniteSet(RowsOf(url, n)) /\ Cardinality(RowsOf(url, n)) = n
         /\ Entry(url, n) \notin RowsOf(url, n)
         /\ RowsOf(url, n) \cup {Entry(url, n)} = RowsOf(url, n + 1)
<1> DEFINE row == [i \in 0..(n - 1) |-> Entry(url, i)]
<1>1. \A i, j \in 0..n : Entry(url, i) = Entry(url, j) => i = j
  <2> SUFFICES ASSUME NEW i \in 0..n, NEW j \in 0..n, Entry(url, i) = Entry(url, j) PROVE i = j
    OBVIOUS
  <2>1. Entry(url, i).copy = i /\ Entry(url, j).copy = j
    BY DEF Entry
  <2> QED
    BY <2>1
<1>2. 0..(n - 1) \subseteq 0..n /\ n \in 0..n /\ n \notin 0..(n - 1)
      /\ 0..n = 0..(n - 1) \cup {n} /\ (n + 1) - 1 = n
  OBVIOUS
<1>3. row \in Bijection(0..(n - 1), RowsOf(url, n))
  <2>1. \A i \in 0..(n - 1) : row[i] = Entry(url, i)
    OBVIOUS
  <2>2. row \in [0..(n - 1) -> RowsOf(url, n)]
    BY DEF RowsOf
  <2>3. row \in Injection(0..(n - 1), RowsOf(url, n))
    BY <1>1, <1>2, <2>1, <2>2 DEF Injection, IsInjective
  <2>4. row \in Surjection(0..(n - 1), RowsOf(url, n))
    BY <2>1, <2>2 DEF Surjection, RowsOf
  <2> QED
    BY <2>3, <2>4 DEF Bijection
<1>4. IsFiniteSet(0..(n - 1)) /\ Cardinality(0..(n - 1)) = n
  BY FS_Interval
<1>5. IsFiniteSet(RowsOf(url, n)) /\ Cardinality(RowsOf(url, n)) = n
  BY <1>3, <1>4, FS_Bijection DEF ExistsBijection
<1>6. Entry(url, n) \notin RowsOf(url, n)
  BY <1>1, <1>2 DEF RowsOf
<1>7. RowsOf(url, n) \cup {Entry(url, n)} = RowsOf(url, n + 1)
  BY <1>2 DEF RowsOf
<1> QED
  BY <1>5, <1>6, <1>7

(* A row inserted is a row more, also for a page that has one.             *)
LEMMA SaveNumbers ==
  ASSUME RowsAreNumbered, NEW url \in Url, InsertFts(url), nodes_fts' # nodes_fts
  PROVE  RowsAreNumbered' /\ ftsCount' = ftsCount + 1
<1>1. PICK n \in Nat : Copies(url) = RowsOf(url, n)
  BY DEF RowsAreNumbered
<1>2. Cardinality(Copies(url)) = n
  BY <1>1, CountOfRows
<1>3. nodes_fts' = nodes_fts \cup {Entry(url, n)}
  BY <1>2 DEF InsertFts
<1>4. Entry(url, n).url = url
  BY DEF Entry
<1>5. Entry(url, n) \notin nodes_fts
  BY <1>1, <1>4, CountOfRows DEF Copies
<1>6. IsFiniteSet(nodes_fts') /\ ftsCount' = ftsCount + 1
  BY <1>3, <1>5, FS_AddElement DEF RowsAreNumbered, ftsCount
<1>7. ASSUME NEW u \in Url PROVE \E m \in Nat : Copies(u)' = RowsOf(u, m)
  <2>1. CASE u = url
    <3>1. Copies(u)' = RowsOf(url, n) \cup {Entry(url, n)}
      BY <1>1, <1>3, <1>4, <2>1 DEF Copies
    <3> QED
      BY <2>1, <3>1, CountOfRows
  <2>2. CASE u # url
    <3>1. Copies(u)' = Copies(u)
      BY <1>3, <1>4, <2>2 DEF Copies
    <3> QED
      BY <3>1 DEF RowsAreNumbered
  <2> QED
    BY <2>1, <2>2
<1> QED
  BY <1>6, <1>7 DEF RowsAreNumbered

(* A rebuilt index has one row for each page, an emptied one none.         *)
LEMMA RebuiltIsNumbered ==
  ASSUME TypeOK, nodes_fts' = Rebuilt \/ nodes_fts' = {}
  PROVE  RowsAreNumbered'
<1>1. IsFiniteSet(nodes)
  BY StoreAssumption, FS_Subset DEF TypeOK, StoreTypeOK
<1>2. IsFiniteSet(nodes_fts')
  <2>1. CASE nodes_fts' = {}
    BY <2>1, FS_EmptySet
  <2>2. CASE nodes_fts' = Rebuilt
    <3> DEFINE row == [u \in nodes |-> Entry(u, 0)]
    <3>1. row \in Surjection(nodes, Rebuilt)
      BY DEF Surjection, Rebuilt
    <3> QED
      BY <1>1, <2>2, <3>1, FS_Surjection
  <2> QED
    BY <2>1, <2>2
<1>3. ASSUME NEW u \in Url PROVE \E n \in Nat : Copies(u)' = RowsOf(u, n)
  <2>1. RowsOf(u, 0) = {} /\ RowsOf(u, 1) = {Entry(u, 0)}
    <3>1. 0..(0 - 1) = {} /\ 0..(1 - 1) = {0}
      OBVIOUS
    <3> QED
      BY <3>1 DEF RowsOf
  <2>2. CASE nodes_fts' = {} \/ u \notin nodes
    <3>1. Copies(u)' = {}
      BY <2>2 DEF Copies, Rebuilt, Entry
    <3> QED
      BY <2>1, <3>1
  <2>3. CASE nodes_fts' = Rebuilt /\ u \in nodes
    <3>1. Copies(u)' = {Entry(u, 0)}
      BY <2>3 DEF Copies, Rebuilt, Entry
    <3> QED
      BY <2>1, <3>1
  <2> QED
    BY <2>2, <2>3
<1> QED
  BY <1>2, <1>3 DEF RowsAreNumbered

LEMMA NumberedStep ==
  ASSUME Inv, Inv', RowsAreNumbered, [IndexNext]_<<vars, index>>
  PROVE  /\ RowsAreNumbered'
         /\ \A q \in Req : SaveIndexed(q) /\ nodes_fts' # nodes_fts => ftsCount' = ftsCount + 1
<1>1. CASE UNCHANGED nodes_fts
  BY <1>1 DEF RowsAreNumbered, Copies
<1>2. ASSUME NEW q \in Req, SaveIndexed(q), nodes_fts' # nodes_fts
      PROVE  RowsAreNumbered' /\ ftsCount' = ftsCount + 1
  <2>1. fetch'[q].finalUrl \in Url /\ InsertFts(fetch'[q].finalUrl)
    <3>1. fetch' \in [Req -> FetchRecord]
      BY DEF Inv, Shape, TypeOK
    <3>2. In(q, "saved")'
      BY <1>2 DEF SaveIndexed, Save, In, Inv, Shape, TypeOK
    <3> QED
      BY <1>2, <3>1, <3>2 DEF SaveIndexed, Inv, Shape, FetchShape, FetchOK, In
  <2> QED
    BY <1>2, <2>1, SaveNumbers
<1>3. CASE BootIndexed \/ DeleteIndex
  <2>1. TypeOK /\ \A q \in Req : ~SaveIndexed(q)
    BY <1>3 DEF Inv, Shape, BootIndexed, Boot, DeleteIndex, SaveIndexed, Save, Free
  <2>2. UNCHANGED nodes_fts \/ nodes_fts' = Rebuilt \/ nodes_fts' = {}
    BY <1>3 DEF BootIndexed, DeleteIndex
  <2> QED
    BY <1>1, <2>1, <2>2, RebuiltIsNumbered
<1>4. (LoopStep /\ UNCHANGED index) \/ CrashWhileStarting \/ UNCHANGED <<vars, index>> =>
        UNCHANGED nodes_fts
  BY DEF CrashWhileStarting, index
<1> QED
  BY <1>1, <1>2, <1>3, <1>4 DEF IndexNext

(* insertFts never replaces a row (db.ts 42, 89): a page saved again counts*)
(* once more in ftsCount, which the next start compares with the pages.    *)
THEOREM EveryRowIsCounted ==
  IndexSpec => [][\A q \in Req :
                    SaveIndexed(q) /\ nodes_fts' # nodes_fts => ftsCount' = ftsCount + 1]_<<vars, index>>
<1>1. IndexInit => RowsAreNumbered
  <2> SUFFICES ASSUME nodes_fts = {} PROVE RowsAreNumbered
    BY DEF IndexInit
  <2>1. \A u \in Url : Copies(u) = {} /\ RowsOf(u, 0) = {}
    <3>1. 0..(0 - 1) = {}
      OBVIOUS
    <3> QED
      BY <3>1 DEF Copies, RowsOf
  <2> QED
    BY <2>1, FS_EmptySet DEF RowsAreNumbered
<1>2. Inv /\ Inv' /\ RowsAreNumbered /\ [IndexNext]_<<vars, index>> => RowsAreNumbered'
  BY NumberedStep
<1>3. Inv /\ Inv' /\ RowsAreNumbered /\ [IndexNext]_<<vars, index>> =>
        [\A q \in Req :
           SaveIndexed(q) /\ nodes_fts' # nodes_fts => ftsCount' = ftsCount + 1]_<<vars, index>>
  BY NumberedStep
<1> QED
  BY <1>1, <1>2, <1>3, IndexedLoopIsTheLoop, Invariant, PTL DEF IndexSpec
=============================================================================
