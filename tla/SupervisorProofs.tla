-------------------------- MODULE SupervisorProofs --------------------------
(***************************************************************************)
(* The server's supervision of the crawler, for every restart budget.      *)
(*                                                                         *)
(* The argument is that the supervision is one thread of life that passes  *)
(* from a running child to its pending event, to a pending timer, and to   *)
(* the next child: it is never in two of these places.  Then, what the      *)
(* crawler tells the server: it arrives in the order it was sent, and what *)
(* is sent later is about more pages, or is the 0 of a crawler that has    *)
(* not managed to count them.                                              *)
(***************************************************************************)
EXTENDS Dashboard, TLAPS

(* Children the server is still to hear of.                                *)
Pending == alive \cup gone \cup unspawned

(* One child at most is in one of these sets, it is crawlerWorker, and no  *)
(* timer is pending beside it.                                             *)
OneThread ==
  /\ Pending \subseteq {crawlerWorker}
  /\ alive \cap gone = {} /\ alive \cap unspawned = {} /\ gone \cap unspawned = {}
  /\ restarts \in {0, 1}
  /\ restarts = 1 => Pending = {}

(* Every fork after the first is paid for by an exit.                      *)
ForksPaidFor ==
  /\ forks <= crawlerRestarts + 1
  /\ restarts = 1 => forks <= crawlerRestarts
  /\ ForksWithinBudget

FailuresNoted == unspawned # {} => forkFailed

Inv ==
  /\ TypeOK
  /\ OneThread
  /\ ForksPaidFor
  /\ FailuresNoted
  /\ HealthIsHonest
  /\ KeptAlive
  /\ ExitZeroLeavesNoCrawler

(* The invariant holds when server.ts has been loaded.                     *)
LEMMA InitInv == Init => Inv
<1> SUFFICES ASSUME Init PROVE Inv
  OBVIOUS
<1>1. TypeOK
  <2>1. crawlerRestarts \in Nat /\ restarts \in Nat /\ forks \in Nat
        /\ crawlerWorker \in {NoChild} \cup 1..forks
    BY DEF Init, NoChild
  <2>2. alive \subseteq 1..forks /\ gone \subseteq 1..forks /\ unspawned \subseteq 1..forks
    BY DEF Init
  <2>3. workerAlive \in BOOLEAN /\ isShuttingDown \in BOOLEAN
        /\ killing \in BOOLEAN /\ forkFailed \in BOOLEAN
    BY Zenon DEF Init
  <2>4. shutdown \in {"no", "closing", "quitting", "quit"} /\ exitCode \in {Up, 0, 1}
    BY DEF Init
  <2> QED
    BY <2>1, <2>2, <2>3, <2>4 DEF TypeOK
<1>2. OneThread
  BY DEF Init, OneThread, Pending
<1>3. ForksPaidFor
  BY RestartsAssumption DEF Init, ForksPaidFor, ForksWithinBudget
<1>4. FailuresNoted /\ HealthIsHonest /\ KeptAlive /\ ExitZeroLeavesNoCrawler
  BY DEF Init, FailuresNoted, HealthIsHonest, KeptAlive, ExitZeroLeavesNoCrawler, Up
<1> QED
  BY <1>1, <1>2, <1>3, <1>4 DEF Inv

(* The end of a child moves it from alive to gone.                         *)
LEMMA ChildEndsInv == ASSUME Inv, NEW p \in alive, ChildEnds(p) PROVE Inv'
  BY DEF ChildEnds, worker, stopping, Inv, TypeOK, OneThread, Pending, ForksPaidFor,
      ForksWithinBudget, FailuresNoted, HealthIsHonest, KeptAlive, ExitZeroLeavesNoCrawler,
      Running, Up, NoChild

(* An exit leaves no child to hear of and starts the only timer.           *)
LEMMA OnExitInv == ASSUME Inv, NEW p \in gone, OnExit(p) PROVE Inv'
<1>1. Pending' = {} /\ restarts = 0
  BY DEF OnExit, Inv, OneThread, Pending
<1>2. crawlerRestarts' = crawlerRestarts + 1 /\ restarts' = 1 /\ workerAlive' = FALSE
  BY <1>1 DEF OnExit, HealthAfterExit
<1>3. TypeOK'
  <2>1. workerAlive' \in BOOLEAN
    BY <1>2, Zenon
  <2>2. UNCHANGED <<crawlerWorker, isShuttingDown, shutdown, killing, exitCode, forks, alive,
                    unspawned, forkFailed>>
    BY DEF OnExit, stopping
  <2>3. crawlerRestarts' \in Nat /\ restarts' \in Nat /\ gone' \subseteq 1..forks
    BY <1>2 DEF OnExit, Inv, TypeOK
  <2> QED
    BY <2>1, <2>2, <2>3 DEF Inv, TypeOK
<1>4. OneThread'
  BY <1>1, <1>2 DEF OneThread, Pending
<1>5. ForksPaidFor'
  BY <1>2 DEF OnExit, Inv, TypeOK, ForksPaidFor, ForksWithinBudget
<1>6. FailuresNoted' /\ ExitZeroLeavesNoCrawler'
  BY DEF OnExit, stopping, Inv, FailuresNoted, ExitZeroLeavesNoCrawler
<1>7. HealthIsHonest' /\ KeptAlive'
  BY <1>1, <1>2 DEF Pending, HealthIsHonest, KeptAlive
<1> QED
  BY <1>3, <1>4, <1>5, <1>6, <1>7 DEF Inv

(* An 'error' concerns a child that never ran, and starts no timer.        *)
LEMMA OnErrorInv == ASSUME Inv, NEW p \in unspawned, OnError(p) PROVE Inv'
<1>1. alive = {} /\ gone = {} /\ unspawned = {p} /\ p = crawlerWorker /\ restarts = 0 /\ forkFailed
  BY DEF Inv, OneThread, Pending, FailuresNoted
<1> QED
  BY <1>1 DEF OnError, AfterError, stopping, Inv, TypeOK, OneThread, Pending, ForksPaidFor,
      ForksWithinBudget, FailuresNoted, HealthIsHonest, KeptAlive, ExitZeroLeavesNoCrawler,
      Running, Up, NoChild

(* The restart timer finds no child to hear of; it forks one at most, and  *)
(* only when an exit has paid for it.                                      *)
LEMMA OnRestartTimerInv == ASSUME Inv, OnRestartTimer PROVE Inv'
<1>1. restarts = 1 /\ restarts' = 0 /\ Pending = {}
  BY DEF OnRestartTimer, TimerDue, Inv, OneThread
<1>2. ~workerAlive
  BY <1>1 DEF OnRestartTimer, Inv, TypeOK, HealthIsHonest, Pending
<1>3. UNCHANGED <<crawlerRestarts, isShuttingDown, shutdown, killing, exitCode, gone>>
  BY DEF OnRestartTimer, stopping
<1>4. CASE isShuttingDown
  <2>1. UNCHANGED <<crawlerWorker, workerAlive, forks, alive, unspawned, forkFailed>>
    BY <1>4 DEF OnRestartTimer
  <2> QED
    BY <1>1, <1>2, <1>3, <1>4, <2>1 DEF Inv, TypeOK, OneThread, Pending, ForksPaidFor,
      ForksWithinBudget, FailuresNoted, HealthIsHonest, KeptAlive, ExitZeroLeavesNoCrawler,
      Running, Up, NoChild
<1>5. CASE BudgetSpent /\ SetupWorker
  <2>1. crawlerWorker' = NoChild /\ UNCHANGED <<forks, alive, unspawned, workerAlive, forkFailed>>
    BY <1>5 DEF SetupWorker
  <2>2. crawlerRestarts > MAX_CRAWLER_RESTARTS
    BY <1>5 DEF BudgetSpent
  <2> QED
    BY <1>1, <1>2, <1>3, <2>1, <2>2, RestartsAssumption DEF Inv, TypeOK, OneThread, Pending,
      ForksPaidFor, ForksWithinBudget, FailuresNoted, HealthIsHonest, KeptAlive,
      ExitZeroLeavesNoCrawler, Running, Up, NoChild
<1>6. CASE ~BudgetSpent /\ SetupWorker
  <2>1. forks <= crawlerRestarts /\ crawlerRestarts <= MAX_CRAWLER_RESTARTS
    BY <1>1, <1>6, RestartsAssumption DEF BudgetSpent, Inv, TypeOK, ForksPaidFor
  <2>2. Running
    BY DEF OnRestartTimer
  <2>3. CASE Spawns
    BY <1>1, <1>2, <1>3, <2>1, <2>2, <2>3, RestartsAssumption DEF Spawns, Inv, TypeOK, OneThread,
      Pending, ForksPaidFor, ForksWithinBudget, FailuresNoted, HealthIsHonest, KeptAlive,
      ExitZeroLeavesNoCrawler, Running, Up, NoChild
  <2>4. CASE CannotSpawn
    BY <1>1, <1>2, <1>3, <2>1, <2>2, <2>4, RestartsAssumption DEF CannotSpawn, Inv, TypeOK,
      OneThread, Pending, ForksPaidFor, ForksWithinBudget, FailuresNoted, HealthIsHonest,
      KeptAlive, ExitZeroLeavesNoCrawler, Running, Up, NoChild
  <2>5. CASE Throws
    BY <1>1, <1>2, <1>3, <2>1, <2>2, <2>5, RestartsAssumption DEF Throws, Inv, TypeOK, OneThread,
      Pending, ForksPaidFor, ForksWithinBudget, FailuresNoted, HealthIsHonest, KeptAlive,
      ExitZeroLeavesNoCrawler, Running, Up, NoChild
  <2> QED
    BY <1>6, <2>3, <2>4, <2>5 DEF SetupWorker
<1> QED
  BY <1>4, <1>5, <1>6 DEF OnRestartTimer

(* The steps of gracefulShutdown fork nothing; the one that exits with 0   *)
(* has killed crawlerWorker, or there is none.                             *)
LEMMA ShutdownInv ==
  ASSUME Inv, Shutdown \/ OnServerClosed \/ OnBackendsClosed \/ OnKillTimer \/ OnForceTimer
  PROVE  Inv'
<1>1. CASE Shutdown
  BY <1>1 DEF Shutdown, worker, children, Inv, TypeOK, OneThread, Pending, ForksPaidFor,
      ForksWithinBudget, FailuresNoted, HealthIsHonest, KeptAlive, ExitZeroLeavesNoCrawler,
      Running, Up, NoChild
<1>2. CASE OnServerClosed
  BY <1>2 DEF OnServerClosed, worker, children, Inv, TypeOK, OneThread, Pending, ForksPaidFor,
      ForksWithinBudget, FailuresNoted, HealthIsHonest, KeptAlive, ExitZeroLeavesNoCrawler,
      Running, Up, NoChild
<1>3. CASE OnBackendsClosed
  <2>1. crawlerWorker = NoChild => alive = {}
    BY DEF Inv, TypeOK, OneThread, Pending, NoChild
  <2> QED
    BY <1>3, <2>1 DEF OnBackendsClosed, worker, children, Inv, TypeOK, OneThread, Pending,
      ForksPaidFor, ForksWithinBudget, FailuresNoted, HealthIsHonest, KeptAlive,
      ExitZeroLeavesNoCrawler, Running, Up
<1>4. CASE OnKillTimer
  <2>1. alive' = {}
    BY <1>4 DEF OnKillTimer, Killed, Inv, OneThread, Pending
  <2> QED
    BY <1>4, <2>1 DEF OnKillTimer, worker, Inv, TypeOK, OneThread, Pending, ForksPaidFor,
      ForksWithinBudget, FailuresNoted, HealthIsHonest, KeptAlive, ExitZeroLeavesNoCrawler,
      Running, Up, NoChild
<1>5. CASE OnForceTimer
  BY <1>5 DEF OnForceTimer, worker, children, Inv, TypeOK, OneThread, Pending, ForksPaidFor,
      ForksWithinBudget, FailuresNoted, HealthIsHonest, KeptAlive, ExitZeroLeavesNoCrawler,
      Running, Up, NoChild
<1> QED
  BY <1>1, <1>2, <1>3, <1>4, <1>5

(* Every step keeps the invariant.                                         *)
LEMMA StepInv == Inv /\ [Next]_vars => Inv'
<1> SUFFICES ASSUME Inv, [Next]_vars PROVE Inv'
  OBVIOUS
<1>1. CASE Next
  BY <1>1, ChildEndsInv, OnExitInv, OnErrorInv, OnRestartTimerInv, ShutdownInv DEF Next
<1>2. CASE UNCHANGED vars
  BY <1>2 DEF vars, worker, stopping, children, Inv, TypeOK, OneThread, Pending, ForksPaidFor,
      ForksWithinBudget, FailuresNoted, HealthIsHonest, KeptAlive, ExitZeroLeavesNoCrawler,
      Running, Up, NoChild
<1> QED
  BY <1>1, <1>2

(* The strengthened invariant of the supervision.                          *)
THEOREM Invariant == Spec => []Inv
  BY InitInv, StepInv, PTL DEF Spec

(* Every variable of the server keeps its type.                            *)
THEOREM TypeCorrect == Spec => []TypeOK
<1>1. Inv => TypeOK
  BY DEF Inv
<1> QED
  BY <1>1, Invariant, PTL

(* At most one crawler runs, and it is the one crawlerWorker refers to.    *)
THEOREM AtMostOneCrawler == Spec => []OneCrawler
<1>1. Inv => OneCrawler
  BY DEF Inv, OneThread, Pending, OneCrawler
<1> QED
  BY <1>1, Invariant, PTL

(* /health/ready is right about the crawler, up to undelivered events.     *)
THEOREM ReadinessIsHonest == Spec => []HealthIsHonest
<1>1. Inv => HealthIsHonest
  BY DEF Inv
<1> QED
  BY <1>1, Invariant, PTL

(* setupWorker forks at most MAX_CRAWLER_RESTARTS + 1 crawlers.            *)
THEOREM ForksAreBounded == Spec => []ForksWithinBudget
<1>1. Inv => ForksWithinBudget
  BY DEF Inv, ForksPaidFor
<1> QED
  BY <1>1, Invariant, PTL

(* Within the budget, and while forks succeed, the supervision goes on.    *)
THEOREM SupervisionGoesOn == Spec => []KeptAlive
<1>1. Inv => KeptAlive
  BY DEF Inv
<1> QED
  BY <1>1, Invariant, PTL

(* A server that exits with 0 leaves no crawler behind.                    *)
THEOREM CleanExitLeavesNoCrawler == Spec => []ExitZeroLeavesNoCrawler
<1>1. Inv => ExitZeroLeavesNoCrawler
  BY DEF Inv
<1> QED
  BY <1>1, Invariant, PTL

-----------------------------------------------------------------------------
(***************************************************************************)
(* The channel from the crawler.                                           *)
(***************************************************************************)

Message == [type : {"tree", "stats"}, count : Nat]

\* A count of pages, if there is one, is not less than an earlier count.
NotOlder(count, earlier) == count = 0 \/ earlier <= count

\* Message i is about no more pages than there are, and not older than what is
\* cached; nor will the crawler's next statistics be older than it.
InOrder(i) ==
  LET msg == wire[i] IN
  /\ msg \in Message /\ msg.count <= pages
  /\ msg.type = "tree" => treeJsonStr <= msg.count
  /\ msg.type = "stats" => /\ NotOlder(msg.count, cachedNodeCount)
                           /\ NotOlder(nodeCount, msg.count)

\* Of two messages of a type the later is not the older.
Follows(msg, earlier) ==
  /\ msg.type = "tree" /\ earlier.type = "tree" => earlier.count <= msg.count
  /\ msg.type = "stats" /\ earlier.type = "stats" => NotOlder(msg.count, earlier.count)

Ordered ==
  /\ pages \in Nat /\ nodeCount \in 0..pages
  /\ treeJsonStr \in 0..pages /\ cachedNodeCount \in 0..pages
  /\ NotOlder(nodeCount, cachedNodeCount)
  /\ wire \in Seq(Message)
  /\ \A i \in 1..Len(wire) :
       /\ InOrder(i)
       /\ \A j \in 1..Len(wire) : i <= j => Follows(wire[j], wire[i])

\* What a step may do to the caches.
Advance ==
  /\ treeJsonStr' >= treeJsonStr
  /\ cachedNodeCount' >= cachedNodeCount \/ cachedNodeCount' = 0

LEMMA OrderedInit == DashboardInit => Ordered
  BY DashboardAssumption DEF DashboardInit, FirstCount, Refreshed, Ordered, NotOlder, NoTree

\* Where the crawler counts again, it has the old count or all the pages.
LEMMA CountKeepsOrder ==
  ASSUME Ordered, nodeCount' \in {nodeCount, pages'} \/ nodeCount' = 0,
         pages' \in {pages, pages + 1},
         UNCHANGED <<wire, treeJsonStr, cachedNodeCount>>
  PROVE  Ordered'
<1>1. /\ pages' \in Nat /\ pages <= pages' /\ nodeCount' \in 0..pages'
      /\ treeJsonStr \in 0..pages' /\ cachedNodeCount \in 0..pages'
      /\ NotOlder(nodeCount', cachedNodeCount)
  BY DEF Ordered, NotOlder
<1>2. ASSUME NEW i \in 1..Len(wire) PROVE InOrder(i)'
  <2>1. InOrder(i) /\ wire[i].count \in Nat
    BY DEF Ordered, InOrder, Message
  <2>2. NotOlder(nodeCount', wire[i].count) \/ wire[i].type # "stats"
    BY <2>1 DEF Ordered, InOrder, NotOlder
  <2> QED
    BY <1>1, <2>1, <2>2 DEF Ordered, InOrder
<1>3. \A i, j \in 1..Len(wire) : i <= j => Follows(wire[j], wire[i])
  BY DEF Ordered
<1>4. wire' \in Seq(Message)
  BY DEF Ordered
<1> QED
  BY <1>1, <1>2, <1>3, <1>4 DEF Ordered

LEMMA SendKeepsOrder ==
  ASSUME Ordered, NEW type \in {"tree", "stats"}, NEW count, Send(type, count),
         nodeCount' \in {nodeCount, pages},
         type = "tree" => count = pages, type = "stats" => count = nodeCount',
         UNCHANGED <<pages, treeJsonStr, cachedNodeCount>>
  PROVE  Ordered'
<1> DEFINE msg == [type |-> type, count |-> count]
<1>1. /\ wire' = Append(wire, msg) /\ pages \in Nat /\ nodeCount' \in 0..pages
      /\ count \in Nat /\ count <= pages /\ NotOlder(nodeCount', cachedNodeCount)
  BY DEF Send, Ordered, NotOlder
<1>2. msg \in Message
  BY <1>1 DEF Message
<1>3. /\ wire' \in Seq(Message)
      /\ Len(wire') = Len(wire) + 1 /\ wire'[Len(wire) + 1] = msg
      /\ \A i \in 1..Len(wire) : wire'[i] = wire[i]
  BY <1>1, <1>2 DEF Ordered
<1>4. \A i \in 1..Len(wire') : i \in 1..Len(wire) \/ i = Len(wire) + 1
  BY <1>3 DEF Ordered
<1>5. Follows(msg, msg) /\ \A i \in 1..Len(wire') : i = Len(wire) + 1 => InOrder(i)'
  <2>1. Follows(msg, msg) /\ treeJsonStr <= pages
    BY <1>1 DEF Ordered, Follows, NotOlder
  <2> QED
    BY <1>1, <1>2, <1>3, <2>1 DEF InOrder, NotOlder
<1>6. ASSUME NEW i \in 1..Len(wire)
      PROVE  InOrder(i)' /\ Follows(msg, wire[i])
  <2>1. InOrder(i) /\ wire[i].count \in Nat
    BY DEF Ordered, InOrder, Message
  <2>2. wire[i].type = "stats" => NotOlder(nodeCount', wire[i].count)
    BY <1>1, <2>1 DEF InOrder, NotOlder
  <2> QED
    BY <1>1, <1>3, <2>1, <2>2 DEF InOrder, Follows
<1>7. \A i \in 1..Len(wire') : InOrder(i)'
  BY <1>3, <1>4, <1>5, <1>6
<1>8. ASSUME NEW i \in 1..Len(wire'), NEW j \in 1..Len(wire'), i <= j
      PROVE  Follows(wire'[j], wire'[i])
  <2>1. CASE j \in 1..Len(wire)
    <3>1. i \in 1..Len(wire)
      BY <1>3, <1>8, <2>1 DEF Ordered
    <3> QED
      BY <1>3, <1>8, <2>1, <3>1 DEF Ordered
  <2>2. CASE j = Len(wire) + 1
    BY <1>3, <1>4, <1>5, <1>6, <2>2
  <2> QED
    BY <1>4, <2>1, <2>2
<1> QED
  BY <1>1, <1>3, <1>7, <1>8 DEF Ordered

\* The first message is taken: neither cache is newer than the next.
LEMMA ReceiveKeepsOrder ==
  ASSUME Ordered, Receive
  PROVE  Ordered' /\ Advance
<1> DEFINE msg == Head(wire)
<1>1. /\ wire # <<>> /\ wire' = Tail(wire) /\ pages' = pages /\ nodeCount' = nodeCount
      /\ treeJsonStr' = IF msg.type = "tree" THEN msg.count ELSE treeJsonStr
      /\ cachedNodeCount' = IF msg.type = "stats" THEN msg.count ELSE cachedNodeCount
  BY DEF Receive, Listens
<1>2. /\ msg = wire[1] /\ 1 \in 1..Len(wire) /\ InOrder(1)
      /\ msg.type \in {"tree", "stats"} /\ msg.count \in Nat
  <2>1. wire \in Seq(Message) /\ wire # <<>>
    BY <1>1 DEF Ordered
  <2>2. msg = wire[1] /\ 1 \in 1..Len(wire)
    BY <2>1
  <2> QED
    BY <2>2 DEF Ordered, InOrder, Message
<1>3. /\ wire' \in Seq(Message)
      /\ Len(wire') = Len(wire) - 1
      /\ \A i \in 1..Len(wire') : wire'[i] = wire[i + 1] /\ i + 1 \in 1..Len(wire)
  BY <1>1 DEF Ordered
<1>4. Advance
  BY <1>1, <1>2 DEF Ordered, InOrder, NotOlder, Advance
<1>5. /\ treeJsonStr' \in 0..pages /\ cachedNodeCount' \in 0..pages
      /\ NotOlder(nodeCount, cachedNodeCount')
  BY <1>1, <1>2 DEF Ordered, InOrder
<1>6. ASSUME NEW i \in 1..Len(wire')
      PROVE  /\ InOrder(i)'
             /\ \A j \in 1..Len(wire') : i <= j => Follows(wire'[j], wire'[i])
  <2>1. wire'[i] = wire[i + 1] /\ i + 1 \in 1..Len(wire) /\ i \in Nat /\ 1 <= i + 1
    BY <1>3
  <2>2. InOrder(i + 1) /\ Follows(wire[i + 1], wire[1])
    BY <1>2, <2>1 DEF Ordered
  <2>3. InOrder(i)'
    BY <1>1, <1>2, <2>1, <2>2 DEF InOrder, Follows
  <2>4. \A j \in 1..Len(wire') : i <= j => Follows(wire[j + 1], wire[i + 1])
    <3> TAKE j \in 1..Len(wire')
    <3>1. i <= j => i + 1 <= j + 1 /\ j + 1 \in 1..Len(wire)
      BY <1>3, <2>1
    <3> QED
      BY <2>1, <3>1 DEF Ordered
  <2> QED
    BY <1>3, <2>1, <2>3, <2>4
<1> QED
  BY <1>1, <1>3, <1>4, <1>5, <1>6 DEF Ordered

\* A crawler that dies takes the messages it sent last, and its count.
LEMMA CutKeepsOrder ==
  ASSUME Ordered, CrawlerEnds
  PROVE  Ordered'
<1>1. PICK n \in 0..Len(wire) : wire' = SubSeq(wire, 1, n)
  BY DEF CrawlerEnds
<1>2. /\ wire' \in Seq(Message) /\ Len(wire') = n
      /\ \A i \in 1..n : wire'[i] = wire[i] /\ i \in 1..Len(wire)
  <2>1. wire \in Seq(Message) /\ Len(wire) \in Nat /\ n \in Nat /\ n <= Len(wire)
    BY DEF Ordered
  <2>2. \A i \in 1..n : i \in 1..Len(wire)
    BY <2>1
  <2>3. \A i \in 1..n : wire[i] \in Message
    BY <2>2 DEF Ordered, InOrder
  <2>4. SubSeq(wire, 1, n) = [i \in 1..n |-> wire[i]]
    BY <2>1, <2>2
  <2> QED
    BY <1>1, <2>1, <2>2, <2>3, <2>4
<1>3. nodeCount' = 0 /\ UNCHANGED <<pages, treeJsonStr, cachedNodeCount>>
  BY DEF CrawlerEnds, caches
<1>4. \A i \in 1..n : InOrder(i)'
  BY <1>2, <1>3 DEF Ordered, InOrder, NotOlder
<1>5. \A i, j \in 1..n : i <= j => Follows(wire'[j], wire'[i])
  BY <1>2 DEF Ordered
<1>6. /\ pages' \in Nat /\ nodeCount' \in 0..pages'
      /\ treeJsonStr' \in 0..pages' /\ cachedNodeCount' \in 0..pages'
      /\ NotOlder(nodeCount', cachedNodeCount')
  BY <1>3 DEF Ordered, NotOlder
<1> QED
  BY <1>2, <1>4, <1>5, <1>6 DEF Ordered

LEMMA OrderedStep ==
  ASSUME Ordered, [DashboardNext]_<<vars, treeVars>>
  PROVE  Ordered' /\ Advance
<1>1. treeJsonStr \in Nat /\ cachedNodeCount \in Nat /\ pages \in Nat
  BY DEF Ordered
<1>2. ASSUME UNCHANGED <<treeJsonStr, cachedNodeCount>> PROVE Advance
  BY <1>1, <1>2 DEF Advance
<1>3. CASE Crawls
  BY <1>2, <1>3, CountKeepsOrder DEF Crawls, caches
<1>4. CASE SendTree
  <2>1. UNCHANGED <<pages, nodeCount, treeJsonStr, cachedNodeCount>>
    BY <1>4 DEF SendTree, caches
  <2> QED
    BY <1>2, <1>4, <2>1, SendKeepsOrder DEF SendTree
<1>5. CASE SendStats
  <2>1. /\ nodeCount' \in {nodeCount, pages} /\ Send("stats", nodeCount')
        /\ UNCHANGED <<pages, treeJsonStr, cachedNodeCount>>
    BY <1>5 DEF SendStats, Refreshed, caches
  <2> QED
    BY <1>2, <2>1, SendKeepsOrder
<1>6. CASE Receive
  BY <1>6, ReceiveKeepsOrder
<1>7. CASE CrawlerEnds
  <2>1. UNCHANGED <<treeJsonStr, cachedNodeCount>>
    BY <1>7 DEF CrawlerEnds, caches
  <2> QED
    BY <1>2, <1>7, <2>1, CutKeepsOrder
<1>8. CASE RestartAfterDrain
  BY <1>2, <1>8, CountKeepsOrder
    DEF RestartAfterDrain, FirstCount, Refreshed, channel, caches
<1>9. CASE UNCHANGED <<pages, nodeCount, wire, treeJsonStr, cachedNodeCount>>
  BY <1>2, <1>9, CountKeepsOrder
<1>10. (\E i \in DOMAIN zips : Compressed(i)) =>
         UNCHANGED <<pages, nodeCount, wire, treeJsonStr, cachedNodeCount>>
  BY DEF Compressed, Served, channel
<1>11. ExitIsHandled \/ ForcedExit \/ UNCHANGED treeVars =>
         UNCHANGED <<pages, nodeCount, wire, treeJsonStr, cachedNodeCount>>
  BY DEF ExitIsHandled, ForcedExit, treeVars, channel, caches
<1> QED
  BY <1>3, <1>4, <1>5, <1>6, <1>7, <1>8, <1>9, <1>10, <1>11 DEF DashboardNext

(* However crawlers die, however compressions overtake each other, and     *)
(* whichever counts fail: the tree that the server shows is never replaced *)
(* by an older one, nor the count, except by the 0 of a new crawler that   *)
(* has not managed to count (server.ts:155, db.ts:128).                    *)
THEOREM CachesOnlyAdvance == DashboardSpec => CachesNeverGoBack
<1>1. Ordered /\ [DashboardNext]_<<vars, treeVars>> => Ordered'
  BY OrderedStep
<1>2. Ordered /\ [DashboardNext]_<<vars, treeVars>> =>
        [/\ treeJsonStr' >= treeJsonStr
         /\ cachedNodeCount' >= cachedNodeCount \/ cachedNodeCount' = 0]_treeVars
  BY OrderedStep DEF Advance
<1> QED
  BY <1>1, <1>2, OrderedInit, PTL DEF DashboardSpec, CachesNeverGoBack

(* The server with its channel supervises as the server without: what was  *)
(* proved of Supervisor holds of Dashboard.                                *)
THEOREM DashboardSupervises == DashboardSpec => Spec
<1>1. DashboardInit => Init
  BY DEF DashboardInit
<1>2. [DashboardNext]_<<vars, treeVars>> => [Next]_vars
  BY DEF DashboardNext, CrawlerEnds, RestartAfterDrain, ExitIsHandled, ForcedExit,
     Crawls, SendTree, SendStats, Receive, Compressed, Next
<1> QED
  BY <1>1, <1>2, PTL DEF DashboardSpec, Spec

-----------------------------------------------------------------------------
(***************************************************************************)
(* What gzip clients are served.                                           *)
(***************************************************************************)

\* Compressions under way, and the one served, are of trees served as JSON
\* before; Plain stands for the bytes of NoTree.
Behind ==
  /\ zips \in Seq(Nat) /\ \A i \in 1..Len(zips) : zips[i] <= treeJsonStr
  /\ treeGzipBuf \in Nat \cup {Plain} /\ treeGzipBuf <= treeJsonStr
  /\ errors \in Nat

LEMMA BehindInit == DashboardInit => Behind
  BY DashboardAssumption DEF DashboardInit, Behind, NoTree, Plain

\* What is left of a sequence without one element was there before.
LEMMA Without ==
  ASSUME NEW s \in Seq(Nat), NEW i \in 1..Len(s)
  PROVE  /\ RemoveAt(s, i) \in Seq(Nat)
         /\ \A j \in 1..Len(RemoveAt(s, i)) :
              \E k \in 1..Len(s) : RemoveAt(s, i)[j] = s[k]
<1> DEFINE front == SubSeq(s, 1, i - 1)
           back == SubSeq(s, i + 1, Len(s))
<1>1. Len(s) \in Nat /\ i \in Nat /\ 1 <= i /\ i <= Len(s)
  OBVIOUS
<1>2. /\ front \in Seq(Nat) /\ Len(front) = i - 1
      /\ \A j \in 1..(i - 1) : front[j] = s[j]
  BY <1>1
<1>3. /\ back \in Seq(Nat) /\ Len(back) = Len(s) - i
      /\ \A j \in 1..(Len(s) - i) : back[j] = s[j + i]
  BY <1>1
<1>4. RemoveAt(s, i) = front \o back
  BY DEF RemoveAt
<1> HIDE DEF front, back
<1>5. /\ front \o back \in Seq(Nat) /\ Len(front \o back) = Len(s) - 1
      /\ \A j \in 1..(Len(s) - 1) :
           (front \o back)[j] = IF j <= i - 1 THEN front[j] ELSE back[j - (i - 1)]
  <2>1. front \in Seq(Nat) /\ back \in Seq(Nat)
    BY <1>2, <1>3
  <2>2. /\ Len(front \o back) = Len(front) + Len(back)
        /\ \A j \in 1..(Len(front) + Len(back)) :
             (front \o back)[j] = IF j <= Len(front) THEN front[j] ELSE back[j - Len(front)]
    BY <2>1
  <2>3. Len(front) = i - 1 /\ Len(front) + Len(back) = Len(s) - 1
    BY <1>1, <1>2, <1>3
  <2>4. front \o back \in Seq(Nat)
    BY <2>1
  <2> QED
    BY <2>2, <2>3, <2>4
<1>6. ASSUME NEW j \in 1..(Len(s) - 1) PROVE \E k \in 1..Len(s) : (front \o back)[j] = s[k]
  <2>1. CASE j <= i - 1
    <3>1. j \in 1..(i - 1) /\ j \in 1..Len(s)
      BY <1>1, <2>1
    <3> QED
      BY <1>2, <1>5, <2>1, <3>1
  <2>2. CASE ~(j <= i - 1)
    <3>1. j - (i - 1) \in 1..(Len(s) - i) /\ j + 1 \in 1..Len(s) /\ j - (i - 1) + i = j + 1
      BY <1>1, <2>2
    <3> QED
      BY <1>3, <1>5, <2>2, <3>1
  <2> QED
    BY <2>1, <2>2
<1> QED
  BY <1>4, <1>5, <1>6

LEMMA BehindStep ==
  ASSUME Ordered, Behind, [DashboardNext]_<<vars, treeVars>>
  PROVE  Behind'
<1>0. treeJsonStr \in Nat /\ treeJsonStr' \in Nat /\ treeJsonStr' >= treeJsonStr
  BY OrderedStep DEF Ordered, Advance
<1>1. CASE UNCHANGED <<zips, treeGzipBuf, errors>>
  BY <1>0, <1>1 DEF Behind, Plain
<1>2. CASE Receive
  <2>1. /\ UNCHANGED <<treeGzipBuf, errors>>
        /\ zips' = zips \/ zips' = Append(zips, treeJsonStr')
    BY <1>2 DEF Receive, ZipsWith
  <2>2. ASSUME zips' = Append(zips, treeJsonStr') PROVE Behind'
    <3>1. /\ zips' \in Seq(Nat) /\ Len(zips') = Len(zips) + 1
          /\ zips'[Len(zips) + 1] = treeJsonStr' /\ \A i \in 1..Len(zips) : zips'[i] = zips[i]
      BY <1>0, <2>2 DEF Behind
    <3>2. \A i \in 1..Len(zips') : i \in 1..Len(zips) \/ i = Len(zips) + 1
      BY <3>1 DEF Behind
    <3>3. \A i \in 1..Len(zips) : zips[i] \in Nat /\ zips[i] <= treeJsonStr
      BY DEF Behind
    <3> QED
      BY <1>0, <2>1, <3>1, <3>2, <3>3 DEF Behind, Plain
  <2> QED
    BY <1>1, <2>1, <2>2
<1>3. CASE \E i \in DOMAIN zips : Compressed(i)
  <2>1. PICK i \in 1..Len(zips) : Compressed(i)
    BY <1>3 DEF Behind
  <2>2. \A j \in 1..Len(zips) : zips[j] \in Nat /\ zips[j] <= treeJsonStr
    BY DEF Behind
  <2>3. /\ zips' = RemoveAt(zips, i) /\ UNCHANGED treeJsonStr
        /\ treeGzipBuf' = zips[i] \/ treeGzipBuf' = treeGzipBuf
        /\ errors' = errors \/ errors' = errors + 1
    BY <2>1 DEF Compressed, Served
  <2>4. zips' \in Seq(Nat) /\ \A j \in 1..Len(zips') : zips'[j] <= treeJsonStr
    BY <2>2, <2>3, Without DEF Behind
  <2> QED
    BY <1>0, <2>2, <2>3, <2>4 DEF Behind
<1>4. Crawls \/ SendTree \/ SendStats \/ CrawlerEnds => UNCHANGED <<zips, treeGzipBuf, errors>>
  BY DEF Crawls, SendTree, SendStats, CrawlerEnds, caches
<1>5. RestartAfterDrain \/ ExitIsHandled \/ ForcedExit \/ UNCHANGED treeVars =>
        UNCHANGED <<zips, treeGzipBuf, errors>>
  BY DEF RestartAfterDrain, ExitIsHandled, ForcedExit, treeVars, caches
<1> QED
  BY <1>1, <1>2, <1>3, <1>4, <1>5 DEF DashboardNext

LEMMA ChannelInvariant == DashboardSpec => [](Ordered /\ Behind)
<1>1. Ordered /\ Behind /\ [DashboardNext]_<<vars, treeVars>> => Ordered' /\ Behind'
  BY OrderedStep, BehindStep
<1> QED
  BY <1>1, OrderedInit, BehindInit, PTL DEF DashboardSpec

(* Compressions that overtake each other leave an older tree to gzip       *)
(* clients, never a newer one than is served as JSON, nor one of pages the *)
(* database does not have (server.ts:166-174, 268).                        *)
THEOREM GzipIsNeverAhead ==
  DashboardSpec => [](ApiTree(TRUE) <= ApiTree(FALSE) /\ ApiTree(FALSE) <= pages)
<1>1. Ordered /\ Behind => ApiTree(TRUE) <= ApiTree(FALSE) /\ ApiTree(FALSE) <= pages
  BY DEF Ordered, Behind, ApiTree
<1> QED
  BY <1>1, ChannelInvariant, PTL

(* Every variable of the server's channel and caches keeps its type.       *)
THEOREM ChannelTypeCorrect ==
  DashboardSpec => [](/\ TypeOK
                      /\ pages \in Nat /\ wire \in Seq(Message)
                      /\ {nodeCount, treeJsonStr, cachedNodeCount, errors} \subseteq Nat
                      /\ treeGzipBuf \in Nat \cup {Plain} /\ zips \in Seq(Nat))
<1>1. Ordered /\ Behind /\ TypeOK =>
        /\ TypeOK
        /\ pages \in Nat /\ wire \in Seq(Message)
        /\ {nodeCount, treeJsonStr, cachedNodeCount, errors} \subseteq Nat
        /\ treeGzipBuf \in Nat \cup {Plain} /\ zips \in Seq(Nat)
  BY DEF Ordered, Behind
<1> QED
  BY <1>1, ChannelInvariant, DashboardSupervises, TypeCorrect, PTL
=============================================================================
