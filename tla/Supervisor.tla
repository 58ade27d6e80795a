----------------------------- MODULE Supervisor -----------------------------
(***************************************************************************)
(* The dashboard server as the parent of the crawler (server.ts): it forks *)
(* the crawler, restarts it five seconds after it exits, at most           *)
(* MAX_CRAWLER_RESTARTS times, tells the readiness probe whether it is     *)
(* alive, and takes it down in gracefulShutdown.                           *)
(*                                                                         *)
(* A child process is a number, in the order of the forks.  What the       *)
(* operating system and node's child_process do with it is external: fork  *)
(* may throw; a child that could not be spawned reports 'error', with or   *)
(* without an 'exit'; a child that ran reports 'exit' some time after it   *)
(* is gone.  Timers are untimed: their handlers run in any order.          *)
(***************************************************************************)
EXTENDS Integers, FiniteSets

CONSTANT
  MAX_CRAWLER_RESTARTS

ASSUME RestartsAssumption == MAX_CRAWLER_RESTARTS \in Nat

NoChild == 0   \* crawlerWorker = null

VARIABLES
  \* Server's variables.
  crawlerWorker,    \* the child crawlerWorker refers to
  crawlerRestarts,  \* 'exit' events handled
  workerAlive,      \* what /health/ready reports of the crawler
  isShuttingDown,
  restarts,         \* pending restart timers
  shutdown,         \* how far gracefulShutdown's close callback has come
  killing,          \* its SIGKILL timer is pending
  exitCode,         \* Up, or the code the server has exited with
  \* Operating system's.
  forks,            \* children forked so far
  alive,            \* children that run
  gone,             \* children whose 'exit' is not yet delivered
  unspawned,        \* children whose 'error' is not yet delivered
  \* History.
  forkFailed        \* some fork threw or could not spawn

worker == <<crawlerWorker, crawlerRestarts, workerAlive, restarts>>
stopping == <<isShuttingDown, shutdown, killing, exitCode>>
children == <<forks, alive, gone, unspawned, forkFailed>>
vars == <<worker, stopping, children>>

Up == -1
Running == exitCode = Up

(* The three outcomes of fork(): a child, a child that will report 'error', *)
(* and an exception, which setupWorker catches and returns null for.       *)
Spawns ==
  /\ forks' = forks + 1
  /\ alive' = alive \cup {forks'}
  /\ crawlerWorker' = forks' /\ workerAlive' = TRUE
  /\ UNCHANGED <<unspawned, forkFailed>>
CannotSpawn ==
  /\ forks' = forks + 1
  /\ unspawned' = unspawned \cup {forks'}
  /\ crawlerWorker' = forks' /\ workerAlive' = TRUE
  /\ forkFailed' = TRUE
  /\ UNCHANGED alive
Throws ==
  /\ crawlerWorker' = NoChild
  /\ forkFailed' = TRUE
  /\ UNCHANGED <<forks, alive, unspawned, workerAlive>>

BudgetSpent_offByOne == crawlerRestarts > MAX_CRAWLER_RESTARTS + 1
BudgetSpent_early == crawlerRestarts >= MAX_CRAWLER_RESTARTS
BudgetSpent == crawlerRestarts > MAX_CRAWLER_RESTARTS

SetupWorker ==
  \/ /\ BudgetSpent
     /\ crawlerWorker' = NoChild
     /\ UNCHANGED <<forks, alive, unspawned, workerAlive, forkFailed>>
  \/ ~BudgetSpent /\ (Spawns \/ CannotSpawn \/ Throws)

(* Loading server.ts calls setupWorker once.                               *)
Init ==
  /\ crawlerRestarts = 0 /\ restarts = 0 /\ gone = {}
  /\ isShuttingDown = FALSE /\ shutdown = "no" /\ killing = FALSE
  /\ exitCode = Up
  /\ \/ /\ forks = 1 /\ alive = {1} /\ unspawned = {} /\ forkFailed = FALSE
        /\ crawlerWorker = 1 /\ workerAlive = TRUE
     \/ /\ forks = 1 /\ alive = {} /\ unspawned = {1} /\ forkFailed = TRUE
        /\ crawlerWorker = 1 /\ workerAlive = TRUE
     \/ /\ forks = 0 /\ alive = {} /\ unspawned = {} /\ forkFailed = TRUE
        /\ crawlerWorker = NoChild /\ workerAlive = FALSE

(* The crawler process ends, by itself or by the SIGTERM of the shutdown.  *)
ChildEnds(p) ==
  /\ p \in alive
  /\ alive' = alive \ {p} /\ gone' = gone \cup {p}
  /\ UNCHANGED <<worker, stopping, forks, unspawned, forkFailed>>

HealthAfterExit_kept == workerAlive
HealthAfterExit == FALSE

(* child.on("exit").                                                       *)
OnExit(p) ==
  /\ Running /\ p \in gone
  /\ gone' = gone \ {p}
  /\ workerAlive' = HealthAfterExit
  /\ crawlerRestarts' = crawlerRestarts + 1
  /\ restarts' = restarts + 1
  /\ UNCHANGED <<crawlerWorker, stopping, forks, alive, unspawned, forkFailed>>

AfterError_restarts == restarts + 1
AfterError == restarts

(* child.on("error"), for a child that never ran.                          *)
OnError(p) ==
  /\ Running /\ p \in unspawned
  /\ unspawned' = unspawned \ {p}
  /\ gone' \in {gone, gone \cup {p}}
  /\ workerAlive' = FALSE
  /\ restarts' = AfterError
  /\ UNCHANGED <<crawlerWorker, crawlerRestarts, stopping, forks, alive, forkFailed>>

(* The handler of the five-second restart timer.                           *)
TimerDue == restarts > 0
OnRestartTimer ==
  /\ Running /\ TimerDue
  /\ restarts' = restarts - 1
  /\ \/ ~isShuttingDown /\ SetupWorker
     \/ isShuttingDown /\ UNCHANGED <<crawlerWorker, workerAlive, forks, alive, unspawned, forkFailed>>
  /\ UNCHANGED <<crawlerRestarts, stopping, gone>>

-----------------------------------------------------------------------------
(* gracefulShutdown: SIGTERM, SIGINT or an uncaught exception.  It stops   *)
(* listening and starts the ten-second timer.                              *)
Shutdown ==
  /\ Running /\ ~isShuttingDown
  /\ isShuttingDown' = TRUE /\ shutdown' = "closing"
  /\ UNCHANGED <<worker, killing, exitCode, children>>

(* The callback of server.close, once every connection has ended: SIGTERM  *)
(* to the crawler and a five-second timer, if there is a crawler; then the *)
(* connections to Redis, Kafka and Elasticsearch are closed one by one.    *)
OnServerClosed ==
  /\ Running /\ shutdown = "closing"
  /\ shutdown' = "quitting"
  /\ killing' = (crawlerWorker # NoChild)
  /\ UNCHANGED <<worker, isShuttingDown, exitCode, children>>

(* The last of them is closed.                                             *)
OnBackendsClosed ==
  /\ Running /\ shutdown = "quitting"
  /\ shutdown' = "quit"
  /\ exitCode' = IF crawlerWorker = NoChild THEN 0 ELSE Up
  /\ UNCHANGED <<worker, isShuttingDown, killing, children>>

(* The five-second timer: SIGKILL, exit(0).                                *)
Killed_none == {}
Killed == {crawlerWorker}
OnKillTimer ==
  /\ Running /\ killing
  /\ killing' = FALSE
  /\ alive' = alive \ Killed
  /\ exitCode' = 0
  /\ UNCHANGED <<worker, isShuttingDown, shutdown, forks, gone, unspawned, forkFailed>>

(* The ten-second timer: exit(1), whatever is still running.               *)
OnForceTimer ==
  /\ Running /\ isShuttingDown
  /\ exitCode' = 1
  /\ UNCHANGED <<worker, isShuttingDown, shutdown, killing, children>>

Next ==
  \/ \E p \in alive : ChildEnds(p)
  \/ \E p \in gone : OnExit(p)
  \/ \E p \in unspawned : OnError(p)
  \/ OnRestartTimer
  \/ Shutdown
  \/ OnServerClosed \/ OnBackendsClosed
  \/ OnKillTimer \/ OnForceTimer

Spec == Init /\ [][Next]_vars

(* Node delivers every event and runs every timer that is due.             *)
FairSpec ==
  /\ Spec
  /\ WF_vars(\E p \in gone : OnExit(p))
  /\ WF_vars(OnRestartTimer)
  /\ WF_vars(OnForceTimer)

-----------------------------------------------------------------------------
TypeOK ==
  /\ crawlerRestarts \in Nat /\ restarts \in Nat /\ forks \in Nat
  /\ crawlerWorker \in {NoChild} \cup 1..forks
  /\ alive \subseteq 1..forks /\ gone \subseteq 1..forks /\ unspawned \subseteq 1..forks
  /\ workerAlive \in BOOLEAN /\ isShuttingDown \in BOOLEAN
  /\ killing \in BOOLEAN /\ forkFailed \in BOOLEAN
  /\ shutdown \in {"no", "closing", "quitting", "quit"}
  /\ exitCode \in {Up, 0, 1}

(* At most one crawler runs, and it is the one gracefulShutdown would      *)
(* kill: an exit starts one timer, a timer forks one child, and an 'error' *)
(* that is followed by an 'exit' does not start a second one.  Two         *)
(* crawlers would share one SQLite frontier.                               *)
OneCrawler == alive \subseteq {crawlerWorker}

(* The readiness probe tells the truth about the crawler, but for events   *)
(* that are still to be delivered: it never reports a running crawler down *)
(* and never goes on reporting one that is gone.                           *)
HealthIsHonest ==
  Running =>
    /\ alive # {} => workerAlive
    /\ workerAlive => alive \cup gone \cup unspawned # {}

(* The crawler is forked once and then at most MAX_CRAWLER_RESTARTS times. *)
ForksWithinBudget == forks <= MAX_CRAWLER_RESTARTS + 1

(* Within that budget a crawler runs, or has just ended, or is about to be *)
(* forked, as long as no fork fails: a fork that throws, or a child that   *)
(* cannot be spawned and reports no 'exit', ends the supervision for good. *)
KeptAlive ==
  Running /\ ~isShuttingDown /\ ~forkFailed /\ crawlerRestarts <= MAX_CRAWLER_RESTARTS =>
    alive \cup gone # {} \/ restarts > 0

(* A server that exits with 0 leaves no crawler behind, even one that was  *)
(* about to be restarted when the shutdown began.  The forced exit(1)      *)
(* makes no such promise.                                                  *)
ExitZeroLeavesNoCrawler == exitCode = 0 => alive = {}

(* A crawler that ends with restarts left runs again, unless the server is *)
(* taken down or a fork fails.                                             *)
CrawlerComesBack ==
  gone # {} /\ crawlerRestarts < MAX_CRAWLER_RESTARTS ~>
    alive # {} \/ isShuttingDown \/ forkFailed
=============================================================================
