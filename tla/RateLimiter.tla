---------------------------- MODULE RateLimiter ----------------------------
(***************************************************************************)
(* The two limiters of the HTTP API (ratelimit.ts), seen by one client:    *)
(* rateLimit counts every request, searchRateLimit the searches that       *)
(* passed it.  Each starts on the in-memory record of the client, a fixed  *)
(* window, and moves to a RedisRateLimiter (redis.ts), a sliding window,   *)
(* if Redis is connected one second after the start.  Redis itself and its *)
(* client library are external: a pipeline may be answered, be answered    *)
(* with an error in place of each value, or throw, and when it is not      *)
(* answered its commands may have run all the same.                        *)
(*                                                                         *)
(* Time is kept as ages: Tick makes everything one unit older.  Other      *)
(* clients have records and keys of their own.                             *)
(***************************************************************************)
EXTENDS Integers, FiniteSets

CONSTANTS
  WINDOW,      \* RATE_LIMIT_WINDOW_MS
  LIMIT,       \* [general |-> RATE_LIMIT_MAX, search |-> RATE_LIMIT_SEARCH_MAX]
  REDIS_ENABLED,
  Answers      \* what may come of a pipeline

Limiter == {"general", "search"}

ASSUME LimitsAssumption ==
  /\ WINDOW \in Nat \ {0}
  /\ LIMIT \in [Limiter -> Nat \ {0}]
  /\ REDIS_ENABLED \in BOOLEAN
  /\ Answers \subseteq {"counted", "errors", "throws"}

VARIABLES
  client,     \* the client's record in clients, or NoRecord
  useRedis,   \* redisLimiter and redisSearchLimiter: unset, set, or never to be
  zset,       \* the client's key of each RedisRateLimiter: members of each age
  fallback,   \* its record in each localFallback; no record is an old empty one
  searching,  \* a search that rateLimit let pass has not reached searchRateLimit
  passed      \* history: what was let through in the last WINDOW, by age and by means

vars == <<client, useRedis, zset, fallback, searching, passed>>

Means == {"memory", "redis", "unanswered", "fallback"}

(* Ages past the ones every comparison below tells apart are all one.      *)
OLDEST == 2 * WINDOW + 1
Ages == 0..OLDEST
Older(age) == IF age < OLDEST THEN age + 1 ELSE OLDEST
Recent == 0..(WINDOW - 1)
MemberAges == 0..WINDOW   \* older members no pipeline would count
Unused == 0
NoRecord == [age |-> 0, count |-> [l \in Limiter |-> Unused], exists |-> FALSE]
None == [a \in Recent |-> 0]

(* The requests a count per age stands for, and how many they are (zcard). *)
Members(counts) == UNION {{a} \X (1..counts[a]) : a \in DOMAIN counts}
Total(counts) == Cardinality(Members(counts))

Init ==
  /\ client = NoRecord
  /\ useRedis = "unset"
  /\ zset = [l \in Limiter |-> [a \in MemberAges |-> 0]]
  /\ fallback = [l \in Limiter |-> [age |-> OLDEST, count |-> 0]]
  /\ searching = FALSE
  /\ passed = [l \in Limiter |-> [m \in Means |-> None]]

(* setTimeout(initRedisLimiters, 1000): once, with Redis connected or not. *)
InitRedisLimiters ==
  /\ useRedis = "unset"
  /\ useRedis' \in IF REDIS_ENABLED THEN {"yes", "no"} ELSE {"no"}
  /\ UNCHANGED <<client, zset, fallback, searching, passed>>

(* A limiter counts refused requests as well; but once a count is past the *)
(* limit, how far past it is makes no difference to any verdict.           *)
OneMore(l, count) == IF count > LIMIT[l] THEN count ELSE count + 1

(* What follows from a limiter's verdict: next(), or status 429.           *)
Verdict(l, means, allowed) ==
  /\ passed' = IF allowed THEN [passed EXCEPT ![l][means][0] = @ + 1] ELSE passed
  /\ searching' \in IF l = "general" /\ allowed THEN {searching, TRUE}
                    ELSE IF l = "search" THEN {FALSE} ELSE {searching}

(* getClient: the client's record, a new one if its window is over.        *)
WindowOver == client.age > WINDOW
NewRecord == [NoRecord EXCEPT !.exists = TRUE]
GetClient_slides ==
  IF client.exists /\ ~WindowOver THEN [client EXCEPT !.age = 0] ELSE NewRecord
GetClient == IF client.exists /\ ~WindowOver THEN client ELSE NewRecord

InMemory(l) ==
  LET c == [GetClient EXCEPT !.count[l] = OneMore(l, @)]
  IN  /\ client' = c
      /\ Verdict(l, "memory", c.count[l] <= LIMIT[l])
      /\ UNCHANGED <<useRedis, zset, fallback>>

(* The pipeline of isAllowed: zremrangebyscore, zadd, zcard.  (pexpire     *)
(* drops a key that has been idle for WINDOW, whose members are all too    *)
(* old by then.)                                                           *)
Expired_early == {WINDOW - 1, WINDOW}
Expired == {WINDOW}
Counted(l) ==
  [a \in MemberAges |-> IF a = 0 THEN OneMore(l, zset[l][0])
                  ELSE IF a \in Expired THEN 0 ELSE zset[l][a]]

(* _localFallback.                                                         *)
FallenBack(l) ==
  LET entry == IF fallback[l].age > WINDOW THEN [age |-> 0, count |-> 0] ELSE fallback[l]
  IN  [entry EXCEPT !.count = OneMore(l, @)]

(* isAllowed.  It takes the time and hands its pipeline to the connection  *)
(* in one turn, and the connection keeps the order: the verdict, though it *)
(* comes later, is the one of the moment the request arrived.              *)
InRedis(l) ==
  /\ \E answer \in Answers :
       \/ /\ answer = "counted"
          /\ zset' = [zset EXCEPT ![l] = Counted(l)]
          /\ Verdict(l, "redis", Total(Counted(l)) <= LIMIT[l])
          /\ UNCHANGED fallback
       \/ /\ answer = "errors"   \* results[2][1] || 0
          /\ zset' \in {zset, [zset EXCEPT ![l] = Counted(l)]}
          /\ Verdict(l, "unanswered", 0 <= LIMIT[l])
          /\ UNCHANGED fallback
       \/ /\ answer = "throws"
          /\ zset' \in {zset, [zset EXCEPT ![l] = Counted(l)]}
          /\ fallback' = [fallback EXCEPT ![l] = FallenBack(l)]
          /\ Verdict(l, "fallback", FallenBack(l).count <= LIMIT[l])
  /\ UNCHANGED <<client, useRedis>>

Limit(l) == IF useRedis = "yes" THEN InRedis(l) ELSE InMemory(l)

(* app.use(rateLimit), for every request.                                  *)
RateLimit == Limit("general")

(* The limiter of /api/search.                                             *)
SearchRateLimit == searching /\ Limit("search")

(* The interval that forgets clients not seen for two windows.             *)
Stale_early == client.age > 0
Stale == client.age > 2 * WINDOW
CleanupClients ==
  /\ client.exists /\ Stale
  /\ client' = NoRecord
  /\ UNCHANGED <<useRedis, zset, fallback, searching, passed>>

(* Time passes.                                                            *)
Aged(counts) == [a \in DOMAIN counts |-> IF a = 0 THEN 0 ELSE counts[a - 1]]
Tick ==
  /\ client' = IF client.exists THEN [client EXCEPT !.age = Older(@)] ELSE client
  /\ zset' = [l \in Limiter |-> Aged(zset[l])]
  /\ fallback' = [l \in Limiter |-> [fallback[l] EXCEPT !.age = Older(@)]]
  /\ passed' = [l \in Limiter |-> [m \in Means |-> Aged(passed[l][m])]]
  /\ UNCHANGED <<useRedis, searching>>

Next ==
  \/ InitRedisLimiters
  \/ RateLimit
  \/ SearchRateLimit
  \/ CleanupClients
  \/ Tick

Spec == Init /\ [][Next]_vars

(* The clock runs, the limiters are set up, and the client keeps asking.   *)
FairSpec ==
  /\ Spec
  /\ WF_vars(Tick) /\ WF_vars(InitRedisLimiters) /\ WF_vars(RateLimit)

-----------------------------------------------------------------------------
TypeOK ==
  /\ client \in [age: Ages, count: [Limiter -> Nat], exists: BOOLEAN]
  /\ useRedis \in {"unset", "yes", "no"}
  /\ zset \in [Limiter -> [MemberAges -> Nat]]
  /\ fallback \in [Limiter -> [age: Ages, count: Nat]]
  /\ searching \in BOOLEAN
  /\ passed \in [Limiter -> [Means -> [Recent -> Nat]]]

PassedBy(l, m) == Total(passed[l][m])

(* A fixed window lets a client through at most twice its limit in any     *)
(* stretch of WINDOW: once at the end of one window and once at the start  *)
(* of the next.  Neither the shared record of the two limiters nor the     *)
(* clean-up of old records gives more.                                     *)
FixedWindowBudget ==
  \A l \in Limiter, m \in {"memory", "fallback"} : PassedBy(l, m) <= 2 * LIMIT[l]

(* The sliding window, as long as Redis answers, never lets more than the  *)
(* limit through in any stretch of WINDOW, whatever failed in between.     *)
SlidingWindowBudget == \A l \in Limiter : PassedBy(l, "redis") <= LIMIT[l]

(* Without Redis, a client that never stops asking is served again and     *)
(* again: the requests refused to it, however many, do not prolong its     *)
(* window (ratelimit.ts:27 to 34, 52 to 58).                               *)
ServedAgainAndAgain ==
  []<>(useRedis = "no" => passed["general"]["memory"][0] > 0)
=============================================================================
