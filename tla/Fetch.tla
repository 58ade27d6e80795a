------------------------------- MODULE Fetch -------------------------------
(***************************************************************************)
(* One call of fetchHtmlRaw (fetcher.ts): a chain of promises, one for     *)
(* each redirect followed, each with a request and a timer of its own.     *)
(* The events of a request, and the order in which they come, are node's   *)
(* and the remote server's: external.  A request that nobody waits for any *)
(* more goes on reporting them.                                            *)
(***************************************************************************)
EXTENDS Integers, FiniteSets

CONSTANTS
  MAX_REDIRECTS,  \* depth > 5 rejects
  LIMIT,          \* 512 * 1024 bytes
  Sizes,          \* sizes of a chunk
  MAX_BYTES       \* bound: bytes of one answer

ASSUME FetchAssumption ==
  /\ MAX_REDIRECTS \in Nat
  /\ LIMIT \in Nat \ {0} /\ MAX_BYTES \in Nat
  /\ Sizes \subseteq Nat \ {0}

(* The call for depth MAX_REDIRECTS + 1 makes no request.                  *)
Depth == 0..(MAX_REDIRECTS + 1)

VARIABLES
  promise,   \* of each depth: not created, pending, or how it was settled first
  request,   \* of each depth: none, no answer yet, reading or discarding the body, or over
  timer,     \* depths whose FETCH_TIMEOUT timer is pending
  follows,   \* depths whose promise was handed to the next depth
  sz, kept,  \* bytes of the body received, and those in chunks
  crashed    \* an exception in a callback has ended the crawler

vars == <<promise, request, timer, follows, sz, kept, crashed>>

Open == {d \in Depth : request[d] \in {"asked", "reading"}}
Live == Open \cup {d \in Depth : request[d] = "draining"}
Pending == {d \in Depth : promise[d] = "pending"}

Init ==
  /\ promise = [d \in Depth |-> IF d = 0 THEN "pending" ELSE "none"]
  /\ request = [d \in Depth |-> IF d = 0 THEN "asked" ELSE "none"]
  /\ timer = {0}
  /\ follows = {}
  /\ sz = [d \in Depth |-> 0] /\ kept = [d \in Depth |-> 0]
  /\ crashed = FALSE

(* ok(...) and no(...): only the first counts.                             *)
Settled(d, outcome) ==
  IF promise[d] = "pending" THEN [promise EXCEPT ![d] = outcome] ELSE promise

(* A handler that ends the request: it clears the timer and settles.       *)
End(d, outcome) ==
  /\ request' = [request EXCEPT ![d] = "over"]
  /\ timer' = timer \ {d}
  /\ promise' = Settled(d, outcome)
  /\ UNCHANGED <<follows, sz, kept, crashed>>

-----------------------------------------------------------------------------
(* The answer redirects: the timer is cleared, the body discarded, and the *)
(* promise of the next depth takes over, pending or already rejected: too  *)
(* many redirects, or a location http.get refuses (which leaves the new    *)
(* timer running).                                                         *)
TooDeep(d) == d > MAX_REDIRECTS
Drain_not(d) == request
Drain(d) == [request EXCEPT ![d] = "draining"]
OnRedirect(d) ==
  /\ request[d] = "asked"
  /\ \/ /\ ~TooDeep(d + 1)
        /\ request' = [Drain(d) EXCEPT ![d + 1] = "asked"]
        /\ promise' = [promise EXCEPT ![d + 1] = "pending"]
        /\ timer' = (timer \ {d}) \cup {d + 1}
     \/ /\ ~TooDeep(d + 1)
        /\ request' = Drain(d)
        /\ promise' = [promise EXCEPT ![d + 1] = "failed"]
        /\ timer' = (timer \ {d}) \cup {d + 1}
     \/ /\ TooDeep(d + 1)
        /\ request' = Drain(d)
        /\ promise' = [promise EXCEPT ![d + 1] = "failed"]
        /\ timer' = timer \ {d}
  /\ follows' = follows \cup {d}
  /\ UNCHANGED <<sz, kept, crashed>>

(* A location that URL cannot parse throws out of the callback.            *)
OnBadRedirect(d) ==
  /\ request[d] = "asked"
  /\ request' = [request EXCEPT ![d] = "over"]
  /\ timer' = timer \ {d}
  /\ crashed' = TRUE
  /\ UNCHANGED <<promise, follows, sz, kept>>

(* .then(ok).catch(no): what settles the next depth settles this one.      *)
Passed_onlyOk == {"ok"}
Passed == {"ok", "failed"}
Follow(d) ==
  /\ d \in follows /\ d \in Pending
  /\ promise[d + 1] \in Passed
  /\ promise' = Settled(d, promise[d + 1])
  /\ UNCHANGED <<request, timer, follows, sz, kept, crashed>>

(* A 5xx, or not HTML.                                                     *)
OnRefusal(d) == request[d] = "asked" /\ End(d, "failed")

(* Anything else is read, a 4xx page too.                                  *)
OnAnswer(d) ==
  /\ request[d] = "asked"
  /\ request' = [request EXCEPT ![d] = "reading"]
  /\ UNCHANGED <<promise, timer, follows, sz, kept, crashed>>

(* res.on("data"): chunks are kept while the total is below the limit; the *)
(* answer is destroyed by a chunk that finds the total at the limit        *)
(* exactly, and is read to its end otherwise.                              *)
Fits_whatIsKept(d, size) == kept[d] + size < LIMIT
Fits(d, size) == sz[d] + size < LIMIT
OnData(d, size) ==
  /\ request[d] = "reading"
  /\ sz[d] + size <= MAX_BYTES
  /\ sz' = [sz EXCEPT ![d] = @ + size]
  /\ kept' = IF Fits(d, size) THEN [kept EXCEPT ![d] = @ + size] ELSE kept
  /\ request' = IF sz[d] = LIMIT THEN [request EXCEPT ![d] = "over"] ELSE request
  /\ UNCHANGED <<promise, timer, follows, crashed>>

OnEnd(d) == request[d] = "reading" /\ End(d, "ok")

(* The connection is lost: req.on("error") before the answer; while the    *)
(* body is read or discarded nobody may be told.  (A discarded body that   *)
(* ends does as little.)                                                   *)
OnError(d) == d \in Live /\ End(d, "failed")
OnAborted(d) ==
  /\ request[d] \in {"reading", "draining"}
  /\ request' = [request EXCEPT ![d] = "over"]
  /\ UNCHANGED <<promise, timer, follows, sz, kept, crashed>>

(* req.on("timeout"): the socket has been idle; the request is destroyed,  *)
(* and its promise rejected, though a later depth may be about to answer.  *)
OnIdle_unsettled(d) == d \in Live /\ End(d, promise[d])
OnIdle(d) == d \in Live /\ End(d, "failed")

(* The timer rejects the promise; the request goes on.                     *)
OnTimer(d) ==
  /\ d \in timer
  /\ timer' = timer \ {d}
  /\ promise' = Settled(d, "failed")
  /\ UNCHANGED <<request, follows, sz, kept, crashed>>

Event(d) ==
  \/ OnRedirect(d) \/ OnBadRedirect(d) \/ OnRefusal(d)
  \/ OnAnswer(d) \/ OnEnd(d)
  \/ \E size \in Sizes : OnData(d, size)
  \/ OnError(d) \/ OnAborted(d) \/ OnIdle(d)

Next == ~crashed /\ \E d \in Depth : Event(d) \/ OnTimer(d) \/ Follow(d)

Spec == Init /\ [][Next]_vars

(* Timers fire and the handlers of settled promises run; no server needs   *)
(* to answer.                                                              *)
FairSpec ==
  /\ Spec
  /\ \A d \in Depth : WF_vars(~crashed /\ OnTimer(d)) /\ WF_vars(~crashed /\ Follow(d))

-----------------------------------------------------------------------------
TypeOK ==
  /\ promise \in [Depth -> {"none", "pending", "ok", "failed"}]
  /\ request \in [Depth -> {"none", "asked", "reading", "draining", "over"}]
  /\ timer \subseteq Depth /\ follows \subseteq 0..MAX_REDIRECTS
  /\ sz \in [Depth -> Nat] /\ kept \in [Depth -> Nat]
  /\ crashed \in BOOLEAN

(* Whatever order the events come in, no handler takes the last hope of a  *)
(* promise: a pending one has its timer, or waits for the next depth.      *)
PendingIsCovered ==
  ~crashed => \A d \in Pending : d \in timer \/ (d \in follows /\ promise[d + 1] # "none")

(* A fetch reads one answer at a time, even when the crawl loop has given  *)
(* it up and its requests go on; earlier answers are only discarded.       *)
OneOpenRequest == \A c, d \in Open : c = d

(* What an answer leaves in chunks is its beginning, within the limit: a   *)
(* long page is cut, never patched together.                               *)
KeepsThePrefix ==
  [][\A d \in Depth :
       kept'[d] # kept[d] => kept[d] = sz[d] /\ kept'[d] = sz'[d] /\ kept'[d] < LIMIT]_vars

(* A fetch settles, in time, whatever the server does or does not do: this *)
(* is what the crawl loop's fairness rests on.                             *)
FetchSettles == promise[0] = "pending" ~> promise[0] # "pending" \/ crashed
=============================================================================
