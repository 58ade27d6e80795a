---------------------------- MODULE FetchProofs ----------------------------
(***************************************************************************)
(* What fetchHtmlRaw guarantees for every number of redirects and every    *)
(* limit on the body.  The argument: the requests of a fetch form a line,  *)
(* and only its last one can be open, with nothing created beyond it.      *)
(***************************************************************************)
EXTENDS Fetch, TLAPS

(* An open request is the last of the chain; those before it only drain.   *)
LastIsOpen ==
  \A d \in Open, e \in Depth :
    /\ e > d => request[e] = "none" /\ promise[e] = "none"
    /\ e < d => request[e] \in {"draining", "over"}

(* Until the limit is reached, everything received is kept.                *)
KeptSoFar == \A d \in Depth : sz[d] < LIMIT => kept[d] = sz[d]

(* A redirect too many makes no request.                                   *)
NoneTooDeep == request[MAX_REDIRECTS + 1] = "none"

Inv == TypeOK /\ PendingIsCovered /\ LastIsOpen /\ KeptSoFar /\ NoneTooDeep

(* The first request of the fetch is open, its timer runs.                 *)
LEMMA InitInv == Init => Inv
<1> SUFFICES ASSUME Init PROVE Inv
  OBVIOUS
<1>1. TypeOK
  <2>1. crashed \in BOOLEAN
    BY Zenon DEF Init
  <2>2. 0 \in Depth
    BY FetchAssumption DEF Depth
  <2> QED
    BY <2>1, <2>2 DEF Init, TypeOK
<1>2. PendingIsCovered
  BY DEF Init, PendingIsCovered, Pending
<1>3. LastIsOpen
  BY FetchAssumption DEF Init, LastIsOpen, Open, Depth
<1>4. KeptSoFar
  BY DEF Init, KeptSoFar
<1>5. NoneTooDeep
  BY FetchAssumption DEF Init, NoneTooDeep, Depth
<1> QED
  BY <1>1, <1>2, <1>3, <1>4, <1>5 DEF Inv

(* A handler that ends its request settles its promise as well.            *)
LEMMA EndInv ==
  ASSUME Inv, ~crashed, NEW d \in Live, NEW outcome \in {"ok", "failed"}, End(d, outcome)
  PROVE  Inv'
<1>1. d \in Depth /\ request[d] # "none"
  BY DEF Open, Live
<1>2. TypeOK'
  BY <1>1 DEF End, Settled, Inv, TypeOK
<1>3. \A e \in Depth : promise'[e] = promise[e] \/ (e = d /\ promise[e] = "pending" /\ promise'[e] = outcome)
  BY DEF End, Settled, Inv, TypeOK
<1>4. Pending' = Pending \ {d}
  BY <1>1 DEF End, Settled, Pending, Inv, TypeOK
<1>5. PendingIsCovered'
  <2> SUFFICES ASSUME NEW e \in Pending, e # d
               PROVE  e \in timer' \/ (e \in follows' /\ promise'[e + 1] # "none")
    BY <1>4 DEF PendingIsCovered
  <2>1. e \in timer \/ (e \in follows /\ promise[e + 1] # "none")
    BY DEF Inv, PendingIsCovered
  <2>2. e \in follows => e + 1 \in Depth
    BY FetchAssumption DEF Inv, TypeOK, Depth
  <2> QED
    BY <2>1, <2>2, <1>3 DEF End
<1>6. Open' = Open \ {d} /\ \A e \in Depth : request'[e] = IF e = d THEN "over" ELSE request[e]
  BY <1>1 DEF End, Open, Inv, TypeOK
<1>7. LastIsOpen'
  BY <1>1, <1>3, <1>6 DEF Inv, LastIsOpen, Open
<1>8. KeptSoFar'
  BY DEF End, Inv, KeptSoFar
<1>9. NoneTooDeep'
  BY <1>1, <1>6, FetchAssumption DEF Inv, NoneTooDeep, Depth
<1> QED
  BY <1>2, <1>5, <1>7, <1>8, <1>9 DEF Inv

(* A redirect hands the promise to the next depth, which nothing had used. *)
LEMMA OnRedirectInv == ASSUME Inv, ~crashed, NEW d \in Depth, OnRedirect(d) PROVE Inv'
<1>1. d \in Open /\ request[d] = "asked"
  BY DEF OnRedirect, Open
<1>2. d \in 0..MAX_REDIRECTS /\ d + 1 \in Depth
  <2>1. d # MAX_REDIRECTS + 1
    BY <1>1 DEF Inv, NoneTooDeep
  <2> QED
    BY <2>1, FetchAssumption DEF Depth
<1>3. request[d + 1] = "none" /\ promise[d + 1] = "none"
  BY <1>1, <1>2 DEF Inv, LastIsOpen, Depth
<1> DEFINE Handed(r, p, t) ==
      /\ request' \in [Depth -> {"none", "asked", "reading", "draining", "over"}]
      /\ promise' \in [Depth -> {"none", "pending", "ok", "failed"}]
      /\ \A e \in Depth :
           /\ request'[e] = IF e = d THEN "draining" ELSE IF e = d + 1 THEN r ELSE request[e]
           /\ promise'[e] = IF e = d + 1 THEN p ELSE promise[e]
      /\ timer' = (timer \ {d}) \cup t
<1>4. PICK r \in {"asked", "none"}, p \in {"pending", "failed"}, t \in {{}, {d + 1}} :
        Handed(r, p, t) /\ (p = "pending" => t = {d + 1}) /\ (d = MAX_REDIRECTS => r = "none")
  <2>1. TooDeep(d + 1) <=> d = MAX_REDIRECTS
    BY <1>2, FetchAssumption DEF TooDeep
  <2>2. d # d + 1 /\ d \in Depth
    BY FetchAssumption DEF Depth
  <2>3. ASSUME ~TooDeep(d + 1), request' = [Drain(d) EXCEPT ![d + 1] = "asked"],
               promise' = [promise EXCEPT ![d + 1] = "pending"],
               timer' = (timer \ {d}) \cup {d + 1}
        PROVE  Handed("asked", "pending", {d + 1})
    BY <1>2, <2>2, <2>3 DEF Drain, Inv, TypeOK
  <2>4. ASSUME request' = Drain(d), promise' = [promise EXCEPT ![d + 1] = "failed"],
               NEW t \in {{}, {d + 1}}, timer' = (timer \ {d}) \cup t
        PROVE  Handed("none", "failed", t)
    BY <1>2, <1>3, <2>2, <2>4 DEF Drain, Inv, TypeOK
  <2>5. \/ ~TooDeep(d + 1) /\ Handed("asked", "pending", {d + 1})
        \/ Handed("none", "failed", {d + 1})
        \/ Handed("none", "failed", {})
    <3>1. CASE /\ ~TooDeep(d + 1)
               /\ request' = [Drain(d) EXCEPT ![d + 1] = "asked"]
               /\ promise' = [promise EXCEPT ![d + 1] = "pending"]
               /\ timer' = (timer \ {d}) \cup {d + 1}
      BY <2>3, <3>1
    <3>2. CASE /\ request' = Drain(d) /\ promise' = [promise EXCEPT ![d + 1] = "failed"]
               /\ timer' = (timer \ {d}) \cup {d + 1}
      BY <2>4, <3>2
    <3>3. CASE /\ request' = Drain(d) /\ promise' = [promise EXCEPT ![d + 1] = "failed"]
               /\ timer' = timer \ {d}
      <4>1. timer' = (timer \ {d}) \cup {}
        BY <3>3
      <4> QED
        BY <2>4, <3>3, <4>1
    <3> QED
      BY <3>1, <3>2, <3>3 DEF OnRedirect
  <2> HIDE DEF Handed
  <2> QED
    BY <2>1, <2>5
<1>5. follows' = follows \cup {d} /\ UNCHANGED <<sz, kept, crashed>>
  BY DEF OnRedirect
<1>6. TypeOK'
  BY <1>2, <1>4, <1>5 DEF Inv, TypeOK
<1>7. \A e \in Depth : promise'[e] = IF e = d + 1 THEN p ELSE promise[e]
  BY <1>4
<1>8. \A e \in Depth : request'[e] = IF e = d THEN "draining" ELSE IF e = d + 1 THEN r ELSE request[e]
  BY <1>4
<1>9. PendingIsCovered'
  <2> SUFFICES ASSUME NEW e \in Depth, promise'[e] = "pending"
               PROVE  e \in timer' \/ (e \in follows' /\ promise'[e + 1] # "none")
    BY DEF PendingIsCovered, Pending
  <2>1. CASE e = d + 1
    BY <2>1, <1>4, <1>7
  <2>2. CASE e = d
    BY <2>2, <1>2, <1>5, <1>7
  <2>3. CASE e # d /\ e # d + 1
    <3>1. e \in timer \/ (e \in follows /\ promise[e + 1] # "none")
      BY <2>3, <1>7 DEF Inv, PendingIsCovered, Pending
    <3>2. e \in follows => e + 1 \in Depth
      BY FetchAssumption DEF Inv, TypeOK, Depth
    <3> QED
      BY <2>3, <3>1, <3>2, <1>4, <1>5, <1>7
  <2> QED
    BY <2>1, <2>2, <2>3
<1>10. LastIsOpen'
  <2>1. \A e \in Open : e = d
    <3> SUFFICES ASSUME NEW e \in Open, e # d PROVE FALSE
      OBVIOUS
    <3>1. e \in Int /\ d \in Int /\ e \in Depth
      BY FetchAssumption DEF Open, Depth
    <3>2. request[e] \in {"asked", "reading"} /\ request[d] \in {"asked", "reading"}
      BY <1>1 DEF Open
    <3>3. e > d \/ e < d
      BY <3>1
    <3> QED
      BY <1>1, <3>1, <3>2, <3>3 DEF Inv, LastIsOpen
  <2>2. \A c \in Open' : c = d + 1
    BY <2>1, <1>8 DEF Open
  <2>3. ASSUME NEW e \in Depth PROVE /\ e > d + 1 => request[e] = "none" /\ promise[e] = "none"
                                     /\ e < d => request[e] \in {"draining", "over"}
    <3>1. e > d + 1 => e > d
      BY <1>2, FetchAssumption DEF Depth
    <3> QED
      BY <1>1, <3>1 DEF Inv, LastIsOpen
  <2>4. ASSUME NEW c \in Open', NEW e \in Depth
        PROVE  /\ e > c => request'[e] = "none" /\ promise'[e] = "none"
               /\ e < c => request'[e] \in {"draining", "over"}
    <3>1. c = d + 1 /\ d \in Int /\ e \in Int
      BY <2>2, FetchAssumption DEF Depth
    <3>2. e > c => e # d /\ e # d + 1 /\ e > d + 1
      BY <3>1
    <3>3. e < c => e = d \/ e < d
      BY <3>1
    <3>4. e < d => e # d /\ e # d + 1
      BY <3>1
    <3> QED
      BY <3>2, <3>3, <3>4, <2>3, <1>7, <1>8
  <2> QED
    BY <2>4 DEF LastIsOpen
<1>11. KeptSoFar'
  BY <1>5 DEF Inv, KeptSoFar
<1>12. NoneTooDeep'
  <2>1. MAX_REDIRECTS + 1 \in Depth /\ d # MAX_REDIRECTS + 1
    BY <1>2, FetchAssumption DEF Depth
  <2>2. d + 1 = MAX_REDIRECTS + 1 => d = MAX_REDIRECTS
    BY <1>2, FetchAssumption
  <2>3. request'[MAX_REDIRECTS + 1] = "none"
    BY <1>4, <1>8, <2>1, <2>2 DEF Inv, NoneTooDeep
  <2> QED
    BY <2>3 DEF NoneTooDeep
<1> QED
  BY <1>6, <1>9, <1>10, <1>11, <1>12 DEF Inv

(* Reading the body and losing the connection leave promises and timers.   *)
LEMMA BodyInv ==
  ASSUME Inv, ~crashed, NEW d \in Depth,
         OnAnswer(d) \/ (\E size \in Sizes : OnData(d, size)) \/ OnAborted(d)
  PROVE  Inv'
<1>1. request[d] # "none" /\ UNCHANGED <<promise, timer, follows, crashed>>
  BY DEF OnAnswer, OnData, OnAborted
<1>2. PICK r \in {"reading", "over"} :
        request' = [request EXCEPT ![d] = r] /\ (r = "reading" => d \in Open)
  <2>1. CASE OnAnswer(d)
    BY <2>1 DEF OnAnswer, Open
  <2>2. CASE OnAborted(d)
    BY <2>2 DEF OnAborted
  <2>3. CASE \E size \in Sizes : OnData(d, size)
    <3>1. request = [request EXCEPT ![d] = "reading"]
      BY <2>3 DEF OnData, Inv, TypeOK
    <3> QED
      BY <2>3, <3>1 DEF OnData, Open
  <2> QED
    BY <2>1, <2>2, <2>3
<1>3. \A e \in Depth : request'[e] = IF e = d THEN r ELSE request[e]
  BY <1>2 DEF Inv, TypeOK
<1>4. /\ sz' \in [Depth -> Nat] /\ kept' \in [Depth -> Nat]
      /\ KeptSoFar'
  <2>1. CASE UNCHANGED <<sz, kept>>
    BY <2>1 DEF Inv, TypeOK, KeptSoFar
  <2>2. ASSUME NEW size \in Sizes, OnData(d, size)
        PROVE  /\ sz' \in [Depth -> Nat] /\ kept' \in [Depth -> Nat]
               /\ KeptSoFar'
    <3>1. size \in Nat /\ LIMIT \in Nat
      BY FetchAssumption
    <3>2. sz' = [sz EXCEPT ![d] = @ + size]
          /\ kept' = IF sz[d] + size < LIMIT THEN [kept EXCEPT ![d] = @ + size] ELSE kept
      BY <2>2 DEF OnData, Fits
    <3>3. sz' \in [Depth -> Nat] /\ kept' \in [Depth -> Nat]
      BY <3>1, <3>2 DEF Inv, TypeOK
    <3>4. sz[d] + size < LIMIT => sz[d] < LIMIT
      BY <3>1 DEF Inv, TypeOK
    <3> QED
      BY <3>1, <3>2, <3>3, <3>4 DEF Inv, TypeOK, KeptSoFar
  <2> QED
    BY <2>1, <2>2 DEF OnAnswer, OnAborted
<1>5. TypeOK'
  BY <1>1, <1>2, <1>4 DEF Inv, TypeOK
<1>6. PendingIsCovered'
  BY <1>1 DEF Inv, PendingIsCovered, Pending
<1>7. LastIsOpen'
  <2>1. Open' \subseteq Open
    BY <1>2, <1>3 DEF Open
  <2> SUFFICES ASSUME NEW c \in Open, NEW e \in Depth
               PROVE  /\ e > c => request'[e] = "none" /\ promise'[e] = "none"
                      /\ e < c => request'[e] \in {"draining", "over"}
    BY <2>1 DEF LastIsOpen
  <2>2. /\ e > c => request[e] = "none" /\ promise[e] = "none"
        /\ e < c => request[e] \in {"draining", "over"}
    BY DEF Inv, LastIsOpen
  <2>3. e = d /\ e < c => r = "over"
    BY <1>2, <2>2 DEF Open
  <2> QED
    BY <1>1, <1>3, <2>2, <2>3
<1>8. NoneTooDeep'
  BY <1>1, <1>3, FetchAssumption DEF Inv, NoneTooDeep, Depth
<1> QED
  BY <1>4, <1>5, <1>6, <1>7, <1>8 DEF Inv

(* A timer and a settled next depth settle the promise they were kept for. *)
LEMMA SettleInv ==
  ASSUME Inv, ~crashed, NEW d \in Depth, OnTimer(d) \/ Follow(d) PROVE Inv'
<1>1. PICK outcome \in {"ok", "failed"} :
        promise' = Settled(d, outcome) /\ (outcome # promise[d] \/ promise[d] # "pending")
  BY DEF OnTimer, Follow, Passed
<1>2. /\ UNCHANGED <<request, follows, sz, kept, crashed>>
      /\ timer' \in {timer, timer \ {d}}
  BY DEF OnTimer, Follow
<1>3. \A e \in Depth : promise'[e] = IF e = d /\ promise[e] = "pending" THEN outcome ELSE promise[e]
  BY <1>1 DEF Settled, Inv, TypeOK
<1>4. TypeOK'
  BY <1>1, <1>2 DEF Settled, Inv, TypeOK
<1>5. PendingIsCovered'
  <2> SUFFICES ASSUME NEW e \in Depth, promise'[e] = "pending"
               PROVE  e \in timer' \/ (e \in follows' /\ promise'[e + 1] # "none")
    BY DEF PendingIsCovered, Pending
  <2>1. e # d /\ promise[e] = "pending"
    BY <1>3
  <2>2. e \in timer \/ (e \in follows /\ promise[e + 1] # "none")
    BY <2>1 DEF Inv, PendingIsCovered, Pending
  <2>3. e \in follows => e + 1 \in Depth
    BY FetchAssumption DEF Inv, TypeOK, Depth
  <2> QED
    BY <2>1, <2>2, <2>3, <1>2, <1>3
<1>6. LastIsOpen'
  BY <1>2, <1>3 DEF Inv, LastIsOpen, Open
<1>7. KeptSoFar' /\ NoneTooDeep'
  BY <1>2 DEF Inv, KeptSoFar, NoneTooDeep
<1> QED
  BY <1>4, <1>5, <1>6, <1>7 DEF Inv

(* An exception in the callback ends the crawler.                          *)
LEMMA CrashInv == ASSUME Inv, NEW d \in Depth, OnBadRedirect(d) PROVE Inv'
<1>1. TypeOK'
  <2>1. crashed' \in BOOLEAN
    BY Zenon DEF OnBadRedirect
  <2> QED
    BY <2>1 DEF OnBadRedirect, Inv, TypeOK
<1>2. PendingIsCovered'
  BY DEF OnBadRedirect, PendingIsCovered
<1>3. d \in Open /\ \A e \in Depth : request'[e] = IF e = d THEN "over" ELSE request[e]
  BY DEF OnBadRedirect, Open, Inv, TypeOK
<1>4. LastIsOpen'
  BY <1>3 DEF OnBadRedirect, Inv, LastIsOpen, Open
<1>5. KeptSoFar'
  BY DEF OnBadRedirect, Inv, KeptSoFar
<1>6. NoneTooDeep'
  BY <1>3, FetchAssumption DEF Inv, NoneTooDeep, Open, Depth
<1> QED
  BY <1>1, <1>2, <1>4, <1>5, <1>6 DEF Inv

(* Every step keeps the invariant.                                         *)
LEMMA StepInv == Inv /\ [Next]_vars => Inv'
<1> SUFFICES ASSUME Inv, [Next]_vars PROVE Inv'
  OBVIOUS
<1>1. CASE UNCHANGED vars
  BY <1>1 DEF vars, Inv, TypeOK, PendingIsCovered, Pending, LastIsOpen, Open, KeptSoFar,
      NoneTooDeep
<1>2. ASSUME ~crashed, NEW d \in Depth, Event(d) \/ OnTimer(d) \/ Follow(d) PROVE Inv'
  <2>1. CASE OnRedirect(d)
    BY <1>2, <2>1, OnRedirectInv
  <2>2. CASE OnBadRedirect(d)
    BY <1>2, <2>2, CrashInv
  <2>3. CASE OnRefusal(d) \/ OnEnd(d) \/ OnError(d) \/ OnIdle(d)
    <3>1. d \in Live /\ \E outcome \in {"ok", "failed"} : End(d, outcome)
      BY <2>3 DEF OnRefusal, OnEnd, OnError, OnIdle, Open, Live
    <3> QED
      BY <1>2, <3>1, EndInv
  <2>4. CASE OnAnswer(d) \/ (\E size \in Sizes : OnData(d, size)) \/ OnAborted(d)
    BY <1>2, <2>4, BodyInv
  <2>5. CASE OnTimer(d) \/ Follow(d)
    BY <1>2, <2>5, SettleInv
  <2> QED
    BY <1>2, <2>1, <2>2, <2>3, <2>4, <2>5 DEF Event
<1> QED
  BY <1>1, <1>2 DEF Next

(* The strengthened invariant of a fetch.                                  *)
THEOREM Invariant == Spec => []Inv
  BY InitInv, StepInv, PTL DEF Spec

(* Every variable of a fetch keeps its type.                               *)
THEOREM TypeCorrect == Spec => []TypeOK
<1>1. Inv => TypeOK
  BY DEF Inv
<1> QED
  BY <1>1, Invariant, PTL

(* No handler of fetchHtmlRaw strands the promise it belongs to.           *)
THEOREM NoPromiseIsStranded == Spec => []PendingIsCovered
<1>1. Inv => PendingIsCovered
  BY DEF Inv
<1> QED
  BY <1>1, Invariant, PTL

(* A fetch has at most one open request, abandoned or not.                 *)
THEOREM OneRequestAtATime == Spec => []OneOpenRequest
<1>1. Inv => OneOpenRequest
  <2> SUFFICES ASSUME Inv, NEW c \in Open, NEW d \in Open, c # d PROVE FALSE
    BY DEF OneOpenRequest
  <2>1. c \in Int /\ d \in Int /\ c \in Depth /\ d \in Depth
    BY FetchAssumption DEF Open, Depth
  <2>2. request[c] \in {"asked", "reading"} /\ request[d] \in {"asked", "reading"}
    BY DEF Open
  <2>3. c > d \/ c < d
    BY <2>1
  <2> QED
    BY <2>1, <2>2, <2>3 DEF Inv, LastIsOpen
<1> QED
  BY <1>1, Invariant, PTL

(* A chunk is kept only after all the chunks before it.                    *)
THEOREM BodiesAreCutNotPatched == Spec => KeepsThePrefix
<1> DEFINE Prefix ==
      \A d \in Depth :
        kept'[d] # kept[d] => kept[d] = sz[d] /\ kept'[d] = sz'[d] /\ kept'[d] < LIMIT
<1>1. Inv /\ [Next]_vars => [Prefix]_vars
  <2> SUFFICES ASSUME Inv, Next PROVE Prefix
    OBVIOUS
  <2>1. PICK d \in Depth : Event(d) \/ OnTimer(d) \/ Follow(d)
    BY DEF Next
  <2>2. CASE UNCHANGED kept
    BY <2>2
  <2>3. ASSUME NEW size \in Sizes, OnData(d, size) PROVE Prefix
    <3>1. size \in Nat \ {0} /\ LIMIT \in Nat /\ sz[d] \in Nat /\ kept[d] \in Nat
      BY FetchAssumption DEF Inv, TypeOK
    <3>2. CASE sz[d] + size < LIMIT
      <4>1. sz[d] < LIMIT
        BY <3>1, <3>2
      <4>2. kept[d] = sz[d]
        BY <4>1 DEF Inv, KeptSoFar
      <4>3. kept' = [kept EXCEPT ![d] = @ + size] /\ sz' = [sz EXCEPT ![d] = @ + size]
        BY <2>3, <3>2 DEF OnData, Fits
      <4> QED
        BY <3>1, <3>2, <4>2, <4>3 DEF Inv, TypeOK
    <3>3. CASE ~(sz[d] + size < LIMIT)
      BY <2>3, <3>3 DEF OnData, Fits
    <3> QED
      BY <3>2, <3>3
  <2> QED
    BY <2>1, <2>2, <2>3 DEF Event, OnRedirect, OnBadRedirect, OnRefusal, OnAnswer, OnEnd, OnError,
       OnAborted, OnIdle, OnTimer, Follow, End
<1> QED
  BY <1>1, Invariant, PTL DEF Spec, KeepsThePrefix

-----------------------------------------------------------------------------
(***************************************************************************)
(* Where the result of a fetch comes from.  Redirects, timers and the      *)
(* errors of requests nobody waits for any more settle promises at every   *)
(* depth of the chain; what reaches the caller as a page is nevertheless   *)
(* one answer, read to its end.                                            *)
(***************************************************************************)

(* The answer at depth d was not a redirect and has been read to its end.  *)
Answered(d) == promise[d] = "ok" /\ request[d] = "over" /\ d \notin follows

(* A redirecting answer is discarded.                                      *)
HandedOver == \A d \in follows : request[d] \in {"draining", "over"}

(* Depths are reached one after the other, each by a redirect.             *)
LineOfPromises ==
  /\ \A d \in Depth : request[d] # "none" => promise[d] # "none"
  /\ \A c, d \in Depth : c < d /\ promise[d] # "none" => c \in follows

(* A successful promise leads, redirect by redirect, to the answer.        *)
OkHasAnswer ==
  \A d \in Depth : promise[d] = "ok" =>
    \E e \in Depth : e >= d /\ Answered(e) /\ d..(e - 1) \subseteq follows

ResultInv == Inv /\ HandedOver /\ LineOfPromises /\ OkHasAnswer

(* At most one answer of a fetch is ever read to its end.                  *)
OneAnswer == \A c, d \in Depth : Answered(c) /\ Answered(d) => c = d

(* What a step must keep for the answers there are to remain, and what it  *)
(* must show of a promise that becomes ok.                                 *)
LEMMA AnswersRemain ==
  ASSUME ResultInv,
         \A e \in Depth : Answered(e) => Answered(e)', follows \subseteq follows',
         \A d \in Depth : promise'[d] = "ok" =>
           \/ promise[d] = "ok"
           \/ Answered(d)'
           \/ d \in follows /\ d + 1 \in Depth /\ promise[d + 1] = "ok"
  PROVE  OkHasAnswer'
<1> SUFFICES ASSUME NEW d \in Depth, promise'[d] = "ok"
             PROVE  \E e \in Depth : e >= d /\ Answered(e)' /\ d..(e - 1) \subseteq follows'
  BY DEF OkHasAnswer
<1>0. Depth \subseteq Int
  BY FetchAssumption DEF Depth
<1>1. CASE promise[d] = "ok"
  BY <1>1 DEF ResultInv, OkHasAnswer
<1>2. CASE Answered(d)'
  <2>1. d >= d /\ d..(d - 1) = {}
    BY <1>0
  <2> QED
    BY <1>2, <2>1
<1>3. CASE d \in follows /\ d + 1 \in Depth /\ promise[d + 1] = "ok"
  <2>1. PICK e \in Depth : e >= d + 1 /\ Answered(e) /\ (d + 1)..(e - 1) \subseteq follows
    BY <1>3 DEF ResultInv, OkHasAnswer
  <2>2. e >= d /\ \A c \in d..(e - 1) : c = d \/ c \in (d + 1)..(e - 1)
    BY <1>0, <2>1
  <2> QED
    BY <1>3, <2>1, <2>2
<1> QED
  BY <1>1, <1>2, <1>3

(* A step that hands nothing on and ends or goes on with requests.         *)
LEMMA RequestsGoOn ==
  ASSUME ResultInv, UNCHANGED follows, NEW d \in Depth,
         \A e \in Depth : promise'[e] = "none" <=> promise[e] = "none",
         \A e \in Depth \ {d} : request'[e] = request[e],
         request[d] # "none", request[d] = "over" => request'[d] = "over",
         d \in follows => request'[d] \in {"draining", "over"},
         \A e \in Depth : promise[e] = "ok" => promise'[e] = "ok"
  PROVE  /\ HandedOver' /\ LineOfPromises'
         /\ \A e \in Depth : Answered(e) => Answered(e)'
<1>0. \A e \in Depth : e = d \/ request'[e] = request[e]
  OBVIOUS
<1>1. HandedOver'
  <2>1. follows \subseteq Depth
    BY FetchAssumption DEF ResultInv, Inv, TypeOK, Depth
  <2> QED
    BY <1>0, <2>1 DEF ResultInv, HandedOver
<1>2. LineOfPromises'
  BY <1>0 DEF ResultInv, LineOfPromises
<1>3. \A e \in Depth : Answered(e) => Answered(e)'
  BY <1>0 DEF Answered
<1> QED
  BY <1>1, <1>2, <1>3

(* A request that ends settles its promise if nothing has before; only the *)
(* end of a body makes it ok.                                              *)
LEMMA EndKeepsResult ==
  ASSUME ResultInv, NEW d \in Live, NEW outcome \in {"ok", "failed"}, End(d, outcome),
         outcome = "ok" => request[d] = "reading"
  PROVE  HandedOver' /\ LineOfPromises' /\ OkHasAnswer'
<1>1. d \in Depth /\ request[d] \in {"asked", "reading", "draining"}
  BY DEF Live, Open
<1>2. promise[d] # "none"
  BY <1>1 DEF ResultInv, LineOfPromises
<1>3. \A e \in Depth : promise'[e] = IF e = d /\ promise[d] = "pending" THEN outcome ELSE promise[e]
  BY <1>1 DEF End, Settled, ResultInv, Inv, TypeOK
<1>4. \A e \in Depth : request'[e] = IF e = d THEN "over" ELSE request[e]
  BY <1>1 DEF End, ResultInv, Inv, TypeOK
<1>5. UNCHANGED follows
  BY DEF End
<1>6. HandedOver' /\ LineOfPromises' /\ \A e \in Depth : Answered(e) => Answered(e)'
  BY <1>1, <1>2, <1>3, <1>4, <1>5, RequestsGoOn
<1>7. ASSUME NEW e \in Depth, promise'[e] = "ok", promise[e] # "ok" PROVE Answered(e)'
  <2>1. e = d /\ outcome = "ok"
    BY <1>3, <1>7
  <2>2. d \notin follows
    BY <2>1 DEF ResultInv, HandedOver
  <2> QED
    BY <1>4, <1>5, <1>7, <2>1, <2>2 DEF Answered
<1> QED
  BY <1>5, <1>6, <1>7, AnswersRemain

(* A redirect goes one depth further, into what is still unused, and takes *)
(* the promise of the redirecting answer along.                            *)
LEMMA RedirectKeepsResult ==
  ASSUME ResultInv, NEW d \in Depth, OnRedirect(d)
  PROVE  /\ HandedOver' /\ LineOfPromises' /\ OkHasAnswer'
         /\ promise[d + 1] = "none" /\ \A e \in Depth \ {d + 1} : promise'[e] = promise[e]
<1>1. request[d] = "asked" /\ d \in Open /\ promise[d] # "none"
  BY DEF OnRedirect, Open, ResultInv, LineOfPromises
<1>2. d + 1 \in Depth /\ d + 1 > d /\ \A c \in Depth : c < d + 1 => c < d \/ c = d
  <2>1. d # MAX_REDIRECTS + 1
    BY <1>1 DEF ResultInv, Inv, NoneTooDeep
  <2> QED
    BY <2>1, FetchAssumption DEF Depth
<1>3. promise[d + 1] = "none" /\ request[d + 1] = "none"
  BY <1>1, <1>2 DEF ResultInv, Inv, LastIsOpen
<1>4. /\ \A e \in Depth \ {d + 1} : promise'[e] = promise[e]
      /\ promise'[d + 1] \in {"pending", "failed"}
  BY <1>2 DEF OnRedirect, ResultInv, Inv, TypeOK
<1>5. /\ \A e \in Depth \ {d, d + 1} : request'[e] = request[e]
      /\ request'[d] = "draining"
  BY <1>2 DEF OnRedirect, Drain, ResultInv, Inv, TypeOK
<1>6. follows' = follows \cup {d}
  BY DEF OnRedirect
<1>7. HandedOver'
  <2>1. follows \subseteq Depth
    BY FetchAssumption DEF ResultInv, Inv, TypeOK, Depth
  <2>2. \A c \in follows : request[c] # "asked" /\ request[c] # "none"
    BY DEF ResultInv, HandedOver
  <2>3. \A c \in follows : c # d + 1 /\ c # d
    BY <1>1, <1>3, <2>2
  <2> QED
    BY <1>5, <1>6, <2>1, <2>3 DEF ResultInv, HandedOver
<1>8. LineOfPromises'
  <2>1. \A e \in Depth : promise[e] # "none" => promise'[e] # "none" /\ e # d + 1
    BY <1>3, <1>4
  <2>2. \A e \in Depth : request'[e] # "none" => promise'[e] # "none"
    <3> SUFFICES ASSUME NEW e \in Depth, request'[e] # "none" PROVE promise'[e] # "none"
      OBVIOUS
    <3>1. CASE e = d + 1
      BY <1>4, <3>1
    <3>2. CASE e = d
      BY <1>1, <2>1, <3>2
    <3>3. CASE e # d /\ e # d + 1
      BY <1>5, <2>1, <3>3 DEF ResultInv, LineOfPromises
    <3> QED
      BY <3>1, <3>2, <3>3
  <2>3. ASSUME NEW c \in Depth, NEW e \in Depth, c < e, promise'[e] # "none" PROVE c \in follows'
    <3>1. CASE e = d + 1
      BY <1>1, <1>2, <1>6, <2>3, <3>1 DEF ResultInv, LineOfPromises
    <3>2. CASE e # d + 1
      BY <1>4, <1>6, <2>3, <3>2 DEF ResultInv, LineOfPromises
    <3> QED
      BY <3>1, <3>2
  <2> QED
    BY <2>2, <2>3 DEF LineOfPromises
<1>9. \A e \in Depth : Answered(e) => Answered(e)'
  BY <1>1, <1>3, <1>4, <1>5, <1>6 DEF Answered
<1>10. \A e \in Depth : promise'[e] = "ok" => promise[e] = "ok"
  BY <1>4
<1> QED
  BY <1>3, <1>4, <1>6, <1>7, <1>8, <1>9, <1>10, AnswersRemain

(* The other events say nothing of a result, or pass on one that is there. *)
LEMMA OthersKeepResult ==
  ASSUME ResultInv, NEW d \in Depth,
         \/ OnBadRedirect(d) \/ OnAnswer(d) \/ OnAborted(d) \/ OnTimer(d) \/ Follow(d)
         \/ \E size \in Sizes : OnData(d, size)
  PROVE  /\ HandedOver' /\ LineOfPromises' /\ OkHasAnswer'
         /\ \A e \in Depth : promise[e] \in {"ok", "failed"} => promise'[e] = promise[e]
<1>1. CASE OnBadRedirect(d) \/ OnAnswer(d) \/ OnAborted(d) \/ \E size \in Sizes : OnData(d, size)
  <2>1. /\ UNCHANGED <<promise, follows>>
        /\ request[d] \in {"asked", "reading", "draining"}
    BY <1>1 DEF OnBadRedirect, OnAnswer, OnAborted, OnData
  <2>2. /\ \A e \in Depth \ {d} : request'[e] = request[e]
        /\ request[d] = "draining" => request'[d] = "over"
    BY <1>1 DEF OnBadRedirect, OnAnswer, OnAborted, OnData, ResultInv, Inv, TypeOK
  <2>3. d \in follows => request[d] = "draining"
    BY <2>1 DEF ResultInv, HandedOver
  <2>4. HandedOver' /\ LineOfPromises' /\ \A e \in Depth : Answered(e) => Answered(e)'
    BY <2>1, <2>2, <2>3, RequestsGoOn
  <2> QED
    BY <2>1, <2>4, AnswersRemain
<1>2. CASE OnTimer(d)
  <2>1. /\ \A e \in Depth : promise'[e] = IF e = d /\ promise[d] = "pending" THEN "failed" ELSE promise[e]
        /\ UNCHANGED <<request, follows>>
    BY <1>2 DEF OnTimer, Settled, ResultInv, Inv, TypeOK
  <2>2. HandedOver' /\ LineOfPromises' /\ \A e \in Depth : Answered(e) => Answered(e)'
    BY <2>1 DEF ResultInv, HandedOver, LineOfPromises, Answered
  <2> QED
    BY <2>1, <2>2, AnswersRemain
<1>3. CASE Follow(d)
  <2>1. /\ d \in follows /\ promise[d] = "pending" /\ d + 1 \in Depth
        /\ promise[d + 1] \in {"ok", "failed"}
    BY <1>3, FetchAssumption DEF Follow, Pending, Passed, ResultInv, Inv, TypeOK, Depth
  <2>2. /\ \A e \in Depth : promise'[e] = IF e = d THEN promise[d + 1] ELSE promise[e]
        /\ UNCHANGED <<request, follows>>
    BY <1>3, <2>1 DEF Follow, Settled, ResultInv, Inv, TypeOK
  <2>3. HandedOver' /\ LineOfPromises' /\ \A e \in Depth : Answered(e) => Answered(e)'
    BY <2>1, <2>2 DEF ResultInv, HandedOver, LineOfPromises, Answered
  <2> QED
    BY <2>1, <2>2, <2>3, AnswersRemain
<1> QED
  BY <1>1, <1>2, <1>3

(* One step of a fetch: what is settled is never unsettled.                *)
LEMMA ResultStep ==
  ASSUME ResultInv, [Next]_vars
  PROVE  /\ ResultInv'
         /\ \A e \in Depth : promise[e] \in {"ok", "failed"} => promise'[e] = promise[e]
<1>1. Inv'
  BY StepInv DEF ResultInv
<1>2. CASE UNCHANGED vars
  BY <1>2, <1>1 DEF vars, ResultInv, HandedOver, LineOfPromises, OkHasAnswer, Answered
<1>3. CASE Next
  <2>1. PICK d \in Depth : Event(d) \/ OnTimer(d) \/ Follow(d)
    BY <1>3 DEF Next
  <2>2. CASE OnRedirect(d)
    <3>1. \A e \in Depth : promise[e] \in {"ok", "failed"} => promise'[e] = promise[e]
      BY <2>2, RedirectKeepsResult
    <3> QED
      BY <1>1, <2>2, <3>1, RedirectKeepsResult DEF ResultInv
  <2>3. CASE OnRefusal(d) \/ OnEnd(d) \/ OnError(d) \/ OnIdle(d)
    <3>1. d \in Live
      BY <2>3 DEF OnRefusal, OnEnd, OnError, OnIdle, Live, Open
    <3>2. PICK outcome \in {"ok", "failed"} :
            End(d, outcome) /\ (outcome = "ok" => request[d] = "reading")
      BY <2>3 DEF OnRefusal, OnEnd, OnError, OnIdle
    <3>3. \A e \in Depth : promise[e] \in {"ok", "failed"} => promise'[e] = promise[e]
      BY <3>2 DEF End, Settled, ResultInv, Inv, TypeOK
    <3> QED
      BY <1>1, <3>1, <3>2, <3>3, EndKeepsResult DEF ResultInv
  <2>4. CASE \/ OnBadRedirect(d) \/ OnAnswer(d) \/ OnAborted(d) \/ OnTimer(d) \/ Follow(d)
             \/ \E size \in Sizes : OnData(d, size)
    BY <1>1, <2>4, OthersKeepResult DEF ResultInv
  <2> QED
    BY <2>1, <2>2, <2>3, <2>4 DEF Event
<1> QED
  BY <1>2, <1>3

LEMMA ResultInvariant == Spec => []ResultInv
<1>1. Init => HandedOver /\ LineOfPromises /\ OkHasAnswer
  BY FetchAssumption DEF Init, HandedOver, LineOfPromises, OkHasAnswer, Depth
<1>2. Init => ResultInv
  BY <1>1, InitInv DEF ResultInv
<1>3. ResultInv /\ [Next]_vars => ResultInv'
  BY ResultStep
<1> QED
  BY <1>2, <1>3, PTL DEF Spec

(* A fetch that succeeds does so with the body of one answer, read to its  *)
(* end, at the end of the redirects it followed; no answer of an abandoned *)
(* or refused request takes its place (fetcher.ts:73, 84-98).              *)
THEOREM SuccessIsTheLastAnswer ==
  Spec => [](promise[0] = "ok" =>
               \E e \in Depth : /\ Answered(e) /\ 0..(e - 1) \subseteq follows
                                /\ \A c \in Depth : Answered(c) => c = e)
<1>1. ResultInv => OneAnswer
  <2> SUFFICES ASSUME ResultInv, NEW c \in Depth, NEW d \in Depth, Answered(c), Answered(d), c # d
               PROVE  FALSE
    BY DEF OneAnswer
  <2>1. c < d \/ d < c
    BY FetchAssumption DEF Depth
  <2> QED
    BY <2>1 DEF ResultInv, LineOfPromises, Answered
<1>2. ResultInv =>
        (promise[0] = "ok" =>
           \E e \in Depth : /\ Answered(e) /\ 0..(e - 1) \subseteq follows
                            /\ \A c \in Depth : Answered(c) => c = e)
  <2>1. 0 \in Depth
    BY FetchAssumption DEF Depth
  <2> QED
    BY <1>1, <2>1 DEF ResultInv, OkHasAnswer, OneAnswer
<1> QED
  BY <1>2, ResultInvariant, PTL

(* A promise of the chain, once settled, keeps its result: a redirect never *)
(* reaches a depth that was used before, and late events change nothing    *)
(* (fetcher.ts:63, 100, 101).                                              *)
THEOREM ResultsAreFinal ==
  Spec => [][\A d \in Depth :
               promise[d] \in {"ok", "failed"} => promise'[d] = promise[d]]_vars
<1>1. ResultInv /\ [Next]_vars =>
        [\A d \in Depth : promise[d] \in {"ok", "failed"} => promise'[d] = promise[d]]_vars
  BY ResultStep
<1> QED
  BY <1>1, ResultInvariant, PTL DEF Spec
=============================================================================
